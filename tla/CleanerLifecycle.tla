--------------------------- MODULE CleanerLifecycle ---------------------------
(***************************************************************************)
(* What the WAL cleaner's scheduler promises, without ticks, snapshots or  *)
(* the disk: the background loop alternates between waiting and running a *)
(* pass; once Stop has returned the loop may begin at most `spare` more    *)
(* passes, and then exits.  A pass already running when Stop returns is    *)
(* not waited for.                                                         *)
(*                                                                         *)
(* spare is what remains of the allowance for passes after Stop: Stop      *)
(* fixes it at 0 or 1 (a tick may still be buffered), and every pass begun *)
(* after Stop uses one.  Before Stop it plays no part.                     *)
(***************************************************************************)
EXTENDS Naturals

VARIABLES
    stopped,   \* Stop has returned
    loop,      \* "waiting", "passing" or "exited"
    spare      \* passes the loop may still begin after Stop

lvars == <<stopped, loop, spare>>

LTypeOK ==
    /\ stopped \in BOOLEAN
    /\ loop \in {"waiting", "passing", "exited"}
    /\ spare \in 0..1

LInit ==
    /\ stopped = FALSE
    /\ loop = "waiting"
    /\ spare = 1

BeginPass ==
    /\ loop = "waiting"
    /\ stopped => spare > 0
    /\ loop' = "passing"
    /\ spare' = IF stopped THEN spare - 1 ELSE spare
    /\ UNCHANGED stopped

EndPass ==
    /\ loop = "passing"
    /\ loop' = "waiting"
    /\ UNCHANGED <<stopped, spare>>

\* Stop returns, leaving room for at most one more pass.
Stop ==
    /\ ~stopped
    /\ stopped' = TRUE
    /\ spare' \in 0..1
    /\ UNCHANGED loop

\* The loop returns; only after Stop.
Exit ==
    /\ stopped
    /\ loop = "waiting"
    /\ loop' = "exited"
    /\ UNCHANGED <<stopped, spare>>

LNext == BeginPass \/ EndPass \/ Stop \/ Exit

\* A pass that has begun ends, and a stopped loop that is waiting exits.
LSpec == LInit /\ [][LNext]_lvars /\ WF_lvars(EndPass) /\ WF_lvars(Exit)

=============================================================================
