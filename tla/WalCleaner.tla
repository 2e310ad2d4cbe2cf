----------------------------- MODULE WalCleaner -----------------------------
(***************************************************************************)
(* The orphaned-WAL cleaner of the agent (package cleaner, walCleaner).    *)
(*                                                                         *)
(* One background goroutine (run) selects between the ticker channel and   *)
(* the done channel and runs CleanupStorage on each tick; any other        *)
(* goroutine may call CleanupStorage concurrently; the owning agent calls  *)
(* Stop once.  The instance manager and the WAL writers of the instances   *)
(* are the environment: they register and unregister storage directories  *)
(* and write segments while passes are running.                            *)
(*                                                                         *)
(* A pass of CleanupStorage is split at the points where it reads shared   *)
(* state: ListInstances, time.Now, the filepath.Walk of the WAL root, and  *)
(* one lastWrittenTime per directory.  Logging is abstracted to the set of *)
(* directories a pass reports as "would delete".                           *)
(***************************************************************************)
EXTENDS Integers, FiniteSets

CONSTANTS
    Dirs,        \* storage directories one level below the WAL root
    Unreadable,  \* directories whose WAL cannot be opened (promwal.Open fails)
    Loop,        \* the goroutine started by NewCleaner (c.run)
    Callers,     \* every goroutine that runs CleanupStorage, Loop included
    MinAge,      \* c.minAge, in clock units
    InitTime,    \* the clock reading when the cleaner is created
    MaxTime,     \* bound on the clock
    WalRootClean \* c.walDirectory is in the form path.Dir returns (no trailing
                 \* slash, no "./" or ".." element)

ASSUME /\ Unreadable \subseteq Dirs
       /\ Loop \in Callers
       /\ MinAge \in Nat /\ InitTime \in Nat /\ MaxTime \in Nat
       /\ InitTime <= MaxTime
       /\ WalRootClean \in BOOLEAN

\* The last segment of a WAL with no segments (Segments() returns last = -1).
NoSeg == -1

\* Capacity of the channel of a time.Ticker.
TickCap == 1

VARIABLES
    now,          \* the wall clock read by time.Now
    owned,        \* storage directories of the instances the manager lists
    present,      \* directories that exist under the WAL root
    lastWrite,    \* mtime of the highest-numbered segment, or NoSeg
    tickerOn,     \* c.ticker has not been stopped
    tickBuf,      \* ticks buffered in c.ticker.C
    done,         \* c.done has been closed
    stopPc,       \* progress of the single Stop call
    loopPc,       \* where c.run is
    pass,         \* per caller: the local state of its CleanupStorage call
    wouldDelete,  \* history: directories logged as "would delete" since they last changed
    quiet         \* history: per caller, no environment step since its ListInstances

envVars   == <<now, owned, present, lastWrite>>
cleanVars == <<tickerOn, tickBuf, done, stopPc, loopPc, pass>>
vars      == <<envVars, cleanVars, wouldDelete, quiet>>

Time == 0..MaxTime

PassState == [pc: {"idle", "listed", "timed", "walked"},
              instances: SUBSET Dirs, pnow: Time,
              todo: SUBSET Dirs, out: SUBSET Dirs]

IdlePass == [pc |-> "idle", instances |-> {}, pnow |-> 0, todo |-> {}, out |-> {}]

TypeOK ==
    /\ now \in Time
    /\ owned \subseteq Dirs /\ present \subseteq Dirs
    /\ lastWrite \in [Dirs -> Time \cup {NoSeg}]
    /\ tickerOn \in BOOLEAN /\ tickBuf \in 0..TickCap /\ done \in BOOLEAN
    /\ stopPc \in {"running", "tickerStopped", "returned", "panicked"}
    /\ loopPc \in {"select", "pass", "exited"}
    /\ pass \in [Callers -> PassState]
    /\ wouldDelete \subseteq Dirs
    /\ quiet \in [Callers -> BOOLEAN]

(***************************************************************************)
(* NewCleaner: the ticker is armed, done is open and run is started.  The  *)
(* disk and the registry may be in any state a running agent leaves them   *)
(* in; a directory that does not exist has no segments.                    *)
(***************************************************************************)
NewCleaner ==
    /\ now = InitTime
    /\ owned \in SUBSET Dirs
    /\ present \in SUBSET Dirs
    /\ lastWrite \in [Dirs -> {NoSeg, 0, InitTime}]
    /\ \A d \in Dirs \ present : lastWrite[d] = NoSeg
    /\ tickerOn = TRUE /\ tickBuf = 0 /\ done = FALSE
    /\ stopPc = "running"
    /\ loopPc = "select"
    /\ pass = [c \in Callers |-> IdlePass]
    /\ wouldDelete = {}
    /\ quiet = [c \in Callers |-> TRUE]

Init == NewCleaner

(***************************************************************************)
(* Environment: the clock, the instance manager and the instances' WALs.   *)
(* Every step that changes a directory voids what was logged about it and  *)
(* marks every pass in progress as having seen a concurrent change.        *)
(***************************************************************************)
EnvChanged(d) ==
    /\ wouldDelete' = wouldDelete \ {d}
    /\ quiet' = [c \in Callers |-> FALSE]

AdvanceClock ==
    /\ now < MaxTime
    /\ now' = now + 1
    /\ UNCHANGED <<owned, present, lastWrite, cleanVars, wouldDelete, quiet>>

\* An instance whose storage directory is d is added to the manager.
InstanceStart(d) ==
    /\ d \notin owned
    /\ owned' = owned \cup {d}
    /\ EnvChanged(d)
    /\ UNCHANGED <<now, present, lastWrite, cleanVars>>

\* A live instance writes its WAL: the directory and a segment now exist.
InstanceWrite(d) ==
    /\ d \in owned
    /\ present' = present \cup {d}
    /\ lastWrite' = [lastWrite EXCEPT ![d] = now]
    /\ EnvChanged(d)
    /\ UNCHANGED <<now, owned, cleanVars>>

\* The instance is removed from the manager; its directory stays on disk.
InstanceStop(d) ==
    /\ d \in owned
    /\ owned' = owned \ {d}
    /\ EnvChanged(d)
    /\ UNCHANGED <<now, present, lastWrite, cleanVars>>

\* An instance shutting down gracefully deletes its own directory.
RemoveDir(d) ==
    /\ d \in present /\ d \notin owned
    /\ present' = present \ {d}
    /\ lastWrite' = [lastWrite EXCEPT ![d] = NoSeg]
    /\ EnvChanged(d)
    /\ UNCHANGED <<now, owned, cleanVars>>

Environment ==
    \/ AdvanceClock
    \/ \E d \in Dirs : InstanceStart(d) \/ InstanceWrite(d)
                       \/ InstanceStop(d) \/ RemoveDir(d)

(***************************************************************************)
(* The ticker: time.NewTicker(period).  Its channel buffers one tick; a    *)
(* tick that finds the buffer full is dropped.  ticker.Stop stops further  *)
(* ticks but does not drain a tick already buffered.                       *)
(***************************************************************************)
\* Mutant: ticks queue up in the channel instead of being dropped.
TickerFiresQueueing ==
    /\ tickerOn
    /\ tickBuf' = tickBuf + 1
    /\ UNCHANGED <<envVars, tickerOn, done, stopPc, loopPc, pass, wouldDelete, quiet>>

TickerFires ==
    /\ tickerOn
    /\ tickBuf < TickCap
    /\ tickBuf' = tickBuf + 1
    /\ UNCHANGED <<envVars, tickerOn, done, stopPc, loopPc, pass, wouldDelete, quiet>>

(***************************************************************************)
(* CleanupStorage, one step per read of shared state.                      *)
(***************************************************************************)

\* instances := c.instanceManager.ListInstances(); getManagedStorage keeps
\* only their storage directories, which is what the registry holds here.
ListInstances(c) ==
    /\ pass' = [pass EXCEPT ![c] = [IdlePass EXCEPT !.pc = "listed", !.instances = owned]]
    /\ quiet' = [quiet EXCEPT ![c] = TRUE]

\* A goroutine other than run calls CleanupStorage.
CleanupStorage(c) ==
    /\ c # Loop
    /\ pass[c].pc = "idle"
    /\ ListInstances(c)
    /\ UNCHANGED <<envVars, tickerOn, tickBuf, done, stopPc, loopPc, wouldDelete>>

\* time.Now(), evaluated as the argument of abandonedStorage.
Now(c) ==
    /\ pass[c].pc = "listed"
    /\ pass' = [pass EXCEPT ![c].pc = "timed", ![c].pnow = now]
    /\ UNCHANGED <<envVars, tickerOn, tickBuf, done, stopPc, loopPc, wouldDelete, quiet>>

\* filepath.Walk of the root, keeping directories one level below it.  A
\* child removed between the root's listing and its Lstat is reported to
\* the walk function as an error and skipped, as if it had not been listed.
\* Walk hands the callback filepath.Join(root, name), which is clean, while
\* root is c.walDirectory as configured: path.Dir(p) == root holds for the
\* children only when the configured root is itself clean.
getAllStorage(c) ==
    /\ pass[c].pc = "timed"
    /\ pass' = [pass EXCEPT ![c].pc = "walked",
                             ![c].todo = IF WalRootClean THEN present ELSE {}]
    /\ UNCHANGED <<envVars, tickerOn, tickBuf, done, stopPc, loopPc, wouldDelete, quiet>>

\* The mtime of the highest-numbered segment of d, or NoSeg when
\* promwal.Open fails, there are no segments (last = -1) or os.Stat fails.
lastWrittenTime(d) ==
    IF d \notin present \/ d \in Unreadable THEN NoSeg ELSE lastWrite[d]

\* Mutant: the managed[dir] check is dropped.
InspectIgnoringManaged(c, d) ==
    LET p     == pass[c]
        mtime == lastWrittenTime(d)
    IN /\ p.pc = "walked"
       /\ d \in p.todo
       /\ pass' = [pass EXCEPT
                     ![c].todo = p.todo \ {d},
                     ![c].out  = IF mtime # NoSeg /\ p.pnow - mtime > MinAge
                                 THEN p.out \cup {d} ELSE p.out]
       /\ UNCHANGED <<envVars, tickerOn, tickBuf, done, stopPc, loopPc, wouldDelete, quiet>>

\* Mutant: the age is computed as mtime.Sub(now) instead of now.Sub(mtime).
InspectDiffReversed(c, d) ==
    LET p     == pass[c]
        mtime == lastWrittenTime(d)
    IN /\ p.pc = "walked"
       /\ d \in p.todo
       /\ pass' = [pass EXCEPT
                     ![c].todo = p.todo \ {d},
                     ![c].out  = IF /\ d \notin p.instances
                                    /\ mtime # NoSeg
                                    /\ mtime - p.pnow > MinAge
                                 THEN p.out \cup {d} ELSE p.out]
       /\ UNCHANGED <<envVars, tickerOn, tickBuf, done, stopPc, loopPc, wouldDelete, quiet>>

\* One iteration of the loop over all in abandonedStorage.  The walk yields
\* the directories in lexical order; the model visits them in any order.
Inspect(c, d) ==
    LET p     == pass[c]
        mtime == lastWrittenTime(d)
    IN /\ p.pc = "walked"
       /\ d \in p.todo
       /\ pass' = [pass EXCEPT
                     ![c].todo = p.todo \ {d},
                     ![c].out  = IF /\ d \notin p.instances
                                    /\ mtime # NoSeg
                                    /\ p.pnow - mtime > MinAge
                                 THEN p.out \cup {d} ELSE p.out]
       /\ UNCHANGED <<envVars, tickerOn, tickBuf, done, stopPc, loopPc, wouldDelete, quiet>>

\* CleanupStorage logs "would delete WAL" for every abandoned directory and
\* returns nil; run, finding no error, goes back to its select.
Report(c) ==
    /\ pass[c].pc = "walked"
    /\ pass[c].todo = {}
    /\ wouldDelete' = wouldDelete \cup pass[c].out
    /\ pass' = [pass EXCEPT ![c] = IdlePass]
    /\ loopPc' = IF c = Loop THEN "select" ELSE loopPc
    /\ UNCHANGED <<envVars, tickerOn, tickBuf, done, stopPc, quiet>>

PassStep(c) ==
    \/ Now(c)
    \/ getAllStorage(c)
    \/ \E d \in Dirs : Inspect(c, d)
    \/ Report(c)

(***************************************************************************)
(* run: a select over c.done and c.ticker.C.  When both are ready Go picks *)
(* one of them at random.                                                  *)
(***************************************************************************)
runDone ==
    /\ loopPc = "select"
    /\ done
    /\ loopPc' = "exited"
    /\ UNCHANGED <<envVars, tickerOn, tickBuf, done, stopPc, pass, wouldDelete, quiet>>

runTick ==
    /\ loopPc = "select"
    /\ tickBuf > 0
    /\ tickBuf' = tickBuf - 1
    /\ loopPc' = "pass"
    /\ ListInstances(Loop)
    /\ UNCHANGED <<envVars, tickerOn, done, stopPc, wouldDelete>>

(***************************************************************************)
(* Stop: c.ticker.Stop() then close(c.done).  The agent calls it once.     *)
(***************************************************************************)
\* Mutant: Stop closes c.done without stopping the ticker.
StopTickerMissing ==
    /\ stopPc = "running"
    /\ stopPc' = "tickerStopped"
    /\ UNCHANGED <<envVars, tickerOn, tickBuf, done, loopPc, pass, wouldDelete, quiet>>

StopTicker ==
    /\ stopPc = "running"
    /\ stopPc' = "tickerStopped"
    /\ tickerOn' = FALSE
    /\ UNCHANGED <<envVars, tickBuf, done, loopPc, pass, wouldDelete, quiet>>

\* Mutant: Stop stops the ticker but never closes c.done.
CloseDoneMissing ==
    /\ stopPc = "tickerStopped"
    /\ stopPc' = "returned"
    /\ UNCHANGED <<envVars, tickerOn, tickBuf, done, loopPc, pass, wouldDelete, quiet>>

CloseDone ==
    /\ stopPc = "tickerStopped"
    /\ stopPc' = "returned"
    /\ done' = TRUE
    /\ UNCHANGED <<envVars, tickerOn, tickBuf, loopPc, pass, wouldDelete, quiet>>

\* A second call of Stop once the first has returned: c.ticker.Stop() again
\* has no effect, and close(c.done) on the closed channel panics.
StopAgain ==
    /\ stopPc = "returned"
    /\ done
    /\ stopPc' = "panicked"
    /\ UNCHANGED <<envVars, tickerOn, tickBuf, done, loopPc, pass, wouldDelete, quiet>>

LoopStep == runDone \/ runTick \/ PassStep(Loop)

Next ==
    \/ Environment
    \/ TickerFires
    \/ LoopStep
    \/ \E c \in Callers \ {Loop} : CleanupStorage(c) \/ PassStep(c)
    \/ StopTicker \/ CloseDone

(***************************************************************************)
(* The Go runtime keeps scheduling run while it can proceed, a ticker that *)
(* has not been stopped keeps firing, and a Stop call that has begun       *)
(* finishes.  Nothing obliges the agent to call Stop, other goroutines to  *)
(* call CleanupStorage, or instances to act.                               *)
(***************************************************************************)
Fairness == WF_vars(LoopStep) /\ WF_vars(TickerFires) /\ WF_vars(CloseDone)

Spec == Init /\ [][Next]_vars /\ Fairness

\* The same system when the owner may call Stop a second time.
NextStopTwice == Next \/ StopAgain

SpecStopTwice == Init /\ [][NextStopTwice]_vars /\ Fairness


(***************************************************************************)
(* Properties                                                              *)
(***************************************************************************)

\* The classification the spec gives for one pass (spec 3 and 4.3): the
\* directories on disk, not owned by a live instance, whose WAL has a last
\* segment written more than MinAge before the pass's clock reading.
Abandoned(managed, t) ==
    {d \in present \ managed :
        /\ d \notin Unreadable
        /\ lastWrite[d] # NoSeg
        /\ t - lastWrite[d] > MinAge}

\* A pass of CleanupStorage that saw no concurrent change to the registry or
\* the disk reports exactly the spec's abandoned set: the managed check,
\* the skip on a missing, unreadable or segment-less WAL and the strict age
\* comparison in abandonedStorage/lastWrittenTime together compute it.
PassMatchesSpec ==
    \A c \in Callers :
        (pass[c].pc = "walked" /\ pass[c].todo = {} /\ quiet[c])
            => pass[c].out = Abandoned(owned, pass[c].pnow)

\* After Stop has returned, the run goroutine eventually returns (Stop does
\* not leak it), even when a tick is still buffered in c.ticker.C.
StopEventuallyExits ==
    stopPc = "returned" ~> loopPc = "exited"

\* A directory that is abandoned now is eventually logged as "would delete"
\* by some pass, unless it stops being abandoned or the cleaner is stopped.
Eligible(d) == d \in Abandoned(owned, now)

AbandonedEventuallyReported ==
    \A d \in Dirs :
        Eligible(d) ~> (d \in wouldDelete \/ ~Eligible(d) \/ done)

\* Once Stop has returned, run never begins another pass (spec 4.4 and 5:
\* Stop "must guarantee no further reconciliation passes begin after it
\* returns").
NoPassStartsAfterStop ==
    [][stopPc = "returned" => loopPc' # "pass" \/ loopPc = "pass"]_vars

\* No directory is logged as "would delete" while a live instance owns it
\* (spec 3: absence from the snapshot alone must not make a directory a
\* candidate while an instance is being created on it).
ReportedNotLive ==
    [][\A d \in wouldDelete' \ wouldDelete : d \notin owned']_vars

\* Calling Stop again after it has returned is a no-op (spec 4.4 and 9:
\* "implement stop is idempotent explicitly rather than relying on
\* channel-close-once semantics, to avoid a double-close failure mode").
SecondStopNoOp ==
    [][stopPc = "returned" => stopPc' = "returned"]_vars

(***************************************************************************)
(* Refinement: the scheduler implements CleanerLifecycle.  Stop has        *)
(* returned once done is closed; the passes run may begin after that are   *)
(* the ticks still buffered in c.ticker.C, since the ticker was stopped    *)
(* first.                                                                  *)
(***************************************************************************)
LoopPhase == [select |-> "waiting", pass |-> "passing", exited |-> "exited"]

Lifecycle == INSTANCE CleanerLifecycle
    WITH stopped <- done,
         loop    <- LoopPhase[loopPc],
         spare   <- IF done THEN tickBuf ELSE 1

\* The loop and Stop together behave as CleanerLifecycle: no pass begins
\* after Stop returns except for the one tick ticker.Stop leaves buffered,
\* run exits only after done is closed, and then does exit.
LifecycleRefined == Lifecycle!LSpec

=============================================================================
