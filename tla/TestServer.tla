----------------------------- MODULE TestServer -----------------------------
(***************************************************************************)
(* The OTLP test server of package tempoutils: tests running in parallel   *)
(* each create a Server with NewTestServer, which retries NewServer on     *)
(* random ports; clients send traces to a server's address, and the        *)
(* funcProcessor hands every trace to the test's callback; t.Cleanup calls *)
(* Stop, which shuts receivers, processors and exporters down in order and *)
(* returns the first error.                                                *)
(*                                                                         *)
(* NewServer's configuration is a fixed template, so decoding, merging,    *)
(* building the factories and config.Load cannot fail, there are no        *)
(* exporters to start and funcProcessor.Start returns nil: the only step   *)
(* of NewServer that fails is receivers.StartAll binding the gRPC port.    *)
(***************************************************************************)
EXTENDS Naturals, Sequences

CONSTANTS
    Servers,      \* servers created by tests running in parallel
    Ports,        \* the ports rand.Intn can pick (49152..65534), abstracted
    MaxAttempts,  \* the bound of the loop in NewServerWithRandomPort
    Free,         \* a port no process listens on
    Other         \* a port held by a process outside the tests

ASSUME MaxAttempts \in Nat \ {0}

\* Mutant: the processors are shut down before the receivers.
DepsProcessorsFirst == <<"processors", "receivers", "exporters">>

\* The dependencies Stop shuts down, in the order of its deps slice.
Deps == <<"receivers", "processors", "exporters">>
Components == {Deps[i] : i \in 1..Len(Deps)}
NoError == "none"

VARIABLES
    holder,     \* who listens on each port
    srv,        \* per server: where NewTestServer / Stop is, and its fields
    inflight,   \* per server: a trace accepted by the receiver, not yet consumed
    lateTrace   \* history: per server, a trace was consumed by a shut-down processor

vars == <<holder, srv, inflight, lateTrace>>

ServerState ==
    [pc: {"retry", "picked", "pipelined", "serving", "stopping", "stopped", "fatal"},
     attempt: 0..MaxAttempts,
     port: Ports \cup {Free},
     running: SUBSET Components,
     next: 1..Len(Deps) + 1,
     failed: SUBSET Components,
     firstErr: Components \cup {NoError}]

TypeOK ==
    /\ holder \in [Ports -> Servers \cup {Free, Other}]
    /\ srv \in [Servers -> ServerState]
    /\ inflight \in [Servers -> BOOLEAN]
    /\ lateTrace \in [Servers -> BOOLEAN]

\* Every test calls NewTestServer; other processes may hold some ports.
Init ==
    /\ holder \in [Ports -> {Free, Other}]
    /\ srv = [s \in Servers |->
                [pc |-> "retry", attempt |-> 0, port |-> Free, running |-> {},
                 next |-> 1, failed |-> {}, firstErr |-> NoError]]
    /\ inflight = [s \in Servers |-> FALSE]
    /\ lateTrace = [s \in Servers |-> FALSE]

(***************************************************************************)
(* NewServerWithRandomPort and NewServer                                   *)
(***************************************************************************)

\* Mutant: the loop runs one attempt too many (i <= 5).
PickPortOffByOne(s) ==
    /\ srv[s].pc = "retry"
    /\ srv[s].attempt <= MaxAttempts
    /\ \E p \in Ports : srv' = [srv EXCEPT ![s].pc = "picked", ![s].port = p]
    /\ UNCHANGED <<holder, inflight, lateTrace>>

\* One iteration of the loop: port := rand.Intn(65535-49152) + 49152.
PickPort(s) ==
    /\ srv[s].pc = "retry"
    /\ srv[s].attempt < MaxAttempts
    /\ \E p \in Ports : srv' = [srv EXCEPT ![s].pc = "picked", ![s].port = p]
    /\ UNCHANGED <<holder, inflight, lateTrace>>

\* NewServer up to pipelines.StartProcessors: with the fixed configuration
\* every step succeeds and leaves the (empty) exporters and the processors
\* started.
StartPipelines(s) ==
    /\ srv[s].pc = "picked"
    /\ srv' = [srv EXCEPT ![s].pc = "pipelined",
                          ![s].running = {"exporters", "processors"}]
    /\ UNCHANGED <<holder, inflight, lateTrace>>

\* receivers.StartAll binds the port.  On success NewServer returns the
\* Server and the loop returns its address; on failure NewServer returns
\* the error without shutting down the pipelines it started, and the loop
\* records lastError and tries again.
StartReceivers(s) ==
    LET p == srv[s].port IN
    /\ srv[s].pc = "pipelined"
    /\ IF holder[p] = Free
         THEN /\ holder' = [holder EXCEPT ![p] = s]
              /\ srv' = [srv EXCEPT ![s].pc = "serving",
                                    ![s].running = @ \cup {"receivers"}]
         ELSE /\ srv' = [srv EXCEPT ![s].pc = "retry", ![s].port = Free,
                                    ![s].attempt = @ + 1, ![s].running = {}]
              /\ UNCHANGED holder
    /\ UNCHANGED <<inflight, lateTrace>>

\* After five failed attempts NewServerWithRandomPort returns an error and
\* NewTestServer calls t.Fatalf.
GiveUp(s) ==
    /\ srv[s].pc = "retry"
    /\ srv[s].attempt = MaxAttempts
    /\ srv' = [srv EXCEPT ![s].pc = "fatal"]
    /\ UNCHANGED <<holder, inflight, lateTrace>>

(***************************************************************************)
(* Other processes take and release ports.                                 *)
(***************************************************************************)
OtherBinds(p) ==
    /\ holder[p] = Free
    /\ holder' = [holder EXCEPT ![p] = Other]
    /\ UNCHANGED <<srv, inflight, lateTrace>>

OtherReleases(p) ==
    /\ holder[p] = Other
    /\ holder' = [holder EXCEPT ![p] = Free]
    /\ UNCHANGED <<srv, inflight, lateTrace>>


(***************************************************************************)
(* Trace delivery: the OTLP receiver accepts an Export call on the port   *)
(* and funcProcessor.ConsumeTraces calls the test's callback and then the *)
(* next consumer (the exporters, of which there are none).                *)
(***************************************************************************)
ReceiveTrace(p) ==
    /\ holder[p] \in Servers
    /\ LET s == holder[p] IN
         /\ "receivers" \in srv[s].running
         /\ ~inflight[s]
         /\ inflight' = [inflight EXCEPT ![s] = TRUE]
    /\ UNCHANGED <<holder, srv, lateTrace>>

ConsumeTraces(s) ==
    /\ inflight[s]
    /\ inflight' = [inflight EXCEPT ![s] = FALSE]
    /\ lateTrace' = [lateTrace EXCEPT ![s] = @ \/ "processors" \notin srv[s].running]
    /\ UNCHANGED <<holder, srv>>

(***************************************************************************)
(* Stop, registered by NewTestServer with t.Cleanup.                       *)
(***************************************************************************)
BeginStop(s) ==
    /\ srv[s].pc = "serving"
    /\ srv' = [srv EXCEPT ![s].pc = "stopping", ![s].next = 1]
    /\ UNCHANGED <<holder, inflight, lateTrace>>

\* Mutant: firstErr = err without the firstErr == nil check.
ShutdownDepLastError(s) ==
    LET i   == srv[s].next
        dep == Deps[i]
    IN /\ srv[s].pc = "stopping"
       /\ i <= Len(Deps)
       /\ dep = "receivers" => ~inflight[s]
       /\ \E err \in BOOLEAN :
            srv' = [srv EXCEPT
                      ![s].next = i + 1,
                      ![s].running = @ \ {dep},
                      ![s].failed = IF err THEN @ \cup {dep} ELSE @,
                      ![s].firstErr = IF err THEN dep ELSE @]
       /\ holder' = IF dep = "receivers"
                      THEN [holder EXCEPT ![srv[s].port] = Free] ELSE holder
       /\ UNCHANGED <<inflight, lateTrace>>

\* One iteration of the loop over deps: err := dep(shutdownCtx); the first
\* non-nil error is kept.  The receivers' shutdown stops the gRPC server
\* gracefully, waiting for the call in flight, and frees the port.
ShutdownDep(s) ==
    LET i   == srv[s].next
        dep == Deps[i]
    IN /\ srv[s].pc = "stopping"
       /\ i <= Len(Deps)
       /\ dep = "receivers" => ~inflight[s]
       /\ \E err \in BOOLEAN :
            srv' = [srv EXCEPT
                      ![s].next = i + 1,
                      ![s].running = @ \ {dep},
                      ![s].failed = IF err THEN @ \cup {dep} ELSE @,
                      ![s].firstErr = IF err /\ @ = NoError THEN dep ELSE @]
       /\ holder' = IF dep = "receivers"
                      THEN [holder EXCEPT ![srv[s].port] = Free] ELSE holder
       /\ UNCHANGED <<inflight, lateTrace>>

\* return firstErr.
EndStop(s) ==
    /\ srv[s].pc = "stopping"
    /\ srv[s].next = Len(Deps) + 1
    /\ srv' = [srv EXCEPT ![s].pc = "stopped"]
    /\ UNCHANGED <<holder, inflight, lateTrace>>

Next ==
    \/ \E s \in Servers :
         \/ PickPort(s) \/ StartPipelines(s) \/ StartReceivers(s) \/ GiveUp(s)
         \/ ConsumeTraces(s) \/ BeginStop(s) \/ ShutdownDep(s) \/ EndStop(s)
    \/ \E p \in Ports : OtherBinds(p) \/ OtherReleases(p) \/ ReceiveTrace(p)

Spec == Init /\ [][Next]_vars

(***************************************************************************)
(* Properties                                                              *)
(***************************************************************************)

\* No trace is handed to funcProcessor after the processors have been shut
\* down: Stop shuts the receivers down first, and their graceful stop waits
\* for the call in flight.
NoTraceToStoppedProcessor ==
    \A s \in Servers : ~lateTrace[s]

\* The first dependency, in the order of Stop's deps slice, whose shutdown
\* failed; NoError when none did.
FirstFailed(failed) ==
    IF \E i \in 1..Len(Deps) : Deps[i] \in failed
    THEN Deps[CHOOSE i \in 1..Len(Deps) :
                 /\ Deps[i] \in failed
                 /\ \A j \in 1..i - 1 : Deps[j] \notin failed]
    ELSE NoError

\* When Stop returns, every dependency has been shut down and the port is
\* free, even if some shutdowns failed, and the error returned is the one
\* of the first dependency that failed.
StopResult ==
    \A s \in Servers :
        srv[s].pc = "stopped" =>
            /\ srv[s].running = {}
            /\ \A p \in Ports : holder[p] # s
            /\ srv[s].firstErr = FirstFailed(srv[s].failed)

=============================================================================
