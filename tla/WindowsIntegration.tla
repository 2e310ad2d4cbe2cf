-------------------------- MODULE WindowsIntegration --------------------------
(***************************************************************************)
(* The windows_exporter integration (windows_exporter.go).  New builds the *)
(* exporter library and an exporterMetricsRegistry shared by every handler *)
(* the integration makes.  The integrations manager may call RegisterRoutes *)
(* on several routers; each call runs handler(), which registers the        *)
(* library's collector and a build_info collector in a fresh registry and  *)
(* wraps both registries in one promhttp handler, whose error counter      *)
(* promhttp registers in exporterMetricsRegistry (an AlreadyRegisteredError *)
(* makes it reuse the counter already there).  Prometheus scrapes the      *)
(* mounted handlers while Run waits for its context.                       *)
(*                                                                         *)
(* Built for another platform (the !windows file, src/unnamed/part_001)    *)
(* the package holds a stub instead: its New only logs a warning,         *)
(* RegisterRoutes mounts nothing and returns nil, ScrapeConfigs is empty   *)
(* and Run is the same wait.  `built` records which of the two New built.  *)
(***************************************************************************)
EXTENDS FiniteSets

CONSTANTS
    Routers,   \* the routers RegisterRoutes is called with
    NoRoute    \* a router on which nothing is mounted

VARIABLES
    built,      \* "none" before New, then which file's Integration it built
    weOK,       \* the library's collector registers (its descriptors are valid)
    weInfo,     \* the library's collector already exports windows_exporter_build_info
    shared,     \* collectors in i.exporterMetricsRegistry
    mounted,    \* per router: NoRoute, or the path and the collectors of its registry r
    result,     \* per router: what RegisterRoutes returned
    served,     \* history: the sets of collectors scrapes have gathered
    ctxDone,    \* Run's context has been cancelled
    runPc       \* where Run is

vars == <<built, weOK, weInfo, shared, mounted, result, served, ctxDone, runPc>>

Collectors == {"windows", "build_info", "handler_errors"}

Route == [path : {"/metrics"}, regs : SUBSET Collectors]

TypeOK ==
    /\ built \in {"none", "windows", "stub"} /\ weOK \in BOOLEAN /\ weInfo \in BOOLEAN
    /\ shared \subseteq Collectors
    /\ mounted \in [Routers -> Route \cup {NoRoute}]
    /\ result \in [Routers -> {"none", "ok", "err"}]
    /\ served \subseteq SUBSET Collectors
    /\ ctxDone \in BOOLEAN
    /\ runPc \in {"idle", "waiting", "returned"}

Init ==
    /\ built = "none" /\ weOK = FALSE /\ weInfo = FALSE
    /\ shared = {}
    /\ mounted = [r \in Routers |-> NoRoute]
    /\ result = [r \in Routers |-> "none"]
    /\ served = {}
    /\ ctxDone = FALSE
    /\ runPc = "idle"

\* Config.Name (config.go): the scrape job and the build_info collector are
\* named after it.
Name == "windows_exporter"

\* New: exporter.CreateLibrary builds the collector from the raw config;
\* whether its descriptors are valid and whether it exports a build_info
\* metric of its own is up to the library.
New ==
    /\ built = "none"
    /\ built' = "windows"
    /\ weOK' \in BOOLEAN /\ weInfo' \in BOOLEAN
    /\ UNCHANGED <<shared, mounted, result, served, ctxDone, runPc>>

\* New of the stub: it logs that the integration does nothing off Windows.
StubNew ==
    /\ built = "none"
    /\ built' = "stub"
    /\ UNCHANGED <<weOK, weInfo, shared, mounted, result, served, ctxDone, runPc>>

\* Config.NewIntegration (config.go): the manager builds the integration
\* through it, and it returns New(l, c) of the file the build selected.
NewIntegration == New \/ StubNew

\* Mutant: the build_info collector is registered in exporterMetricsRegistry.
handlerInfoShared ==
    IF ~weOK THEN [err |-> TRUE, own |-> {}, shared |-> shared]
    ELSE IF weInfo \/ "build_info" \in shared
         THEN [err |-> TRUE, own |-> {"windows"}, shared |-> shared \cup {"handler_errors"}]
         ELSE [err |-> FALSE, own |-> {"windows"},
               shared |-> shared \cup {"handler_errors", "build_info"}]

\* handler(): r := prometheus.NewRegistry(); r.Register(i.we) fails on an
\* invalid collector; promhttp.HandlerFor registers (or reuses) its error
\* counter in exporterMetricsRegistry; r.Register(version.NewCollector(...))
\* fails when the name is already collected by i.we.
handler ==
    IF ~weOK THEN [err |-> TRUE, own |-> {}, shared |-> shared]
    ELSE IF weInfo
         THEN [err |-> TRUE, own |-> {"windows"}, shared |-> shared \cup {"handler_errors"}]
         ELSE [err |-> FALSE, own |-> {"windows", "build_info"},
               shared |-> shared \cup {"handler_errors"}]

\* Mutant: the handler is mounted at a path other than the scrape config's.
RegisterRoutesPathTypo(r) ==
    /\ built = "windows"
    /\ result[r] = "none"
    /\ LET h == handler IN
         /\ shared' = h.shared
         /\ IF h.err
              THEN result' = [result EXCEPT ![r] = "err"] /\ UNCHANGED mounted
              ELSE /\ result' = [result EXCEPT ![r] = "ok"]
                   /\ mounted' = [mounted EXCEPT ![r] = [path |-> "/metric", regs |-> h.own]]
    /\ UNCHANGED <<built, weOK, weInfo, served, ctxDone, runPc>>

\* RegisterRoutes: on an error from handler() return it, otherwise mount
\* the handler at /metrics.
RegisterRoutes(r) ==
    /\ built = "windows"
    /\ result[r] = "none"
    /\ LET h == handler IN
         /\ shared' = h.shared
         /\ IF h.err
              THEN result' = [result EXCEPT ![r] = "err"] /\ UNCHANGED mounted
              ELSE /\ result' = [result EXCEPT ![r] = "ok"]
                   /\ mounted' = [mounted EXCEPT ![r] = [path |-> "/metrics", regs |-> h.own]]
    /\ UNCHANGED <<built, weOK, weInfo, served, ctxDone, runPc>>

\* RegisterRoutes of the stub returns nil and mounts nothing.
StubRegisterRoutes(r) ==
    /\ built = "stub"
    /\ result[r] = "none"
    /\ result' = [result EXCEPT ![r] = "ok"]
    /\ UNCHANGED <<built, weOK, weInfo, shared, mounted, served, ctxDone, runPc>>

\* Mutant: the stub returns the Windows file's scrape config.
ScrapeConfigsCopied == {[job |-> Name, path |-> "/metrics"]}

\* ScrapeConfigs of the stub: an empty slice.
StubScrapeConfigs == {}

\* Mutant: the scrape config names a path the handler is not mounted at.
ScrapeConfigsPathTypo ==
    IF built = "stub" THEN StubScrapeConfigs
    ELSE {[job |-> Name, path |-> "/metric"]}

\* ScrapeConfigs: one job named after the integration, on /metrics.
ScrapeConfigs ==
    IF built = "stub" THEN StubScrapeConfigs
    ELSE {[job |-> Name, path |-> "/metrics"]}

\* Mutant: the handler gathers only its own registry.
GatheredOwnOnly(r) == mounted[r].regs

\* prometheus.Gatherers{i.exporterMetricsRegistry, r}.
Gathered(r) == shared \cup mounted[r].regs

\* Prometheus scrapes a scrape config's path on a router; the handler
\* gathers both registries at request time.
Scrape(r) ==
    /\ \E sc \in ScrapeConfigs : mounted[r] # NoRoute /\ mounted[r].path = sc.path
    /\ served' = served \cup {Gathered(r)}
    /\ UNCHANGED <<built, weOK, weInfo, shared, mounted, result, ctxDone, runPc>>

\* The manager starts Run in its own goroutine (Run is the same in both
\* files).
RunStart ==
    /\ built # "none" /\ runPc = "idle"
    /\ runPc' = "waiting"
    /\ UNCHANGED <<built, weOK, weInfo, shared, mounted, result, served, ctxDone>>

Cancel ==
    /\ ~ctxDone
    /\ ctxDone' = TRUE
    /\ UNCHANGED <<built, weOK, weInfo, shared, mounted, result, served, runPc>>

\* <-ctx.Done(); return ctx.Err().
RunReturn ==
    /\ runPc = "waiting" /\ ctxDone
    /\ runPc' = "returned"
    /\ UNCHANGED <<built, weOK, weInfo, shared, mounted, result, served, ctxDone>>

Next ==
    \/ NewIntegration \/ RunStart \/ Cancel \/ RunReturn
    \/ \E r \in Routers : RegisterRoutes(r) \/ StubRegisterRoutes(r) \/ Scrape(r)

Spec == Init /\ [][Next]_vars

(***************************************************************************)
(* Properties                                                              *)
(***************************************************************************)

\* Every scrape of a mounted handler gathers the library's metrics, the
\* build_info metric and promhttp's error counter, however many routers the
\* integration was registered on.
ScrapeComplete ==
    \A s \in served : s = Collectors

\* RegisterRoutes gives the same answer on every router: a second
\* registration does not collide with what the first left in the shared
\* registry.
SameResultEveryRouter ==
    \A r1, r2 \in Routers :
        result[r1] # "none" /\ result[r2] # "none" => result[r1] = result[r2]

\* On every router where RegisterRoutes returned nil, each scrape config
\* the integration gives the manager names the path its handler is mounted
\* at: the two paths are written separately in RegisterRoutes and
\* ScrapeConfigs.
ScrapeTargetsServed ==
    \A r \in Routers : result[r] = "ok" =>
        \A sc \in ScrapeConfigs : mounted[r] # NoRoute /\ mounted[r].path = sc.path

=============================================================================
