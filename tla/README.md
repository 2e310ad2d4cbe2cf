# TLA+ models of the agent's WAL cleaner and its neighbours

This directory holds TLA+ models of the code under `src/`, the TLC
configurations that check them, and `PROJECT.json`, which lists the components,
the runs, the mutants, the map from every definition to the lines it models,
the findings and the hazards.

## 1. Inventory

### Components

| Component | Source | State it keeps | Operations |
|---|---|---|---|
| WAL cleaner, scheduler loop | `src/unnamed/part_003` (`NewCleaner`, `run`, `Stop`) | `ticker` (a `time.Ticker` whose channel buffers one tick), `done` (unbuffered channel, closed by `Stop`) | `NewCleaner` arms the ticker and starts `go c.run()`; `run` selects over `c.done` and `c.ticker.C`; `Stop` calls `ticker.Stop()` then `close(c.done)` |
| WAL cleaner, reconciliation pass | `src/unnamed/part_003` (`CleanupStorage`, `abandonedStorage`, `getManagedStorage`, `getAllStorage`, `lastWrittenTime`) | none of its own: each pass reads a snapshot of the instance manager, the clock and the disk | `ListInstances`, `time.Now`, `filepath.Walk` of the WAL root keeping directories one level down, per unmanaged directory `promwal.Open` / `Segments` / `os.Stat` of the last segment, strict age check `now - mtime > minAge`, log "would delete WAL" |
| Instance manager and WAL writers | not under `src/` (spec section 6) | live instances and their storage directories; the WAL directories and segment files on disk | instances are added and removed; a live instance writes segments; an instance may delete its own directory |
| OTLP test server | `src/unnamed/part_000` (`tempoutils.Server`) | receivers, pipelines (processors) and exporters of an OpenTelemetry collector | `NewServerWithRandomPort` retries `NewServer` on up to five random ports; `NewServer` builds and starts exporters, processors and receivers in order with an early return at each failure; `Stop` shuts receivers, processors, exporters down in that order and returns the first error; `funcProcessor.ConsumeTraces` calls the callback then the next consumer |
| windows_exporter integration | `windows_exporter.go`, `src/unnamed/part_001` | the exporter library's collector | `New`, `RegisterRoutes`/`handler`, `ScrapeConfigs`, `Run` (waits for the context) |
| windows_exporter collector configs | `src/pkg/integrations/windows_exporter/config.go` | one `*XxxConfig` per collector, every field a `*string` | per collector `translate` (flag map) and `Sync` (exporter config), `translateConfig`, `setIfNotNil`, `setStringIfNotNil`; `IISConfig.UnmarshalYAML` with `assignDefaults` |
| process_exporter config | `src/unnamed/part_002` | `Config` and `DefaultConfig` | `UnmarshalYAML`: reset to the defaults, decode in place |

### How they interact

`NewCleaner` starts one goroutine, `run`, which owns the ticker. On every tick
it calls `CleanupStorage`, which reads the instance manager (`ListInstances`),
the clock and the disk, and logs every directory it classifies as abandoned.
Any other goroutine may call `CleanupStorage` at the same time; the passes share
no mutable state of the cleaner, only the manager, the clock and the disk, which
the instances change concurrently. The owning agent calls `Stop` once. The test
server and the exporter integrations do not interact with the cleaner.

### What is hard

* **Concurrency with the instances.** A pass reads the manager, then the clock,
  then the directory tree, then each WAL, and instances are created, removed
  and written between any two of those reads.
* **Stopping.** `ticker.Stop` does not drain a tick that is already buffered,
  and Go's `select` picks at random among ready cases, so `run` may start a
  pass after `Stop` has returned; `Stop` does not wait for `run`.
* **Partial failure.** Every per-directory I/O error (open, no segments, stat)
  is logged and skipped; only the whole pass decides what is abandoned.
* **Dropped ticks.** The ticker buffers one tick; ticks during a slow pass are
  dropped.
* **The walk's root comparison** `path.Dir(p) == root` only matches when the
  root is in clean form.

### What makes each component correct

* Cleaner pass: a directory is reported only when it is not owned by a live
  instance and its last segment is older than `minAge` at the pass's clock
  reading; a directory that cannot be inspected is never reported; when nothing
  changes during the pass the report is exactly that set; no live instance's
  directory is ever reported.
* Scheduler: no pass begins after `Stop` returns; `run` returns after `Stop`;
  while running, every stably abandoned directory is eventually reported.
* Test server: a server returned to the caller listens on the address
  returned; `Stop` shuts every component down even if one fails, receivers
  before processors before exporters, and reports the first error.

## 2. Plan

In order of importance:

1. `WalCleaner` (done): the scheduler loop, `Stop`, and the reconciliation pass
   split at its reads of shared state, with the instance manager, WAL writers
   and clock as environment. `MCWalCleaner` instantiates it.
2. `CleanerLifecycle` (done): an abstract specification of the scheduler
   (at most one pass after `Stop` returns, then the loop exits), and
   `WalCleaner` shown to implement it with `INSTANCE ... WITH` a refinement
   mapping, checked as a `PROPERTY`.
3. `TestServer` (done): the OTLP test server's start sequence, the random-port retry
   loop with concurrent servers competing for ports, `Stop`'s ordered shutdown
   with first-error aggregation, and trace delivery through `funcProcessor`;
   properties: no trace reaches a shut-down processor, `Stop` shuts everything
   down and returns the first error.
4. `ConfigUnmarshal` (done): IIS and process_exporter YAML loading on first
   load and reload, with and without decode errors.
5. `WindowsIntegration` (done): `windows_exporter.go`'s `New`,
   `RegisterRoutes`/`handler` on several routers, scrapes and `Run`.
6. `CollectorSync` (done): every collector's `translate` and `Sync`, checked
   against the flag each agent field and each exporter field stands for.
7. The non-Windows stub (done), in `WindowsIntegration` as the other build
   of the package.
8. Misuse (done): a second `Stop` of the cleaner.

## 3. Modules and runs

### `WalCleaner` (`WalCleaner.tla`, instantiated by `MCWalCleaner.tla`)

State: `tickerOn`, `tickBuf` (the ticker and the ticks buffered in its channel, at most `TickCap = 1`), `done`,
`stopPc` (the two steps of `Stop`), `loopPc` (where `run` is) and `pass` (the
local state of each goroutine's `CleanupStorage`: the snapshot of managed
directories, the clock reading, the directories still to inspect and those
classified abandoned). The environment is `now`, `owned` (storage directories
of the instances the manager lists), `present` and `lastWrite` (mtime of the
last segment, or `NoSeg`). Two history variables serve the properties:
`wouldDelete` (directories logged since they last changed) and `quiet` (no
environment step since a pass's `ListInstances`).

Actions: `NewCleaner`; `TickerFires`; `runTick` (take the tick, call
`ListInstances`) and `runDone`; `CleanupStorage` from another goroutine;
`Now`, `getAllStorage`, `Inspect` (one iteration of `abandonedStorage`'s loop,
using `lastWrittenTime`), `Report` (log and return); `StopTicker`,
`CloseDone`; `StopAgain` (a second `Stop` call, only in `SpecStopTwice`); and the environment's `AdvanceClock`, `InstanceStart`,
`InstanceWrite`, `InstanceStop`, `RemoveDir`.

Abstractions: instances are represented by their storage directories; the walk
is one atomic read of the directories present (a child removed between the
root's listing and its `Lstat` is skipped, the same as not listed); the model
inspects directories in any order where the walk uses lexical order;
`lastWrittenTime` is one step; logging is the `wouldDelete` set.
The form of the configured root is the constant `WalRootClean`. The walk
hands its callback paths built by `filepath.Join`, which are clean, and the
code compares `path.Dir(p)` with `c.walDirectory` as configured. So a root
with a trailing slash or a `./` element matches no child, and
`getAllStorage` returns nothing.
The instance manager and WAL writers are modelled from spec section 6,
which fixes only what the cleaner reads. `InstanceWrite` stands for both
a write to the last segment and the cut of a new one, since either sets
the last segment's mtime. Truncation removes only older segments, so the
cleaner cannot see it.
Splitting `lastWrittenTime` at `Segments()` and `os.Stat` would add no
outcome: once the instance cuts a new segment the one `Segments()` named is
not written again, so the stat returns what a single step at the
`Segments()` point would; otherwise it returns what a step at the stat
would, and a removed directory makes the stat fail, which is the skip.

Runs:

| Run | Config | Checks | Result |
|---|---|---|---|
| `cleaner_safety` | `MCWalCleanerSafety.cfg` | `TypeOK`, `PassMatchesSpec` | pass |
| `cleaner_liveness` | `MCWalCleanerLiveness.cfg` | `StopEventuallyExits`, `AbandonedEventuallyReported`, `LifecycleRefined` | pass |
| `cleaner_pass_after_stop` | `MCWalCleanerNoPassStartsAfterStop.cfg` | `NoPassStartsAfterStop` | violation |
| `cleaner_unclean_root` | `MCWalCleanerUncleanRoot.cfg` | `PassMatchesSpec` | violation |
| `cleaner_reused_directory` | `MCWalCleanerReportedNotLive.cfg` | `ReportedNotLive` | violation |
| `cleaner_second_stop` | `MCWalCleanerSecondStop.cfg` | `SecondStopNoOp` | violation |

* `TypeOK` bounds the ticker's buffer by its capacity: a ticker whose ticks
  queued up instead of being dropped would break it.
* `PassMatchesSpec`: a pass that saw no concurrent change reports exactly
  the spec's abandoned set, computed by the reference operator `Abandoned`.
  The run has the loop and a second goroutine passing concurrently, and a
  clean root (`WalRootClean = TRUE`). A pass during which the registry or
  the disk changed is not constrained; `ReportedNotLive` is about those.
  With an unclean root (`cleaner_unclean_root`) the property is violated
  in four steps: a tick, `ListInstances`, `Now` and the walk, which finds
  nothing while an abandoned directory is on disk. Nothing tells the
  operator; the cleaner just never reports a WAL.
* `StopEventuallyExits`: after `Stop` returns, `run` returns.
* `AbandonedEventuallyReported`: a directory that is abandoned stays so until
  it is logged, unless the cleaner is stopped (clean root; with an unclean
  root it fails as `PassMatchesSpec` does). An age computed as
  `mtime.Sub(now)` instead of `now.Sub(mtime)` breaks it.
* `NoPassStartsAfterStop` is violated in four steps: the ticker fires,
  `Stop` stops the ticker and closes `done`, and `run`'s select takes the
  stale tick. `Stop` also returns without waiting for a pass in progress.
* `LifecycleRefined`: `WalCleaner` implements `CleanerLifecycle`
  (`CleanerLifecycle.tla`). The abstract spec has three variables:
  `stopped`, `loop` (waiting, passing or exited) and `spare`, the passes
  the loop may still begin after `Stop`. `Stop` sets `spare` to 0 or 1,
  and every pass begun after `Stop` uses one. Its fairness says that a
  begun pass ends and that a stopped, waiting loop exits. The refinement
  mapping is:
  * `stopped` is `done`;
  * `loop` is `loopPc` renamed;
  * `spare` is `tickBuf` once `done` is closed, and 1 before.

  This is what the code does promise. It is weaker than the spec's "no
  pass after `Stop`", which `NoPassStartsAfterStop` shows is broken. A
  `Stop` that closed `done` without stopping the ticker would break
  the refinement: ticks keep arriving after `Stop`, and `run` may take
  any number of them before it sees `done`. Checked in the liveness run (loop only, clock to 4,
  164 thousand states); other callers' passes would be stuttering steps
  of the abstract spec.
* `SecondStopNoOp` (under `SpecStopTwice`, which lets the owner call
  `Stop` again) is violated in four steps: `Stop` returns, and the second
  call's `close(c.done)` panics on the closed channel. The spec asks for a
  documented no-op or fatal policy and recommends an idempotent `Stop`;
  the code has neither a guard nor a comment.
* `ReportedNotLive` is violated when an instance starts on an orphaned
  directory after the pass's `ListInstances` but before its first segment
  write: the old segment is older than `minAge`, so the pass logs it.

Bounds: two directories, one of them unreadable (`promwal.Open` fails), so
both the skip path and the age path are exercised; each may start absent, empty
(`NoSeg`) or with a segment at time 0 or at the creation time 2;
the root is clean in every run but `cleaner_unclean_root`; `MinAge = 1`,
so the strict comparison separates age 1 from age 2; the clock runs to 3 in the
safety run (1.5 million states with two concurrent passes) and to 4 in the
liveness run (loop only), so that a directory written after creation can also
become old. Every action and branch fires in these runs.

Fairness: weak fairness of the `run` goroutine (the Go scheduler runs a
runnable goroutine), of the ticker (an unstopped ticker keeps firing) and of
`CloseDone` (a `Stop` call that has begun finishes). The agent is not obliged
to call `Stop`, other goroutines to call `CleanupStorage`, nor instances to act.

### `TestServer` (`TestServer.tla`, instantiated by `MCTestServer.tla`)

State: `holder` (which server, other process or nobody listens on each port),
`srv` (per server: where `NewTestServer`/`Stop` is, the attempt counter of
`NewServerWithRandomPort`, the port, the running dependencies, the next
dependency `Stop` shuts down, the shutdowns that failed and `firstErr`),
`inflight` (a trace accepted by the receiver and not yet consumed) and the
history `lateTrace`.

Actions: `PickPort` (one iteration of the retry loop), `StartPipelines`
(`NewServer` up to `StartProcessors`: its configuration is a fixed template, so
these steps cannot fail), `StartReceivers` (the bind; on failure the loop
retries), `GiveUp` (five failures, `t.Fatalf`), `ReceiveTrace` and
`ConsumeTraces` (`funcProcessor` calls the callback), `BeginStop`,
`ShutdownDep` (one iteration of `Stop`'s loop over `deps`, any of which may
fail, e.g. on the 30 s context), `EndStop`; other processes take and release
ports (`OtherBinds`, `OtherReleases`).

The receivers' shutdown waits for the call in flight and frees the port
(the OTLP receiver stops its gRPC server gracefully); this is library
behaviour the model assumes. Until that step a receiver keeps accepting
calls, also after `Stop` has begun. `ReceiveTrace` stands for the OTLP
receiver and pipeline that `NewServer`'s template wires to
`func_processor`; the receiving itself is library code.

| Run | Config | Checks | Result |
|---|---|---|---|
| `server_lifecycle` | `MCTestServer.cfg` | `TypeOK`, `NoTraceToStoppedProcessor`, `StopResult` | pass |

* `NoTraceToStoppedProcessor`: no trace reaches a processor after it was
  shut down; it depends on the order of `deps` in `Stop`.
* `StopResult`: when `Stop` returns, every dependency is down, the port is
  free and the error is the first failing dependency's (reference operator
  `FirstFailed`), for every subset of failing shutdowns.

Bounds: two servers and two ports, which other processes may hold, so binds
collide between tests and with the outside; `MaxAttempts = 5` as in the code,
so `GiveUp` is reached (284 thousand states). Deadlock is checked: other
processes can always take or release a port.

No fairness is assumed: the run checks safety only.

### `ConfigUnmarshal` (`ConfigUnmarshal.tla`, instantiated by `MCConfigUnmarshal.tla`)

State: the two structs `iis` and `proc` as records over their YAML keys, and
as history the document of the last load and whether decoding failed.
`unmarshal(base, doc)` is what the YAML decoder does: it overwrites the keys
the document sets. A document is any subset of the keys, each with a
non-default value. `IISUnmarshalYAML` is `assignDefaults`, the decode into the
copy `p` and `*c = IISConfig(p)` only on success. `ProcUnmarshalYAML` is
`*c = DefaultConfig` and the in-place decode. A failed decode there keeps
some of the document's keys. The kingpin defaults of `IISConfig` are the
constant `IISDefault` (`.+` for the allow lists, `^$` for the deny lists).

| Run | Config | Checks | Result |
|---|---|---|---|
| `config_reload` | `MCConfigUnmarshal.cfg` | `NoStaleField`, `DocumentApplied` | pass |
| `config_iis_omitted` | `MCConfigUnmarshalIISOmitted.cfg` | `IISDefaultsWhenOmitted` | violation |

The IIS struct is the `IIS` field of windows_exporter's `Config`.
`WinUnmarshalYAML` is `Config.UnmarshalYAML` on a fresh `Config{}`. It
decodes in place with no defaults. Only when the document has an `iis`
section does the decoder call `IISConfig.UnmarshalYAML`. A document without
one leaves the field at its zero value `IISZero` (empty strings).

* `IISDefaultsWhenOmitted` is violated in the initial state. The comment in
  `IISConfig.UnmarshalYAML` (config.go:139) says that `Config.UnmarshalYAML`
  has already given the struct its kingpin defaults. It has not, so without
  an `iis:` section every filter is `""` instead of `.+` or `^$`.
* `NoStaleField`: after any sequence of loads, no field holds a value that
  neither its default nor the last document gives it. Dropping the
  reset to `DefaultConfig` breaks it in two loads.
* `DocumentApplied`: a successful load keeps every value the document sets.
  Assigning the defaults after decoding breaks it.

Bounds: every subset of the keys of both structs, errors on every load; the
state space is complete at depth 3 (25 thousand states), since each state
depends only on the last load. Deadlock is checked: a load is always possible.

### `CollectorSync` (`CollectorSync.tla`, instantiated by `MCCollectorSync.tla`)

Each collector config type is a definition named after it that holds its
code as a table. For each field, `key` is the flag name its `translate`
passes to `setIfNotNil`, and `dest` is the exporter field its `Sync` passes
to `setStringIfNotNil`. `Translatable` lists the types that implement
`translatableConfig`.

The state has four parts:

* `cfg`: each config is `NilPtr` or a value for each field, either `Unset`
  (a nil `*string`) or a user value.
* `cm`: the flag map, which gains keys as they are written.
* `exp`: the exporter's collector configs.
* History: which configs were translated and which `Sync` calls returned true.

`translateConfig` skips both a nil interface and a typed nil pointer.
`Sync` on a non-nil config succeeds only for the exporter config of its own
type.

The reference is two tables. `Setting` gives the flag each agent field
documents. `Flag` gives the flag of each field of the exporter's collector
configs, from the windows_exporter library.

| Run | Config | Checks | Result |
|---|---|---|---|
| `collector_sync` | `MCCollectorSync.cfg` | `TypeOK`, `TranslateExact`, `SyncExact` | pass |

* `TypeOK`: the flag map only ever holds flags the exporter has. A
  mistyped flag name breaks it.
* `TranslateExact`: translating never panics, and the map holds exactly the
  set fields of the translated configs under the flags they document. Checking
  only `c == nil` in `translateConfig` breaks it on a typed nil pointer.
* `SyncExact`: `Sync` reports a match only for its own type, and every
  exporter field holds the value of the agent field for the same flag,
  or its default. A copy-pasted destination breaks it.

Bounds: all nine collector types and one exporter config of each. A
behaviour starts with at most one non-nil agent config (`MCInit` in
`MCCollectorSync.tla`), taking every value its fields can have, and the other
eight are nil (27 thousand states, a few seconds). This loses nothing. The
types share only the flag map, and every property is one part per type,
reading that type's config, flags and exporter configs. A translate or
`Sync` of one type that wrote another type's key or field breaks the other
type's part while that config is nil. All nine configs non-nil at once
would multiply the state space by about 600.

`IISConfig.Sync` is a stub that returns `false` (its body is commented out),
and `IISConfig` has no `translate`, so IIS settings reach the exporter only
through `RawConfig`. `config.go` declares package `windows_exporter`, while
`windows_exporter.go` in the same directory declares `win_exporter`.

### `WindowsIntegration` (`WindowsIntegration.tla`, instantiated by `MCWindowsIntegration.tla`)

State:
* `built`: whether `New` has returned.
* `weOK` and `weInfo`: what the library's collector is. `weOK` says its
  descriptors are valid. `weInfo` says it already exports
  `windows_exporter_build_info`. Both are chosen at `New`.
* `shared`: the collectors in `exporterMetricsRegistry`.
* Per router: `mounted` (the path and the collectors of the handler's own
  registry) and `result` (what `RegisterRoutes` returned).
* `served`: history of the sets of collectors each scrape gathered.
* `ctxDone` and `runPc`: the context and where `Run` is.
* `built` is also which file's `New` ran: the Windows one, or the stub of
  `src/unnamed/part_001` that other platforms build.

Actions:
* `NewIntegration` (config.go), which is `New` of the build: `New` or
  `StubNew` (logs a warning). The stub's `StubRegisterRoutes` returns nil
  and mounts nothing, and its `StubScrapeConfigs` is empty.
* `RegisterRoutes`, which includes `handler()`: register the library's
  collector in a fresh registry; promhttp registers or reuses its error
  counter in the shared registry; register `build_info`; then mount
  `/metrics` or return the error.
* `Scrape` of the path `ScrapeConfigs` names; it gathers both registries.
* `RunStart`, `Cancel` and `RunReturn`.

| Run | Config | Checks | Result |
|---|---|---|---|
| `windows_integration` | `MCWindowsIntegration.cfg` | `TypeOK`, `ScrapeComplete`, `SameResultEveryRouter`, `ScrapeTargetsServed` | pass |

* `TypeOK`: every route is mounted at `/metrics`. A mistyped path in
  `RegisterRoutes` breaks it.
* `ScrapeTargetsServed`: on every router where `RegisterRoutes` returned
  nil, the path of each scrape config (`ScrapeConfigs`, job `Name`) has a
  handler. A mistyped path in `ScrapeConfigs` breaks it, and so does a
  stub that returns the Windows file's scrape config.
* `ScrapeComplete`: every scrape gathers the library's metrics, `build_info`
  and the error counter. A handler that gathers only its own registry
  breaks it.
* `SameResultEveryRouter`: repeated `RegisterRoutes` calls agree. If
  `build_info` were registered in the shared registry, the second call
  would fail.
* `Run` is modelled (it waits for its context and returns), but no
  property is checked on it: that it returns would follow only from the
  fairness assumed for that one step.

Bounds: three routers, both builds (237 states). Deadlock is not checked: once `Run` has
returned and no handler could be mounted, the integration has nothing left
to do.

The error of `yaml.Marshal(c.RawConfig)` is discarded, but a value the YAML
decoder produced always marshals. `handler`'s first error message names
node_exporter. `windows_exporter.go` uses `c.RawConfig`, which the
`win_exporter` `Config` in `src/unnamed/part_000` declares and config.go's
`Config` does not.

## 4. Not modelled

* `NewServer` returning the error of `receivers.StartAll` without shutting
  down the processors and exporters it started: with the fixed template
  nothing they hold outlives them.
* What the exporter library collects, and how Prometheus encodes it. windows_exporter
  `Config.UnmarshalYAML` decodes in place without defaults.
* The content of WAL segments; the cleaner reads only the last segment's mtime.
