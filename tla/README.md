# srvApp in TLA+

TLA+ models of srvApp, a Go package for server processes: an http server with a
private and a public side, access control by network and by country,
event-driven configuration, logs, and a process life cycle with a graceful
shutdown, as a console program or as a Windows service. The modules are checked
with TLC on small instances and proved with TLAPS for all values of their
constants.

## Inventory

| Component | State | Operations | Hard behaviour |
|---|---|---|---|
| `XMux` (netXMux.go) | map from method+path to entries, one per side | `Handle`, `RemoveHandleFunc`, `match` | implicit redirects, Go's random map order |
| handler registry (net.go) | `privateHandlers`, `publicHandlers` | `RegisterHandler`, `RemoveHandler`, registrations of `netInit` | a panic half way through a registration |
| request dispatch (netXMux.go) | counters | `ServeHTTP`, `Handler`, `cleanPath` | handlers, rights and settings change between its steps |
| access list (netAccessLevel.go, config.go) | list of networks with levels | merge of the `AccessRights` in `cfgNet`, `GetAccessLevel` | overlapping networks, a list rebuilt in place |
| listeners (net.go, config.go) | ports, directories, ignore list, TLS config, two listener maps, `localAddrs` | `cfgNet`, `Configure`, `restartPrivateHttp`, `restartPublicHttp`, `netEnumAddrs`, `netShutdown` | ini notifications, the address monitor, failing binds and the shutdown run concurrently |
| geo-IP (geoIPSec.go) | settings, cache and refresh times; the server's ignore list | `geoOnConfigChange`, `geoResolveAddr`, `geoAuthorizeHost` | a service call between two critical sections, one of two maps without its lock |
| request statistics (ipStats.go) | ring of the last requests | `ipsLogStats`, recorder, `ipsGetBuffer`, `ipsShutdown` | ring at capacity, timeouts against a recorder that hangs |
| log service (log.go) | logs by name, derived loggers | `AddLog`, `LogTo`, `Rotate`, `Close`, `WithFields` | read lock taken twice against a waiting writer |
| life cycle (srvApp.go, events.go, run.go) | `shuttingDown`, `exitCode`, subscribers, `crashChan`, log channels | `InitCfg`, `Run`, `SignalShutdown`, SIGINT, `/cmd/shutdown`, `/cmd/crash`, `ShutdownNotify` | racing requests, callbacks under a lock, rendezvous on unbuffered channels |
| pid file (srvApp.go) | one file, several processes | `startSingleton`, end of `_shutdown` | check and write of two processes, kills |
| Windows service (run_win.go) | run mode, states reported to the SCM | `InstallSvc`, `UninstallSvc`, `Execute`, `Run` | stop requests racing with the application's own |

Interactions: `InitCfg` starts the log loop, the signal and crash catchers and
`netInit`, then subscribes `onCfgChange` with the ini package. `onCfgChange` and
the monitor call `cfgNet`, which rebuilds the access list and calls `Configure`;
`Configure` may call `registerHandler`. A request goes through `ServeHTTP`, the
access list and the geo-IP check, and hands an entry to the recorder of the
statistics, which uses the geo-IP cache too. The shutdown sequence calls the
subscribers, `netShutdown`, `ini.Shutdown`, closes `crashChan`, removes the pid
file and closes the logs.

What makes each part correct: registry and multiplexer list the same keys and
come apart on a handler only by a clash, and a registered path is served under
its own key; a handler runs only for a host with the
rights it asks for; no line of the ini file is exceeded; no socket is lost, no
wanted listener is dropped, no stale one stays, and the admin handlers of the
private side are never reachable on a public address; a verdict rests on
settings that were in force and on what the geo-IP service said; the statistics
are the last requests, once each; logging never blocks and never uses a log
that is gone; a requested shutdown ends with the right exit code, after every
subscriber was called; one instance runs at a time and the pid file names it;
the control manager hears the truth, and Stopped last.

## Modules

| Module | Models | Extends or instantiates |
|---|---|---|
| `XMux` | netXMux.go: the map of a multiplexer, registration, removal, matching | |
| `Handlers` | registry and multiplexers of both sides | `XMux` |
| `HttpSrv` | configuration, listeners, monitor, network shutdown, composed with the registry | `Handlers` |
| `Dispatch` | `ServeHTTP` step by step, composed with the multiplexer | `XMux` |
| `AccessList` | merge of the access rights and the lookup | |
| `GeoIPSec` | settings, cache, service and verdict | |
| `BoundedLog` | abstract: a log of the last `Size` accepted entries | |
| `IPStats` | senders, recorder, ring, reader, shutdown | instance of `BoundedLog` |
| `SrvLog` | base logger, a derived one, rotation, closing, the RWMutex | |
| `App` | abstract: what a process promises the caller of `Run` | |
| `Lifecycle` | start, requests, crash catcher, log loop, shutdown sequence | instance of `App` |
| `Singleton` | several processes on one pid file | |
| `WinSvc` | install, uninstall, `Execute` and `Run` under Windows | |
| `*Proofs` | the theorems about the module of that name; those about `Handlers` are in `HttpSrvProofs`, those about `Dispatch` and `IPStats` in `RequestProofs` | the modules |
| `MC*` | constants for TLC | the module |

How state and steps correspond to the code:

- `Handlers`: `handlers[s]` is `privateHandlers` or `publicHandlers`, `mux[s]`
  the map of that side's `XMux`. A path is a list of segments and a trailing
  slash, so that prefixes and `/tree` against `/tree/` are what they are in the
  code. `RegisterHandler` and `RemoveHandler` are one step each: they hold
  `configLock` throughout. A registration that panics keeps what it had written
  before the panic; its caller is taken to recover, as net/http does for
  request handlers. A handler is its function and access level, so that the one
  the registry lists can be told from the one the multiplexer serves.
- `HttpSrv`: `listeners[s]` maps an address and port to a listener that is
  absent, open or closing, with the certificates it was opened with; `sockets`
  is what the operating system sees. `Configure` is one step (it holds
  `netCfgLock`, `configLock` and `localAddrsLock`); inside it the private side
  releases and binds before the public one. The monitor's enumeration and the
  `cfgNet` after it are two steps; the enumeration may panic instead, when
  `net.InterfaceAddrs` fails (`EnumFails`). `TakenSets` is what other processes
  hold, so any of these binds may fail. `netShutdown` is three steps and
  `ini.Shutdown` a fourth; reconfigurations may come between them.
- `Dispatch`: one step for each thing `ServeHTTP` does under a lock of its own:
  the lookup (`mux.mu`), the host, the access level (`netCfgLock`), the geo-IP
  verdict (either answer) and the handler, which may panic: then net/http
  recovers and what follows the call in `ServeHTTP` is skipped
  (`HandlerAborts`). An answer, the call of `ipsLogStats` and the counter are one
  step, as one goroutine runs them and no other reads what they change; `logged`
  counts the calls of `ipsLogStats`, and that `IPStats` may drop the entry after
  two seconds is modelled there. A client follows the redirects it
  gets, so that redirects in circles would show. `muxes[c]` and `levels[c]`
  remember what was in force during the request. Before the first request
  `NetInit` makes the registrations of `netInit`, one step each; what an
  application registers before `InitCfg` belongs to the same list.
- `AccessList`: a line is what `net.ParseCIDR` makes of it, the address as
  written and the network around it. `cfgNet` empties the list, applies one
  line at a time and unlocks; a lookup needs `netCfgLock`.
- `GeoIPSec`: `IsPrivateNetwork`, the first look into the cache and the verdict
  are steps of their own, under different locks; the ignore list is part of the
  settings and changes by `Configure`, the others by `geoOnConfigChange`. The
  answer is what the service sends as JSON: the code looks at no HTTP status
  (geoIPSec.go:132-152), so an error page that is JSON counts as an answer.
  `geoDataMap` is only touched under `geoCfgLock`; `geoLastUpdate`
  is read and deleted from without it, and these accesses have a begin and an
  end, as has the section that stores an answer. The clock is one step that
  makes an entry old.
- `IPStats`: the ring is `Size` cells and the one `ipsBuffer` points to. A
  sender is a goroutine of its own; the recorder may stay in the geo-IP service
  as long as it likes.
- `SrvLog`: a `LogService` is shared by the base logger and the derived ones,
  which have a lock of their own. `Rotate` visits names in any order and the
  slots of a name in theirs. A writer that waits keeps new readers out.
- `Lifecycle`: `main` is the program counter of the goroutine that runs
  `InitCfg` and `Run`; every other goroutine has a state or a counter of its
  own. `toCall` is the length of the list that Go's range in `notifyShutdown`
  fixes at its start. The goroutines go on after `Run` has returned, as long as
  the process does. Of `startSingleton` there is its answer, and of the end of
  `_shutdown` its place in the sequence: the pid file is in `Singleton`.
  `accepted` and `called` are history variables.
- `Singleton`: the calls of `startSingleton` are single steps, so those of two
  processes interleave (`cfgLock` is inside one process). A start that cannot
  write the file ("failed") leaves `cleanPid` TRUE and removes whatever file there
  is when it ends. `orderly` remembers that no process started while another was
  between its launch and the second `GetRunStatus`, or the end of a failed start.
- `WinSvc`: `main` goes through `afterFlags`, `Run` and `Execute`; the loop of
  `Execute` is its condition and the cases of its select. Codes are integers and
  `errno` is what `uint32` makes of them, modulo `Word`; Stopped is reported one
  step before `Execute` returns.

Code outside the repository is modelled by its use: the ini package (a
notification is owed after a change, the first one with change count 0),
`net.InterfaceAddrs`, `shutdown.Sync` (`Start` closes a channel,
`WaitForTimeout` returns after a time), `crash.HandleAll` (a panic ends the
process), package app (`GetRunStatus` finds a living process by the pid in the
file; `CreatePidFile` writes the file whether or not there is one, or fails;
`DeletePidFile` removes it whoever wrote it, or fails), `flog.Rotate` (a new
log, or something unexpected), Go's RWMutex, `container/ring`, `path.Clean`, the
geo-IP service (an answer, a failure, or none for ever) and the service control
manager (SCM): it sends one request at a time, and stop requests only to a
service that accepts them.

Abstractions: the access level of the static handlers is the default, admin; a
certificate map is a number, 0 when empty. A panic inside `Configure` ends the
process, so the state it leaves is not looked at. `geoShutdown` and
`ipsShutdown` are part of the step `WaitMonitor` of `HttpSrv`; `IPStats` details
the latter. `InitSrv` says whether this run mode serves at all; without it
`cfgNet` does nothing, so the run sets it, and the proofs cover both.
`Lifecycle` models the console build; its `NetShutdown` stands for the steps
that `HttpSrv` details, and the shutdown in `WinSvc` for those of `Lifecycle`. A
pid that is used again by a foreign process is left out of `Singleton`.

## Runs

Passing runs:

| Run | Checks | Bounds |
|---|---|---|
| `handlers` | `RegistryMatchesMux`, `RedirectHasTarget`, `RegisteredIsRouted`, `NeverReplaced`, `OnlyClashDisagrees` | paths "", `/`, `/a`, `/a/`, `/a/b`; two access levels; two registrations at start, five operations: enough to register and remove `/a` and `/a/` in every order with a clash in between |
| `httpsrv` | `SideSeparation`, `SocketsOwned`, `NothingStale`, `Covered`, `KeepsWanted`, `Follows` | two private addresses, one of them ignored in some files, and a public one, any of them there at the start; two ports that swap, meet and go away; two events of the environment, one operation of the application, a foreign process on one bind |
| `lifecycle` | `ExitCodeOfFirst`, `AllNotified`, `CloseIsNoCrash`, `ImplementsApp`, `ShutdownCompletes` | two subscribers that subscribe at any time, three requests |
| `access_list` | `NeverElevated`, `Restricting` | every file of up to three lines over nested, overlapping and disjoint networks, loaded twice |
| `dispatch` | `DispatchTypeOK`, `ServedRightfully`, `RedirectsEnd`, `CountedOnce` | one client, clean and unclean paths, two changes of handlers or settings between any steps |
| `geo` | `GeoTypeOK`, `GrantJustified`, `CachedWasTold` | one request and the recorder, a private host that may be ignored and a remote one, three calls, two changes of the settings or the ignore list, one entry that grows old |
| `ipstats` | `ImplementsBoundedLog`, `SendersEnd` | five entries in a ring of three cells, so that it turns around |
| `srvlog` | `SrvLogTypeOK`, `RotatedTogether`, `BaseUsesLive`, `LogReturns` | two goroutines, two names at the start and one added, two calls, two rotations |
| `singleton` | `AtMostOneRuns`, `FileNamesRunning`, `StaleFileHarmless` | three processes, so that one can start while two are at odds; two kills, any number of failed writes and restarts; the properties are about starts that do not overlap |
| `winsvc` | `ErrnoOfFirst`, `StoppedIsLast`, `StopHonoured`, `InitEnds` | all modes, four requests of the SCM and the application, codes -1, 0, 2 and 9 with words of 8 values, so that one is negative and one does not fit |

In `httpsrv` the ignore list changes only together with both ports of each side,
and an address is listed at most once: a list that changes alone restarts
nothing, and a duplicate hides an addition, so `Covered` and `Follows` fail with
either (see below). The theorem about `Covered` assumes that the files agree on
the ignore list and that addresses are listed once; the other theorems about the
server, `SideSeparation` among them, do without both. A listener whose `Serve` has
failed stays in its map in the code, and counts as covered. `lifecycle` has no
subscriber that subscribes from its own callback, and `srvlog` uses names that are
missing on a derived logger only, because `ShutdownCompletes` and `LogReturns`
fail otherwise. `singleton` reaches starts that overlap, but `AtMostOneRuns` and
`FileNamesRunning` say nothing of them.

Refinements. `IPStats` implements `BoundedLog`: what a reader collects on its
walk from `ipsBuffer` on is the log, the entries with a sender or in the
recorder's hand are pending, and the log is closed when the recorder has
returned. `Lifecycle` implements `App`: a process is up, stopping, stopped or
crashed, with the code of the first request; a stopped process may still crash,
by a goroutine that outlives `Run`. `ShutdownCompletes` is the liveness that
goes with it.

Two runs that TLC refutes, each a disagreement of the code with what it says:

| Run | Property | What happens |
|---|---|---|
| `missing_name` | `LogReturns` | `LogTo`, `SetFlushIntervalSec` or `SetLogsEnabled` with a name nobody registered logs an error while it holds the read lock; a rotation that has asked for the write lock in between blocks both, and everyone after them, `closeLogs` included |
| `geo_map_race` | `MapsSynchronized` | two goroutines, a request and the recorder, touch `geoLastUpdate` at once, one of them without the lock, and the runtime ends the process |

Deadlock is checked in `access_list`, `ipstats` and `singleton`. In the others
the processes really may stop: a process returns, requests and calls come to
their bound, a client is done.

Fairness. `HttpSrv`: the ini package delivers what it owes, the one-minute timer
fires and the monitor goes on (weak fairness on `onCfgChange`, `MonitorTick` and
`MonitorCfg`). `Lifecycle`: a goroutine that can run does run (weak fairness);
the log loop is strongly fair to `closeLogs`, because its timer is ready once a
day and the requests that compete with it are finitely many. `IPStats`: a
sender's timer fires and the recorder takes the signal when it is in its select;
nothing is assumed of `Record`, because the geo-IP service is called without a
timeout. `SrvLog`: clients and the loop go on when they can, and a RWMutex is
granted to those who wait. `Singleton` and `WinSvc`: a process goes on when it
can. Nothing is assumed of the environment: files and interfaces need not
change, requests need not come.

## Where the code does not do what it says

Besides the two runs above, these definitions state what a comment, a doc or a
name in the code says, and TLC refutes them. To see the behaviour, add the
definition to the run's cfg with the constants given.

| Definition | Run and constants | What the code does |
|---|---|---|
| `HttpSrv!IgnoredNotBound` | `httpsrv`, `q` on the ignore list of a file in `Configs` | net.go:531: the public side never asks the ignore list, so `q` stays bound. A new list alone restarts nothing |
| `HttpSrv!TLSListenersUseCerts` | `httpsrv`, `MaxCert = 2`, a second certificate in `Configs` | net.go:258: new certificates do not reach open listeners |
| `Handlers!RegistryIsServed` | `handlers`, as it is | net.go:689: after a registration that clashed and whose caller recovered, the registry has the new handler and the multiplexer serves the old one |
| `HttpSrv!ReconfigureSurvives` (an action property) | `httpsrv`, as it is | net.go:220: when `GET /` is taken, by the application or by an earlier directory, a new static directory panics |
| `HttpSrv!Covered` | `httpsrv`, `MaxDup = 2` | net.go:838: a new address that is listed twice is taken for an old one |
| `HttpSrv!ClosedWhenDown` | `httpsrv`, as it is | net.go:396: a reconfiguration after `HttpSrv.Shutdown` opens listeners for good |
| `Lifecycle!ShutdownCompletes` | `lifecycle`, `Resubscribes = {"s1"}` | events.go:36: a subscriber that subscribes from its callback hangs the shutdown before the timeout is armed |
| `Lifecycle!GracefulShutdown` | `lifecycle`, as it is | uriHandlers.go:109: a late crash request sends on the closed channel |
| `AccessList!NetsListed` | `access_list`, as it is | config.go:190: a network whose written address lies in an earlier, narrower one is dropped |
| `GeoIPSec!ThrownAwayNotServed` | `geo`, as it is | geoIPSec.go:123: an entry "thrown away" loses its refresh time only, and answers from then on without any expiry |
| `SrvLog!AllUseLive` | `srvlog`, as it is | log.go:301: a derived logger prints to a log that is rotated away under it |
| `AtMostOneRuns`, `FileNamesRunning` without `orderly` | `singleton` | srvApp.go:421: two starts that overlap both run; srvApp.go:424: a start that could not write the pid file removes the one that another, overlapping start has written |
| `WinSvc!InstallReturns` | `winsvc`, as it is | run_win.go:128: a `CreateService` that fails ends in a nil dereference |
| `WinSvc!ErrorOnlyOnError` | `winsvc`, as it is | run_win.go:212: a successful install returns 1 |
| `WinSvc!NoRunningAfterStop` | `winsvc`, as it is | run_win.go:58: a service that is not the only instance reports StopPending and then Running |
| `Dispatch!HandlerNonNil` | `dispatch`, as it is | netXMux.go:117: `Handler` returns nil for an unknown path |

If `CreatePidFile` of package app refused to overwrite a file, a loser of the
race would fail to write it and remove the winner's file instead.

## Proofs

For every value of the constants allowed by the modules' assumptions:

- `HttpSrvProofs`, the registry: `HandlersTypeOK`, `RegistryMatchesMux`,
  `RedirectHasTarget`, `NeverReplaced`, `OnlyClashDisagrees` and
  `RegisteredIsRouted`. The inductive
  invariant is the conjunction of the first three; it needs lemmas on what
  `Handle` and `RemoveHandleFunc` do to each entry, and that a registration
  reaches the multiplexer of a side exactly when it does not panic there.
  `OnlyClashDisagrees` rests on the same lemmas: what a registration or a removal
  does to other keys concerns redirects, which the registry does not list.
  `RegisteredIsRouted` follows from it: any other key that matches a registered
  path is strictly shorter, so the order in which `match` ranges over the map
  does not matter (`ExplicitServes`). It is proved again for the whole server,
  where `Configure` registers static handlers.
- `HttpSrvProofs`, the server: `SrvTypeOK`, `SideSeparation`, `SocketsOwned`,
  `NothingStale`, `KeepsWanted` and `Covered`. `SocketsOwned` is inductive with
  the types: a bind that comes up was held by nobody, and what one side releases
  the other does not own. `NothingStale` needs `FreshInv`: ports are never stale,
  and addresses may be stale only while the monitor owes a forced restart.
  `Covered` is proved from `ListedOnce` and `OneIgnoreList`; it is false without
  either. `CoverInv` says that once the first notification has been delivered
  the server has the ignore list of the file, and that as long as the monitor
  has not seen a change every wanted bind on the addresses it knows is in its
  map or was refused, because a restart covers everything it wants
  (`RestartCovers`).
- `LifecycleProofs`: `LifecycleTypeOK`, `ExitCodeOfFirst`, `AllNotified`,
  `CloseIsNoCrash` and the refinement `ImplementsApp`. `LInv` adds that main is
  past the shutdown signal, or `crashChan` closed, only when a shutdown was
  requested, and that the subscribers called so far are a prefix of the list.
  `AllNotified` needs `LockedList`: while `shutdownLock` is held for the callbacks
  the list keeps the length that the range over it began with, because who
  subscribes waits for the lock, so the calls up to that length are calls of
  all. For the refinement each step keeps the phase, asks, stops or
  crashes; `LInv` excludes a return that nobody asked for. `ShutdownNeverHangs`
  is a safety counterpart of `ShutdownCompletes`, for `Resubscribes = {}`: wherever
  main waits for another goroutine, that one is there (`PartnerThere`), and from
  `notifyShutdown` on every step of main lowers the number of steps to come,
  which no other step raises (`Advances`). `HangInv` says why: who waits to
  subscribe is not on the list, the list cannot grow while main goes through it,
  and the log loop has not returned before it has answered `closeLogs`.
- `AccessListProofs`: `AccessListTypeOK`, `NeverElevated` and `Restricting`.
  `AInv` says of every entry of the list that an applied line of its network
  gives its level or more, and of every applied line that an entry contains its
  address and that the first such entry, the one a lookup finds, is at or below
  its level; a first one exists because the positions are well ordered.
- `SingletonProofs`: `SingletonTypeOK`, `AtMostOneRuns` and `FileNamesRunning`,
  for any number of processes, kills and pid files that cannot be written. While
  `orderly`, one process starts at a time, a process that has written the file
  and not removed it owns it, the file names the owner, and no one is about to
  create it, or on its way out after failing to, while it has an owner.
- `RequestProofs`, `Dispatch`: `DispatchTypeOK`, `ServedRightfully`,
  `RedirectsEnd` and `CountedOnce`. `DInv` follows a request through
  `ServeHTTP`: the handler it carries comes from a multiplexer of its history, a
  list of its history let it through, and the hops made plus those still
  possible (`ahead`: one to TLS, at most two for the path, cleaning it and
  adding the slash) stay within three. That an entry is always found where
  several keys match rests on a longest one existing. That a cleaned path is
  clean is a lemma about the loop of `path.Clean` (`CleanIdempotent`): it
  returns no segment "", "." or "..", and returns a path without them as it is.
  For `CountedOnce` the answers are counted as the elements of `given`, the
  answers of every client with their numbers: a step is either `quiet` or gives
  one client one answer (`oneAnswer`), which adds one element to `given` and
  one to a single counter (`TallyInv`). A handler that panics gives a quiet step.
  `given` stays finite although the set of
  clients need not be.
- `RequestProofs`, `IPStats`: `IPStatsTypeOK`, that an entry is in the ring at
  most once and only when its sender has handed it over, and the refinement
  `ImplementsBoundedLog`, for every size of the ring. `WrittenLast` says that
  the walk from `ipsBuffer` meets the cells never written first. `CollectedIs`
  then gives what the callback of `Do` has collected, `RecordAppends` that
  writing a cell and moving on appends to this and drops the oldest entry once
  the ring is full, and `StepMapsToStep` takes every other step to one of
  `BoundedLog` or to none.
  Where these proofs need a value of a recursive function (`path.Clean`, the
  collecting callback), they look at the least argument at which it could
  differ from what is claimed, or could not be defined at all: the numbers are
  well ordered, so no induction rule is needed.
- `GeoIPSecProofs`: `GeoTypeOK`, `CachedWasTold` and `GrantJustified`, for any
  number of requests beside the recorder. `GInv` says of every call that the
  settings in force, ignore list included, are in its history and where the data
  it holds come from: told by the service for its own host, or the stand-ins for
  a host that was private under one of those lists and for a service that
  failed. What was told stays told, so data read from the cache before an unlock
  is still good when it is stored or judged, although the times beside the cache
  are touched without the lock.
- `SrvLogProofs`: `SrvLogTypeOK`, `RotatedTogether` and `BaseUsesLive`, for any
  number of goroutines, names, slots and rotations. `LogInv` needs the lock
  (`LockInv`: a reader keeps writers out, so no rotation runs under a call of
  the base logger), the slot a call is about to use (`UseInv`), and the state
  of the slots: between rotations none is retired (`QuietInv`); during one
  (`RotInv`) a slot already visited holds the shared buffer or a new log, and
  one still to visit holds an older log that is retired only if its successor
  is known, which is how names that share a file go on sharing one.
  `LogNeverDeadlocks` is a safety counterpart of `LogReturns`: unless a missing name
  is used on the base logger, some goroutine under way is not kept by its lock.
  `WaitInv` says that a name in use on the base logger stays registered, so
  nobody asks for the read lock while he holds it; then the writer is never
  waiting, nor is a reader, and without both the waiting writer gets the lock.
- `WinSvcProofs`: `WinSvcTypeOK`, `ErrnoOfFirst` (for every integer code and every
  `Word`) and `StoppedIsLast`. `WInv`
  adds that the exit code is that of the first request, that main is past the
  shutdown only after one, that Stopped goes with the end of `Execute`, and that
  something was reported before requests are looked at.

Only model-checked: the liveness properties (`Follows`, `ShutdownCompletes`,
`SendersEnd`, `LogReturns`, `StaleFileHarmless`, `StopHonoured`, `InitEnds`),
because liveness under fairness and `ENABLED` are beyond the prover. Two of them
have a safety counterpart that is proved, as said above. Every invariant, action
property and refinement that a passing run checks is proved.

## Not modelled, and the plan

Left for later: a composition of `Lifecycle` with `HttpSrv`.

Left out:

- `cfgLogs` and `cfgCrashReports` pass settings on to other packages and decide
  nothing; the JSON and static-file handlers are pure I/O (`serveStaticFile`
  never closes the file it opens); flag parsing, constants and accessors.
- `ValidateRequestBody` reads a body and decides nothing about the server.
- `AddLog` and `Rotate` called on a derived logger (the package itself never
  does), and `FileLogBufferCap`, which only reads.
- The http server of Go, the ini package, the pid functions, the log files and
  the SCM are external and appear by their use alone.
