# A verification project for the Tingyun Python agent

TLA+ models of `tingyun`, an application-performance agent that lives inside a
Python web application: it wraps the functions of the application, times every
request, and uploads what it gathered to a data collector once a minute. The
models are checked with TLC and the theorems about them with TLAPS. Paths below
are relative to `src/tingyun/` unless they begin with `src/`.

Contents: 1 inventory, 2 plan, 3 modules and code, 4 runs, 5 fairness,
6 proofs, 7 findings, 8 what is not modelled, 9 how to run.

## 1. Inventory

The agent shares a process with the application it watches. Three kinds of
thread of its own run beside the application's: one *harvest* thread per process,
a *connect* thread per application whenever it has no session, and a
*profile* thread whenever the collector asks for one. The application's request
threads run the agent's code in wrappers. There is no persistent state: a crash
or a restart begins with nothing.

| Component | State | Operations | Talks to | What is hard |
|---|---|---|---|---|
| Start-up (`embattle/`, singletons of `battlefield/dispatcher.py`, `proxy.py`) | settings, import hooks, one dispatcher, one proxy | initialize, singleton, activate | all threads | an instance is visible before it is complete; locks within locks |
| Application session (`battlefield/application.py`, `dispatcher.py`) | the session of each application, its connect thread and event, retry counter, the dictionary of applications, exit flags | activate, connect, harvest, drop, reactivate, register, exit hook | collector through the transport; packager; requests through `Proxy` | three kinds of thread write the session without one common lock; every refusal must leave someone connecting |
| Transport (`logistics/transportation/`) | session key, redirect host | connect, upload, map a reply to an exception | collector | which failures are retried, which end the session, which lose the data |
| Harvest data path (`logistics/workshop/packager.py`, `application.py`) | packets per kind, configuration, snapshot, data zone | record, merge, snapshot, build payload, roll back, reset | requests, harvest, connect thread | an upload is several requests, any may fail after it was delivered; settings change under recorded data |
| Packets and quantiles (`logistics/workshop/packets.py`, `quantile.py`) | counts, sums, extremes, P² markers | merge of a node, merge of packets, marker moves | packager | minimum of zero, empty packet, marker collisions |
| Trace nodes (`logistics/warehouse/`) | none: trees turned into metrics, errors and traces | conversions | packager | own times must add up, limits on traces |
| Tracker and timers (`armoury/ammunition/tracker.py`, `timer.py`, `battlefield/tracer.py`, `knapsack.py`) | stack of timers, exclusive times, tracker by thread | enter, exit, push, pop, finish, save, drop | wrappers, request end | early exits, exceptions, generators |
| WSGI entrance (`armoury/trigger/wsgi_entrance.py`) | life of a response | call, iterate, close | tracker, web server | closed early, failed in the middle, closed late |
| Browser RUM (`armoury/trigger/browser_rum.py`, `cross_trace.py`) | headers held back, announced length | start the response, write, insert, hand on | application, web server | a second answer, an announced length, chunks |
| Tornado 4 instrumentation (`armoury/ammunition/tornado_4/`, `tornado/web.py`) | reference count and context of a tracker over callbacks | increment, decrement, switch, finish | IOLoop | order of callbacks |
| Thread profiler (`armoury/sampler/profile.py`, `application.py`) | current profile, finished profiles, command, flags | start, stop, sample, time out, report | harvest thread (commands), sampling thread | lock taken for half of the transitions; old threads live on |
| Older Tornado instrumentation (`armoury/framework_tornado.py`, `ammunition/tornado_tracker/`, the rest of `ammunition/tornado/`) | | | nothing | dead: `embattle/repertoire.py` names none of it |
| Samplers (`armoury/sampler/` but the profiler) | last readings | read | harvest | none that matters to the rest |
| Framework, database and client hooks (`armoury/*`, `armoury/ammunition/*_tracker.py` as wrappers) | none beyond the tracker's | wrap a call in a timer | third-party libraries | none of its own |
| Settings, names, commands (`config/`, `logistics/object_name.py`, `commander/`) | options | parse | all | none concurrent |
| Vendored (`packages/`) | | | | third-party |

How they work together. `initialize` reads the options and registers import
hooks. The first hooked function a request thread enters makes the dispatcher
and the proxy. A request thread creates a `Tracker`, which reads the
settings of the application's session and registers the application when it
has none (`tracker.py:90-105`, `Dispatcher.active_application`). Registration
starts a connect thread (`Application.activate_session`). The connect thread
asks the collector for a session until it gets one, publishes it and resets the
packager. While the request runs, timers open and close on the tracker's
stack; at its end its tree of nodes is recorded: a private data zone is filled
with the metrics of the tree and merged into the packager. The harvest thread
goes through the applications, takes a snapshot of each packager, uploads it
part by part, executes the commands of the collector, reports a finished
profile, and on an error rolls back, drops the session or has it opened again.

What makes each modelled component correct:

* **Start-up.** Whatever threads race: one of everything, options before hooks,
  the dispatcher's thread started once, one application activated once, and
  nobody waits for ever for a lock.
* **Session.** One connect thread at a time. A session is only published where
  there is none and never comes back. An application without a session is
  being connected. The data uploaded over a session was recorded under its
  settings. With a collector that does not refuse for ever, an application
  gets a session, and a new one after it lost it.
* **Transport.** No reply passes for what it is not. Whatever the collector
  forgot, changed or moved, the agent comes back in step with it.
* **Data.** A request is reported at most once, though uploads fail after they
  were delivered. Its metrics are in one place at a time. What the collector
  switched off is not uploaded. Nothing goes round between packager and
  snapshot for ever.
* **Packets, quantiles, nodes.** A packet has the sums and extremes of exactly
  the requests merged into it, whichever way through zones, snapshots and
  rollbacks they took. Own times add up to the duration of the request. Errors
  are not invented. Limits are passed by what the code allows and no more.
  Quantile markers never collide.
* **Tracker and entrance.** However a response ends, its request is reported
  once, from its root, its thread is free for the next request, and the times
  of its tree are consistent.
* **Browser RUM.** The page reaches the client unchanged but for one script,
  with headers that are true of it.
* **Tornado.** Code runs under the tracker of its own request; a request is
  finished once, by the last callback that knows it.
* **Profiler.** One profile at a time; the thread of a running profile is
  alive; a profile ends; it is reported once, under the command that asked for
  it, or dropped.

## 2. Plan

| # | Module(s) | Subject | Status |
|---|---|---|---|
| 1 | `AppSession`, `AgentSession`, `AgentSessionProofs` | session, its threads, registration, exit | checked, proved |
| 2 | `ReportLedger`, `HarvestData`, `HarvestDataProofs` | data of requests through zone, packager, snapshot, uploads, rollback | checked, proved |
| 3 | `Transport`, `HttpProofs` | replies, exceptions and what they make of a session | checked, proved |
| 4 | `ProfileLife`, `Profiler`, `ProfilerProofs` | thread profiler | checked, proved |
| 5 | `Startup`, `StartupProofs` | `initialize`, singletons, first requests | checked, proved |
| 6 | `RequestReport`, `RequestLife`, `RequestLifeProofs` | timers on a stack, exclusive time, cache of trackers by thread, the end of a response | checked, proved |
| 7 | `BrowserRum`, `HttpProofs` | headers held back, script injection over blocks | checked, proved |
| 8 | `Packets`, `TrackerNode`, `Metrics`, `Statistics`; `Quantile`; `WorkshopProofs` | what is in the packets, limits on traces; P² markers | checked, proved but for the trees of `Metrics` |
| 9 | `RequestReport`, `TornadoLoop`, `TornadoLoopProofs` | reference count and context of a tracker over IOLoop callbacks | checked, proved |
| 10 | | older Tornado instrumentation | dropped: dead code at this commit |

Open, in this order:

1. What `Statistics` supposes of a tree (`TreesAddUp`, `TracesLimited`), proved of
   `Metrics`: for that its operators on trees, which are RECURSIVE, have to become
   functions on finite sets of nodes.
2. `Transport` as an implementation of `AppSession`, so that the two are joined by a
   proof and not by a description.
3. The ids the collector gives for names of metrics (`application.py:334-368`):
   they outlive a session; whether they mean the same in the next one is the
   collector's business.

## 3. Modules and code

Every action is one thread's code between two points at which another thread
may run and could tell the difference; `pc`-like variables name the points.
`PROJECT.json` has the source lines of every definition. Each part is its own
state machine; they are joined by what one assumes of another: the outcome of
an upload in `AgentSession` and `HarvestData` is what `Transport` makes of a
reply; the own times that `Metrics` takes from a tree add up to its duration,
which `RequestLife` shows of the trees a tracker builds, and `Statistics` has that
(`TreesAddUp`) of what it records; the block a server iterates in `RequestLife` comes from
the middleware of `BrowserRum`; the application that `Startup` activates once
is the one `AgentSession` begins with.

**`AgentSession`** (state: `Application`'s and `Dispatcher`'s attributes).

| Variable | Code |
|---|---|
| `applications` | keys of `Dispatcher._applications` |
| `session`, `epoch` | `_active_session`: none, or the how-manieth session; how many there were |
| `settings` | the session whose config `reset_packets` gave to the packager |
| `event`, `thread`, `conn` | `_connect_event`, `connect_thread`, and the point of `connect_to_headquarters` each `Thread` object is at |
| `retry` | `retry_upload_times` |
| `hpc`, `happ`, `hseen`, `hsize`, `hsnap` | the harvest thread: point, application, the applications its iterator has given, the size of the dictionary when the iterator was made, the settings of the snapshot |
| `rpc`, `rapp` | request threads: point of `Tracker.__init__` / `record_tracker`, application |
| `processShutdown`, `harvestShutdown`, `exited` | exit flags |
| `refused`, `mended` | history, for properties only |

Actions: the connect thread is `ConnectLoop`, `CreateConnectionOk`,
`CreateConnectionFails`, `WaitEnds`, `Announce`, `PublishSession`,
`ResetPackets`; the harvest thread `HarvestTick`, `NextApplication`,
`RoundDone`, `IterationFails`, `CheckSession`, `TakeSnapshot`, `UploadOk`,
`UploadError`, `UploadRetry`, `SessionRevoked`, `RetryExhausted`,
`StopConnecting`, `ReactivateCheck`, `ReactivateStart`; a request
`BeginRequest` to `RequestBroken`; `AtExitShutdown`, `InterpreterExit`.
The upload is its outcome here. `PacketsLockFree` is `_packets_lock`, which
the connect thread holds between `PublishSession` and `ResetPackets`.
`connect_to_headquarters` and `harvest` have branches for `InvalidLicense` that
are never taken, because `create_connection` (engine.py:165-167) turns it into
another exception.

**`AppSession`** is what it implements: `Publish` where there is no session,
`Drop` where there is one.

**`Transport`** is one thread's view of one session. `Verdict` is the mapping
of a reply to a result or an exception in `transmitter`; `GetRedirect` and
`InitAgentApp` are the two exchanges of `create_connection`; `BeginHarvest`,
`Exchanged`, `Refused`, `Unattended`, `Exhausted`, `Discarded` are what
`Application.harvest` does after each. The collector is external: it `Forgets`
a session, `Reconfigures`, `Moves` to another host, withdraws and restores the
`Licenses`, and is in trouble (`Troubles`) at any time.

**`HarvestData`** models one application. A request is a member of `Trackers`,
a packet the set of requests merged into it: what the properties tell apart is
which requests are where. `packets` and `stat` have one set per kind (time,
action, apdex and general packets travel together as `"metrics"`).
`FillZone`/`MergeZone` are `Application.record_tracker` with the settings of
the zone kept, `TakeSnapshot` the shallow copy (what is shared and what is
replaced), `Payload`/`Built` what the construction of a report takes out of
the snapshot, `DeliverOrNot` that a request which ends in an exception may
have reached the collector, `UploadRetry` the rollback. Configurations are sets
of switches; the collector may answer each registration with another one.

**`ReportLedger`** is what it implements: recorded or dropped, then reported
once or lost.

**`Packets`**, **`TrackerNode`**, **`Metrics`**, **`Statistics`** have the numbers. `Packets`
are `TimePackets`, `ApdexPackets` and `SlowSqlPackets` and their merges;
`TrackerNode` has what `tracker_node.py` makes of a finished request without
looking at its tree (`action_metrics`, `apdex_metrics` and the errors), `Metrics`
the `time_metrics` and traces of the trees of `logistics/warehouse/`, and
`Statistics` the dictionaries of `Packager` and what `record_tracker`,
`merge_metric_packets`, the getters and `rollback` do with them. A request comes
to `Statistics` with its time metrics and its traces made, so that theorems need no
recursion over trees; `MCStatistics` makes them with `Metrics`, and TLC evaluates
there, before the run, that they are what `TreesAddUp` and `TracesLimited`
suppose. A duration is a whole number of ms. An error has the status its request had
when it was recorded, 500 before the answer. The operation of a database node is
taken to be SELECT, a message to be produced. Every zone is merged in the step
that fills it; what may come in between is `HarvestData`'s subject.

**`Quantile`** is `QuantileP2`: `Fill` (before all markers have a height),
`Observe` (the beginning of `add`), then one step of its loop per marker,
`Advance`, `Retreat` or `Stay`. `Predicted` is the parabolic prediction, or the
linear one where it leaves the neighbours. `count`, `heights`, `positions` are
`count`, `markers_y`, `p2_n`; `at` is the loop variable.

**`RequestLife`** is a request under a WSGI server: `StartWork` (`Tracker.__enter__`,
`save_tracker`), `LetPass` (the thread has a tracker already, or there is no
session), `EntranceFails` (`failed`: the error is recorded, or its status is
ignored); the response is read (`StartReading`, `Resume`,
`Yield`, `Exhaust`, `Raise`), functions of the application open and close timers
(`EnterTimer`, `ExitTimer`), the server closes (`Close`; `failed`: closing the
application's iterator raised), drops the iterator
(`Release`, where the interpreter closes the generator) or the response (`Forget`).
`nodes` is `trace_node`, `cache` is `Knapsack._cache`, `iterator` is where the
generator of `WSGIApplicationResponse.__iter__` is, `spent` are `db_time` and
the like, `reports` what `record_tracker` was given. `ReleaseFirst` says that a
server drops the iterator before it closes; section 7 shows what another one
meets. `inner` and `misnested` are history. The clock is `time.time()`, taken
to be monotonic.

**`BrowserRum`** is one response through `TingYunWSGIBrowserRumMiddleware`: `StartResponse` and
`Restart` (a second call with `exc_info`), `Write` (the old way), and the loop of
`__call__`: `HandOn`, `SkipEmpty`, `Insert`, `InsertRaises`, `InsertNothing`,
`End`; `Stop` is a server that closes it. The middleware never calls `close()` of
the application's iterable; nothing in `src/` depends on it.

**`TornadoLoop`** is the thread of an IOLoop. `frames` are the calls under way,
each with the tracker its `TrackerTransferContext` put into the cache, the one
it found there and the one it will uncount; `cur` is the cache, `pending` the
loop's callbacks, `held` functions wrapped by `stack_context.wrap` that
somebody keeps, `runner` coroutines that wait. `NewRequest`, `Dispatch`,
`ConnectionClose` are the hooks of `http_server.py`, `tornado/web.py` and `http_util.py`;
`AddCallback`, `Wrap`, `AddHeld`, `CallHeld`, `StartRunner`, `Resolve`,
`ResumeDirectly` are what code of the application may call; `ResolveInThread`
is a future resolved elsewhere; `EndEvent`, `EndDispatch`, `EndCall`,
`EndCallback` return. `TryFinish` is `finish_tracker`, with `can_finalize`,
`ref` and `is_finalized`. The handlers are hooked by
`armoury/ammunition/tornado/web.py`, which the list of hooks names
(repertoire.py:199) in place of `tornado_4/web.py`.

**`RequestReport`** is what it and `RequestLife` implement: a request is taken up
or let pass, and one that was taken up is reported once or dropped.

**`Startup`** has threads that call `initialize` (`TakeControl` to
`ActivateWeapons`: `Embattle.singleton_instance`, `execute`,
`inspect_prerequisites`, `activate_weapons`) and threads that enter a hooked function (`Enter` to
`ActivateSession`: `Proxy.singleton_instance`, in it
`Dispatcher.singleton_instance`, `register_data_sampler`, `active_dispatcher`; then
`Tracker.__init__` and `active_application`). Where a lock is held while another
is taken or another thread could see the middle, the lock has a holder. An
`Application` whose constructor raises is not modelled.

**`Profiler`** models `ProfileManager` and the commands. `Sampling(n)` is the
thread of profile `n`: `LoopTest`, `CountSample`, `TraceStacks`,
`UpdateStatus`, `StopProfile`, `WaitInterval`. The harvest thread is
`AskCommands` (an upload was well, commands come), `ReceiveStart` and
`StartThread` (before and inside the lock of `start_profile`), `ReceiveStop`
and `Shutdown`, `SendProfile`, `SendFails`, `NothingToReport`. A profile has
the number of the command that asked for it. `current`, `running`, `cmd`,
`finished`, `stopped` are `current_profile`, `profile_thread_running`,
`cmd_info`, `finished_profiles`, `cmd_stop_status`; `expired` is whether
`cmd_info["end_time"]` is over; `status` is `Application.profile_status`.
`Python` says what `children.values()[0]` is: a `TypeError` under 3.

**`ProfileLife`** is what it implements: none, running, finished, then
reported or dropped.

Which Python. The package is written for both, and some lines run under one
only. `knapsack.py` imports `_thread` and calls `thread.get_ident`, which
raises a `NameError` as it stands; the models take that name as resolved.
`tornado_4/gen.py:18` and the parameter `async` of `tracker.__exit__` and
`utils.py:132` are syntax of older versions. Where the difference matters it is
a constant: `Python` in `Profiler` and `Startup`, `Pythons` in `BrowserRum`.

`MC*.tla` instantiate them. Definitions named `Mut...` are plausible bugs in
the code, one per property, each next to what it replaces; they are used only
to see that TLC notices them.

## 4. Runs

| Run | Constants | Distinct states | Shows |
|---|---|---|---|
| `session` | 1 application, 2 Thread objects, 2 requests, 2 sessions, 2 retries, fair | 87,630 | `OneConnectThread`, `HarvestUsesSessionSettings`, `NoSessionIsConnecting`, `IInv`, implements `AppSession`; `Reconnects` |
| `harvest_data` | 2 requests, 2 sessions, 4 configurations, 1 retry, fair | 93,718 | `ReportedAtMostOnce`, `MetricsInOnePlace`, `SwitchesRespected`, `IInv`, implements `ReportLedger`; `MetricsLeave` |
| `profiler` | 1 application, 3 start commands, any number of stops, Python 2, fair | 321,294 | `IInv` (with `SamplerLives`), `ReportsOwnCommand`, implements `ProfileLife`; `ProfileEnds`, `FinishedLeaves` |
| `request` | 2 requests, 1 thread, 3 kinds of timer, 2 ticks per ms, 3 ticks, 4 timers deep, `ReleaseFirst`, fair | 51,812 | `IInv`, `TimesAddUp`, `CodeTimeNotNegative`, `ReportsRoot`; `ThreadsFreed` |
| `rum` | both spellings of the header, 2 blocks, 1 second answer, Python 2 and 3 | 119,650 | `Transparent`, `LengthIsTrue`, `OneScript`, `CallerGetsTrace` |
| `tornado` | 2 requests, 2 coroutines, 1 wrapped function, 4 calls, 3 within each other, fair | 163,128 | `IInv`, `FinishedAtRoot`, `FinishesLast`, implements `RequestReport`; `EachIsFinished` |
| `quantile` | the lists 50, 0, 1 and 25, 75; durations 0, 3, 10; heights in quarters; 9 durations | 19,927 | `IInv` |
| `statistics` | 4 kinds of request, up to 4 of them, limits of 1, 3 nodes a trace | 91,081 | `PacketsExact`, `SharesAddUp`, `ErrorsNotInvented`, `WithinLimits` |
| `startup` | 3 request threads, 2 threads that initialize, 2 hooks, Python 2, fair | 257,099 | `IInv`; `ComesUp` |
| `transport` | 2 retries, 4 changes of the collector, a host that was left does not answer, known codes, fair | 1,504 | `IInv`; `Settles` |

Two further runs, `unregistered` and `rollback`, end in a violation on purpose;
section 7 has these and what other configurations show.
`MCAgentSession_twoapps.cfg` (two applications, symmetric, 775,605 states) is not
among the regular runs; it checks `OneConnectThread`, `NoSessionIsConnecting` and
`IInv` when the harvest visits one application while the other is registered,
also under its iterator.

Why the bounds are enough to be interesting.

* `session`: two Thread objects per application, as `activate_session` makes a
  new one only when the old is dead, so a third would only take the place of a
  dead one. Two requests: the race to register takes two, and a third can only
  lose as the second does. Two sessions: one to lose and one to be opened
  beside what the first left. `MaxSessions` is the guard of `DropSession`, so
  the last session is never lost, and no thread hangs only because of the
  bound. `MaxRetry` is 1 or 2 for the code's 4: the counter below its limit, at
  it, and reset.
* `harvest_data`: most properties are about one request in several places, the
  second is recorded while the first is uploaded; the four configurations differ
  in every switch a payload or a merge depends on.
* `profiler`: an old thread, one that runs, one to come. Two applications that
  share the `ProfileManager` are left to the proofs.
* `request`: one thread serves both requests, which is where a stale tracker
  shows; requests on two threads share only the dictionary of trackers. Four
  timers are the root, `Response`, and a timer in another. Two ticks per ms
  make durations round.
* `rum`: two blocks are the first and one more; an empty first one makes the
  second the one that decides.
* `tornado`: three frames are a callback that resumes a coroutine of another
  request that calls a function; four calls open a coroutine and a callback
  of each request.
* `quantile`: five markers fill and then four more durations move them; with
  two quantiles seven and two.
* `statistics`: limits of one, passed by two; four requests make two for a
  snapshot and two that come while it is uploaded.
* `startup`: three requests are the one that makes the dispatcher, the one that
  lost the race for it and makes the proxy, and the one that waits.
* `transport`: four changes are a move after each other kind of change.

What the theorems say holds for every value. Deadlock is checked in every run;
a process that has come to its end, or to a bound, stutters (`Idle`, `Exited`);
in `Statistics` harvests go on, with nothing new in them.
Symmetry is used in `MCAgentSession_twoapps.cfg` only, which checks no liveness;
no definition there names an application or a Thread object.

## 5. Fairness

* `AgentSession`: weak fairness for the connect and harvest threads and for a
  request that is between registration and the start of the connect thread:
  the interpreter schedules every runnable thread, and every wait and socket
  has a timeout. Strong fairness for `CreateConnectionOk`: a collector that
  does not refuse for ever; without it nothing could ever be promised about
  connecting. Nothing makes a user send a request, so none is assumed for the
  start or the end of one. `Reconnects` speaks of the first session too.
* `Transport`: weak fairness for the agent, whose threads are scheduled; strong
  fairness for a proper answer to an upload and to each exchange of a
  registration: the collector is not in trouble for ever. `Settles` supposes in
  addition that the license is valid from some time on.
* `HarvestData`: weak fairness for the harvest, the connect thread and
  every request: they end.
* `Profiler`: weak fairness for the sampling threads, the harvest and the
  clock; strong fairness for `SendProfile`: the list of commands of a harvest
  is finite and uploads do not fail for ever. The bound on commands does not help:
  `ReceiveStop` may come any number of times.
* `RequestLife`: a wrapped function returns whatever it calls meanwhile (strong,
  depth by depth, since it is on top only between two calls of others), a
  response ends, and the server drops what it holds in the end: without a
  reference the interpreter collects the response. Nothing makes a server call
  `close`: `ThreadsFreed` holds without.
* `TornadoLoop`: calls return, the loop comes to its callbacks (strong: events may
  come in between), futures are resolved at last. `EachIsFinished` needs no more.
* `Startup`: every thread that has begun goes on. No lock is given to
  anybody by strong fairness: nobody takes one again and again.

`BrowserRum`, `Quantile` and `Statistics` state no liveness: the first two run to their
end within one call, and that what is merged leaves is `HarvestData`'s `MetricsLeave`.

## 6. Proofs

The modules named `...Proofs` are checked to the last leaf; `WorkshopProofs` takes
three or four minutes, the others one or so. Assumptions are those named in the modules: bounds are
natural numbers, the names for "none" are not among the things, the set of
applications is finite (its size is what the iterator of a Python dictionary
tests), a configuration is a set of switches, Python is 2 or 3, quantiles are
listed in increasing order, there is at least one hook, what is made of a request
are lists of metrics with times that are natural numbers, and it has one slow
trace at most. Four theorems suppose more, which the table names.

| Theorem | Property |
|---|---|
| `AgentSessionProofs!Invariance`, `TypeCorrect` | `IInv`, `TypeOK` |
| `OneConnectThreadHolds`, `SnapshotMatchesSession`, `NoSessionIsConnectingHolds` | `OneConnectThread`, `HarvestUsesSessionSettings`, `NoSessionIsConnecting` |
| `FreshRetries`, `RefusalFinal` | `FreshSessionFreshRetries`, `RefusalIsFinal` |
| `Refinement` | `ImplementsAppSession` |
| `HarvestDataProofs!Invariance`, `TypeCorrect`, `AtMostOnce`, `OnePlace` | `IInv`, `TypeOK`, `ReportedAtMostOnce`, `MetricsInOnePlace` |
| `SwitchesHold`, `LedgerRefinement` | `SwitchesRespected`, `ImplementsLedger` |
| `ProfilerProofs!Invariance`, `TypeCorrect`, `SamplerStaysAlive` | `IInv`, `TypeOK`, `SamplerLives` |
| `OwnCommandReported` (one application), `Refinement` | `ReportsOwnCommand`, `ImplementsProfileLife` |
| `RequestLifeProofs!Invariance`, `RootReported` (given `ReleaseFirst`) | `IInv`, `ReportsRoot` |
| `TimesAreWhole`, `CodeTimeLeft`, `Refinement` | `TimesAddUp`, `CodeTimeNotNegative`, `ImplementsRequestReport` |
| `TornadoLoopProofs!Invariance`, `Refinement` | `IInv`, `ImplementsRequestReport` |
| `CountsHold`, `FinishesAtRoot`, `LastToFinish` | `EndInv`, `FinishedAtRoot`, `FinishesLast` |
| `HttpProofs!Invariance` (`Transport`), `RumInvariance` (`BrowserRum`) | `IInv`, `RumInv` |
| `OnlyTheScript`, `LengthAnnounced`, `OneScriptAtMost`, `TraceReachesCaller` | `Transparent`, `LengthIsTrue`, `OneScript`, `CallerGetsTrace` |
| `WorkshopProofs!Invariance` (`Quantile`) | `IInv` |
| `FewAreKept`, `LimitsKept` (given `TracesLimited`) | `FewKept`, `WithinLimits` |
| `NoErrorInvented`, `PacketsAreExact`, `AllSharesAddUp` (given `TreesAddUp`) | `ErrorsNotInvented`, `PacketsExact`, `SharesAddUp` |
| `StartupProofs!Invariance` | `IInv` |

`FreshSessionFreshRetries`, `RefusalIsFinal`, the `TypeOK` of the first three and
`SamplerLives` are proved and are no property of a run: the first two speak of
one action each, the others are parts of `IInv`. Neither are `EndInv`, `RumInv`,
`FewKept` and the refinement of `RequestReport` by `RequestLife` (TLC agrees with
that one on the `request` configuration).

The arguments.

*Session.* `OneConnectThread` is not inductive: it needs that the Thread
object recorded last is the only one alive (`RecordedThreadOnly`), for
`is_alive` is asked of that one only, and that a second request cannot be
between registration and activation (`FirstThread`), which is what the second look at the
dictionary under the lock gives. `HarvestUsesSessionSettings` needs that a
published session has its settings in the packager whenever the lock is free
(`SessionSettled`). `NoSessionIsConnecting` needs what is left of the old
connect thread when a session is lost (`Leftover`: the event is set, so a
thread that still lives ends after its next attempt) and that nobody signals
the harvest thread (`NeverSignalled`, which is what makes
`ExitSignalsController` fail). The proof goes
thread by thread and conjunct by conjunct. Two lemmas, who writes a session
(`SessionMoves`) and the invariant, give the action properties and the
refinement.

*Transport.* There is a session exactly while something is uploaded
(`SessionWhenNeeded`); with that, and with the verdict on each reply
(`OnlySuccess`: of the replies the code knows only a success is taken for one),
`Honest` is kept: a session was granted, and what was taken for received was.

*Data.* `ReportedAtMostOnce` needs where a request may be: the packager has
nothing that is in the snapshot or sent (`PackagerApart`), the snapshot has
nothing that was sent (`SnapshotApart`), but for traces, which reading does not
empty: between their upload and the end of the harvest they are in both, and
rollback must not find them, which it does not, as the harvest is past the
parts it retries.

*Quantiles.* A marker moves one place towards a gap of two or more, so
positions stay strictly increasing (`PositionsIncrease`) and the distances the
predictions divide by are at least one. The parabolic prediction is taken only
where it lies between the neighbours; the linear one always does, as a
non-negative quotient by a distance does not exceed its dividend (`Quotient`,
`PredictionFits`). So `HeightsInOrder` is kept, which the binary search for the
next duration relies on.

*Request.* The invariant is kept part by part. The cache holds exactly the open
requests (`CacheHoldsOpen`), since the entrance looks before it saves and
`drop_tracker` is called in `__exit__` only for the tracker that is current. A
request has a root below all timers until it is closed and `Response` above it
while it is read (`TimersNest`), so it is reported once, after it was closed
(`ReportedOnce`). That the node popped last is the root (`RootReported`) needs the
order in which the server lets go: `close` when the iterator is gone.

*Times of a request.* That what is reported adds up is a matter of the moment of the
report; what is kept while timers open and close (`TimesInv`) is about the whole
stack. A timer has room for the one above it, up to the moment that one was
opened and the last up to now (`ChildrenFit`); what the timers on the stack and
those closed call their own adds up to what was charged (`Balanced`); and
the root is charged with each child once (`RootCharged`). A timer is charged
in milliseconds cut off from ticks, and two spans so cut are no longer than both
together (`MsOrder`): hence `ChildrenFit` survives rounding. Databases and services
open no timers within theirs, so what they took is apart (`SpentBefore`), which
gives `CodeTimeLeft`. The steps are `Popped`, what closing the upper timers does,
for one request, and that they leave every other as it is (`Apart`).

*Tornado.* The actions are many, but a step does one of three things to the calls under
way (pushes one, returns from one, leaves them: `Shape`) and one of few to a
request (`RequestStep`). The tracker in the cache is that of the innermost call or
none (`OwnTracker`), because each call puts back what it found, and what it found
is what the call around it put in, or nothing (`CallsNest`). A request is
reported together with being marked finished, which is not done again
(`ReportedOnce`); `LifeStep` reads the refinement off that.

*The count of a Tornado request.* `ref` is kept right by no line of the code, but by
all of them together. `EndInv` adds to the invariant that the count of a
request covers the coroutines it has and the callbacks in the queue counted for
it (`CountsCover`), that a coroutine is run by one call or callback at a time
(`RunsOnce`, `Fitting`), that the depth of the timers is the number of calls
under way for it (`DepthIs`), and that a request which waits to be finished has
a count (`Due`). A step pushes a call, returns from one, adds a callback, takes
one or resumes a coroutine, and changes the numbers by one each time (the
cardinalities are those of `Places`). `FinishedAtRoot` and `FinishesLast` are
read off at the moment the count comes to zero: then nothing that is counted is
left, and but for a coroutine resumed within a call, no call either.

*Browser RUM.* Each property is false in the middle of a block unless it is
said what is held back. `RumInv`: nothing goes before the headers, which are
kept back only while a script may still come (`HeadersFirst`); what the server
has is what the application produced, and one more for each script in length
(`SameBlocks`, sums and filters as recursive functions of a sequence); the
script is in the first block (`ScriptIsFirst`); of a response that answered
once, blocks, trace and length are as declared (`AnsweredOnce`).

*Statistics.* `FewKept` is the limits with room for one, with what may be in each
dictionary. `ErrorsKept`, `PacketsKept` and `Correct` say what a dictionary has
under every key, of any list of requests: what the keys' occurrences add up
to, a packet that `Shows` exactly the metrics with its key, the own times of an
action (`ShareOf`), its apdex and its count. Each comes to one lemma per merge (`MergeSlowSqlsIsFew`,
`MergedNotInvented`, `MergeShows`, `MergeShares`), one for the zone of one request
(`RecordTimesShown`, `ZoneCounts`, `ShareOfRequest`) and one that puts them together
(`CorrectMore`). The loops over the metrics of a request are recursive functions
in the model. That such a function is defined at all and has the value of its loop
is proved without an induction theorem of the library (those take an operator, which
the prover does not instantiate): induction over a set comes from what is known of
injections of finite sets (`SetInduction`, `RecursionUnrolls`, `StepsKeep`); sums over
the keys of a dictionary do not depend on the order `CHOOSE` takes (`SumOverAddsUp`,
`SumOverBoth`).

*Start-up.* Options are read before hooks are registered, by one thread
(`LoadedBeforeHooks`), so no request comes before. One thread has made the dispatcher and is
the only one to bring it up (`OneDispatcher`); the maker of the proxy holds its
lock, and a thread that was told None asks for the dispatcher again, which by then exists
(`OneProxy`); the second look under the lock lets one thread register and
activate the application (`OneApplication`).

*Profiler.* `SamplerLives` needs that a profile that has not begun has no
thread (`StartedInOrder`) and that the flag of a running profile agrees with
`current_profile` (`RunningIsCurrent`): the thread can die only where it
finds no current profile, and by then it is not the thread of one.
`ReportsOwnCommand` needs that with one application what runs or waits is of
the last command (`LastCommandOnly`), which is what the test of
`profile_status` gives; with two applications it is false, and the class says
(profile.py:201) that it does not support them. The refinement goes through
`LifeIs`: a profile is at one stage of its life (`OneStage`).

Only model-checked:

* liveness (`Reconnects`, `MetricsLeave`, `ProfileEnds`, `FinishedLeaves`,
  `ThreadsFreed`, `EachIsFinished`, `ComesUp`, `Settles`): fairness and ENABLED are
  beyond the prover;
* that the metrics and traces `Metrics` makes of a tree are as `TreesAddUp` and
  `TracesLimited` suppose: its operators are RECURSIVE, which the prover does not
  take. TLC evaluates both in `MCStatistics` on trees with every kind of node;
* the violations.

## 7. Findings

Two runs end in a violation of what a docstring or a message of the source
says; `PROJECT.json` quotes it.

| Run | Property | What happens |
|---|---|---|
| `unregistered` | `UnregisteredIsSkipped` | the session ends between two reads of `record_tracker` (dispatcher.py:281), an exception goes through the request |
| `rollback` | `RollbackRestoresMetrics` | the payload has already emptied what rollback wants to restore (packager.py:286) |

More statements of the source fail in the same way. They are not among the
regular runs; the configuration named shows each (where it lists several, leave
one name in it). The statement is quoted above the property in the module.

| Configuration | Property | What happens |
|---|---|---|
| `MCAgentSession_claims` | `HarvestLoopSurvives` (dispatcher.py:149) | an application registered during a harvest changes the dictionary under its iterator and ends the harvest thread |
| | `SkipOnlyWhileConnecting` (application.py:193) | a session is dropped while its connect thread has not quite ended: reactivation is refused, the refusal ignored, no one connects ever again |
| | `ExitSignalsController` (dispatcher.py:249) | the exit hook tests the event it should set; the last harvest never happens |
| | `OnlyARowOfFailuresDrops` (application.py:285) | the retry counter is not reset by a successful upload |
| `MCHarvestData_claims` | `ErrorsCountedOnce` (packager.py:286) | traced errors come back with counts that were uploaded |
| | `MergeNeverRaises` (application.py:329) | a zone without quantiles merged under settings with quantiles raises |
| `MCStatistics_claims` | `ErrorsCounted` (packager.py:371) | merging a known error raises the count inside its item, not the one beside it that is reported |
| | `ErrorsLimited` (packager.py:162) | the limit on errors is looked at in the zone of one request, not in the packager |
| `MCQuantile_median` | `MarksTheQuantile` (quantile.py:3) | the server's whole numbers of percent are taken as shares of one: the markers of 50 all move to the end |
| `MCRequestLife_late` | `PopsItself` (tracker.py:459) | with a server that closes a response while its iterator is alive (`ReleaseFirst = FALSE`) a timer pops one that is not itself |
| `MCTornadoLoop_nested` | `PopsItself` (tracker.py:459) | a coroutine resumed in the middle of another call of its request finishes it with timers open |
| `MCTornadoLoop_leak` | `FinishIsFinish` (utils.py:172) | a function that was wrapped outside the request that adds it is counted when it is added and not uncounted when it has run, or the other way round |
| `MCBrowserRum_claims` | `OnlyIntoOk` (browser_rum.py:118) | an answer that is insertable is replaced by an error page: `ignore_rum` stays off and the script goes in |
| | `LastStatusCounts` (browser_rum.py:93) | a second answer that is insertable is held back though the first went to the server; as headers were written once, the second are never written |
| | `LengthAlwaysTrue` (browser_rum.py:155) | the length of a header spelled `content-length` is added to but not written |
| | `InsertionNeverRaises` (tracer.py:277) | under Python 3 a str is joined with bytes |
| `MCProfiler_claims` | `OwnSamplesOnly` (profile.py:256) | stop and start within one interval: two threads sample into one profile |
| | `WithheldIfStopped` (profile.py:355) | after one stop command no profile is reported again |
| | `IgnoredIfRunning` (application.py:491) | after a failed report start commands are ignored for ever |
| | `RunsItsDuration` (profile.py:234) | a thread that saw the old time over stops the new profile |
| `MCStartup_claims` | `InitializedBefore` (inspection.py:207) | a second `initialize` says that the agent was initialized while the first is still at it |
| | `InitializedWell` (inspection.py:213) | ... and after the first failed |
| | `SamplersComplete` (dispatcher.py:78) | an application registered while samplers are still being added goes without the rest |

And by a change of a constant in a regular configuration:

| Change | Property | What happens |
|---|---|---|
| `Python = 3` in `MCProfiler` | `ProfileEnds` | `children.values()[0]` (profile.py:195) is a `TypeError` that kills the sampling thread at its first sample; as only that thread looks at the time, the profile never ends |
| `Python = 3` in `MCStartup` | `ComesUp` | `isAlive` (dispatcher.py:183) is gone from Python 3.9: the dispatcher's thread is never started |
| `Finished <- MCPages` in `MCStatistics` | `MinimumKept` | a minimum of zero is lost to the next value (packets.py:26) |
| `OldHost = "503"` in `MCTransport` | `Settles` | only counted failures end a session; one at a host that was left and answers 503 is kept for ever |
| `NewCodes = TRUE` in `MCTransport` | `NothingMistaken` | an error code `transmitter` does not know (transportation/__init__.py:183) passes for a success |

## 8. What is not modelled, and why

* What section 2 lists as open.
* The older Tornado instrumentation: nothing imports it at this commit. Of the
  newer one the HTTP client, websockets and the WSGI adapter.
* Wrappers of third-party libraries (`armoury/*`): each is one timer around one
  call, as `EnterTimer` and `ExitTimer` have it, and keeps nothing.
* What a profile's sample of the stacks looks like, the parsing and obfuscation
  of SQL, names of actions and metrics, consumers of messages: data the
  properties do not tell apart.
* Option parsing, log files, commands, operating-system counters: no protocol
  and no shared state.
* Proxies, compression and JSON of the transport; the collector, beyond what
  its replies do.
* Vendored packages (more than half of the repository's lines).
* Preemption inside a single bytecode-level operation on a built-in
  (dictionary insertion, attribute store), which the interpreter does not
  allow.

## 9. How to run

    tlc -workers 2 -config MCAgentSession.cfg MCAgentSession
    tlapm AgentSessionProofs.tla

and likewise for the other modules and configurations; `PROJECT.json` lists
which go together. `profiler` and `startup` take about two minutes each,
the others less; the proofs eight or nine minutes together.
