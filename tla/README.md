# A verification of gosu

gosu is a process supervisor: a daemon that keeps jobs, runs their tasks, retries
them, and answers a command line client over RPC.  This directory holds TLA+
modules translated from its source, configurations that model-check them with
TLC, and proofs checked by TLAPS.  Paths below are relative to the repository.

## The system

| Component | Source | State | Operations | What is hard | What makes it correct |
|---|---|---|---|---|---|
| Errors, statuses, contexts | `pkg/util/ok.go`, `pkg/task/status.go` | the cause of a context, set once | `Cancel`, `Cause`, `StatusFromErr` | nil stands for success and for "still live" | the first cause wins; success is never invented |
| Attempt (`mustWorker`) | `pkg/task/work_must.go` | context, stop channel, status, locals of `Run` | `Run`, `Stop`, `Kill`, `Launch` of subtasks | five goroutines race to end it; the task may hang | ends once, with one cause, soon after a stop |
| Worker with retries (`retryWorker`) | `pkg/task/work_retry.go` | packed retry state, `retryCancel`, `must` pointer, context | `Run`, `tryRetry`, `Stop`, `Kill`, `Status` | lock-free swaps; pointers read before they change | one attempt at a time; the limit; no retry after a stop |
| Options and rates | `pkg/task/options.go`, `pkg/util/rate.go`, `duration.go` | none | `WithDefaults`, `Clamp`, `Rescale`, backoff | units, rounding, zero and negative values | bounded timeouts and rates; defaults are stable |
| Job | `pkg/job/job.go` | mutex, current worker | `Start`, `Stop`, `Restart`, `Kill`, `Join`, `Ready` | waits with the mutex held; a killed worker is forgotten, not awaited | one worker runs the task; operations return |
| Triggers | `pkg/job/trigger*.go` | subscribers of named events, the loops of `always` and `every` | `Listen`, `Signal`, the remove functions | signals race with removal; callbacks race with requests and with the shutdown | what is stopped is launched again by `always`; the loops end with the session |
| Pipes | `pkg/task/task_pipe*.go` | a context, a count of what is left, a wait group | `Launch` and the four modes | subtasks end while others start | each mode's rule about the rest; the pipe ends |
| Process runner | `pkg/task/task_run.go` | a process, its address, its upstream | `Launch` | health checks against exits; an attempt that ends inside `Launch`; a field shared by attempts | only what has answered is listed; every upstream is removed, every process ends |
| Session and database | `pkg/session/session.go`, `db.go`, `service_job.go` | `sync.Map` of jobs, badger collection | insert, update, delete, revive, `StopAll`, `Close` | two stores changed one after the other; restarts | what runs is what is stored; deleted jobs stay deleted |
| Daemon and clients | `pkg/session/lock.go`, `pkg/client/main.go`, `cmd/gosu/app.go`, `pkg/surpc` | a lock file, daemons, calls | `Running`, `TryAcquire`, `Fork`, `Execute`, `Wait`, `Close` | the test takes the lock it tests; daemons and clients die | one daemon has the database; a client is served; no command is done twice |
| Load balancer | `pkg/revproxy` | upstreams, sticky sessions | `Next`, add, remove, retry | concurrent requests of a client; nested retries; sessions outlive upstreams | one upstream per client until it fails; a retry moves on; retries are bounded |
| Whiteboards | `pkg/task/whiteboard.go` | a shared tree of values | `Set`, `Get`, `Fork` | concurrent tasks | a write is seen by later reads |
| Logs | `pkg/clog`, `pkg/session/stream_log.go` | line buffers, hooks | `Write`, `Flush` | two writers on one buffer | lines are whole and in order |
| Settings | `pkg/settings` | cached configuration | load, save | stale caches | a read follows the last write |
| Manifests | `pkg/automarshal`, the command line of `pkg/client/main.go` | a registry of kinds | unmarshal, marshal, the reader of options | a text is read by the client, by the daemon, and again after each restart | options arrive as typed; a stored manifest revives as what was launched |

The client calls the session's RPC services; these find jobs in the session and
call the job's operations; a job creates one worker at a time; a worker with
retries creates one attempt after the other; an attempt launches its task, and a
task that is a pipe launches further workers through its attempt's `Launch`.
Contexts run the other way: session, job, worker, attempt, pipe, subtask.

## The modules

| Module | Models | State and actions |
|---|---|---|
| `Causes` | `ok.go`, `status.go` | operators only: a context is the value of its cause, `Nil` while it is live |
| `Attempt` | what an attempt promises | abstract: a cause and a stop signal |
| `MustWorker` | `mustWorker` | one action per step of `Run` between two points where another goroutine can intervene, one per outcome of each `select`; the start timer, the memory guard, the `AfterFunc` callback and the callers of `Stop` are goroutines of their own |
| `Supervisor` | what a worker with retries promises | abstract: a phase, and whether retries are disabled |
| `SupervisorGuards` | when a decision of `Supervisor` can be made | one formula, with `ENABLED`; it is not in `Supervisor`, which `TriggersProofs` uses with parameters: the prover cannot put these under an `ENABLED` |
| `RetryWorker` | `retryWorker` | the loads, the compare-and-swaps, the channel operations and the pointer loads of `tryRetry` and `disableRetries` are steps of their own; an attempt is a record in the sequence `attempts`, whose last element is what `must` points to |
| `RetryOptions` | `Options.WithDefaults`, `TimerRate`, the backoff | pure operators, applied once per level of nesting by the one action |
| `Job` | `Job` | operations under the mutex, in the steps between which a worker's goroutine may run; workers follow `Supervisor` |
| `Triggers` | `Job` with `trigger*.go`, `Ready`, `Join`, `StopAll`, `Close` | the state of `Job`, how far `Ready` has come, a goroutine per callback, the shutdown; callbacks take the job's mutex as requests do |
| `Pipe` | `Pipe.Launch`, the modes, the cluster of `TaskRun.Launch` | the loop and one helper goroutine per subtask; a subtask is a worker, of which only the launch and the result are seen |
| `ProcessRunner` | `processRunner.Launch` | the `Launch` of every attempt of an instance, the health check it starts, the process, what its descendants keep open, the list of upstreams and the goroutine that takes one off it; `h.ipc` is one variable for all attempts |
| `Session` | the map of jobs, the database, the RPC handlers of jobs, revival | a request is a thread that goes through the steps of its handler; the daemon may crash between any two; a job object is its mutex, its worker, which a stop may miss, and whether it is ready |
| `KeyStore` | what a collection promises | abstract: a store and one pending call per client; each call takes effect in one step |
| `Collection` | `JobCollection` of `db.go` | transactions that look, write and commit with badger's conflict detection, and the byte slice of the prefix that all keys are appended to; a history variable, `shared`, tells whether two keys have been in it at once |
| `Daemon` | the lock file, the start of a daemon, a client from its ping to its answer | clients and daemons that lock, unlock, fork and die between any two steps; a command is executed once or cut off |
| `ArgReader` | `automarshal/reader.go` | the reader of options, as recursive functions over characters |
| `Manifest` | `automarshal/registry.go`, the kinds of `job` and `task`, the options of `main.go` | a manifest on its way from the user to the database and back; reading yields the set of values it may yield |
| `LoadBalancer` | `LoadBalancer.Next`, its list and sessions, `ServeHTTP`, `ErrorHandler` | a request is a goroutine; every load and compare-and-swap of a session, every round of `MinBy`, every nested call and return is a step; upstreams come and go between them |
| `MustWorkerProofs`, `RetryProofs`, `TaskRunProofs`, `LoadBalancerProofs`, `TriggersProofs`, `CollectionProofs`, `DaemonProofs`, `SessionProofs` | | theorems; `RetryProofs` is about `RetryWorker` and `RetryOptions`, `TaskRunProofs` about `Pipe` and `ProcessRunner`, and so the names of `RetryOptions` and `ProcessRunner` begin with `Options` and `Runner` where the other module has the plain ones |
| `MC*` | | instances for TLC; `MCManifest` takes `Manifest` and `RetryOptions` together, as what a launch brings: a behaviour is about the one or the other |

`MustWorker` implements `Attempt`; `RetryWorker` is written against attempts and its run
checks that it takes them only through steps of `Attempt`; `RetryWorker` implements
`Supervisor`; `Job` moves its workers by `Supervisor`'s actions, and `Triggers` extends
`Job`. The three levels are thus checked separately, each against the specification of
the one below, which is what keeps the state spaces small. `Collection` implements
`KeyStore`; `ProcessRunner` takes its attempts as `Attempt` has them, and `LoadBalancer`
lets upstreams come and go as `ProcessRunner` may.

Next to some definitions stands a *faulty variant* of it: the same code with a
plausible mistake.  It shows that a property is sensitive to the code: with the
variant in the definition's place the property is violated.

### Abstractions worth knowing

* A Go error is a member of the small set `Errors`.  Errors that wrap a status
  are that status, as `errors.Is` makes of them.
* Time is not measured in `MustWorker`: a positive timeout may expire at any
  moment after it is armed, which includes every real order of expiries.
* `MustWorker` assumes a positive stop timeout.  `WithDefaults` makes every
  worker's so, whatever the manifest says; that is part of
  `WorkersAreBounded`, which is part of `RetriesAreBounded`.
* A job with `RetryDisabled` has a `mustWorker` for its worker.  `Job` models the
  other, default kind.
* In `RetryWorker`, time is the number of the period, which is all `Ticks()`
  returns.  It only grows: the model has no clock that is set back.
* The status fields are plain fields written by several goroutines.  A read may
  return any value some interleaving wrote; `retry.status = work.status` is
  therefore a choice among the statuses of an attempt.

* A request of the load balancer keeps the list of upstreams that count it; the
  counter of an upstream is the number of its entries.  An answer, an aborted
  answer and an error page are all the end of a call.  A client has one session,
  empty until it is first stored, because none is ever deleted:
  `RemoveUpstream` looks for sessions by comparing them with an upstream
  (`lb.go:69`), which is never true.  A sticky client therefore keeps the upstream
  of a process that has ended until a retry moves it, and with `RetryMax` at most
  one no retry does.
* A trigger that is `never` or empty is no source of `Triggers`, and a list is its
  members one after the other.  A panic in a goroutine is the end of the daemon
  (`up`); one in an RPC handler is recovered by `net/http` and fails the request.
* `Collection` has the memory of `append(c.prefix, key...)` (`db.go:47`): a key
  that fits into the spare capacity of the prefix's array is written where the
  last such key was.  `Short` is the set of the keys that fit, and nothing bounds
  it.  With two of them `KeysAreTheirs` fails, because one client's key may be
  overwritten before it is used: that is the second finding.  `StrayedIsShort` and
  `ImplementsKeyStore` say what is left: a call that has lost its key (`Stray`) may
  do what it likes to the other short keys, and everything else is atomic.
* In `Daemon` the lock file is atomic and goes with the process that has it: that
  the library takes over the file of a process that is gone is assumed.  The
  websocket transport is opened and never used, as the condition at
  `surpc/client.go:115` is inverted; every command is a POST.
* In `ProcessRunner` the proxy is a list of upstreams.  An attempt may be
  interrupted at any time, so also while its `Launch` is still under way, and the
  next one then begins; the process may exit whenever it likes, which includes
  exits after an interrupt.  Its output goes through a pipe, since the loggers are no
  files, and a descendant that outlives it may hold that, and the address, for as
  long as it likes (`held`); `cmd.Wait` returns when nobody does.  A task of a single
  instance is a runner with one attempt, since `TaskRun.Launch` makes a new runner each
  time.
* In `Session` a stop that finds the worker alive may or may not reach its attempt,
  as `RetryWorker` shows of `Stop`.  A worker that was missed has lost its retries and
  ends with the attempt it has begun, if that ever ends.
* `Manifest` has one character for a kind and a few for everything else; sizes,
  random names and rune sets are left out.  A JSON object with several known kinds
  may be read as any one of them, because Go visits its keys in random order.

## The runs

Five runs check, beside the properties, that the steps their fairness promises can be
taken: `NothingBlocks`, `WorkerGoesOn`, `RunnerGoesOn`, `RequestsGoOn` and `JobGoesOn`
say of each process what it waits for, and that it waits for nothing else.  They are
what the proofs of liveness start from.

Each of the two violation runs checks a statement of the repository's own documentation
that the code does not meet; `findings` in `PROJECT.json` quotes it.

| Run | Question | Bounds | States |
|---|---|---|---|
| `must_worker` | Does an attempt end once, consistently, with one cause, in bounded time of a stop, and leave no goroutine? | two callers of `Stop`, options all set or all unset, three exit reasons, two causes of the parent | 180 000 |
| `retry_worker` | Do retries, stops and kills of one worker keep to the limit, to one attempt, and to what a job expects? | a caller of `Stop`, a caller of `Kill`, one retry in each of two periods, `RetrySuccess` on | 323 000 |
| `job` | Does a job with triggers keep hold of its workers, do stops return, does `always` launch again, and do the loops end with the session? | launched `always`, dropped `once`, a restart, a kill and the shutdown; two workers before callbacks cease | 125 000 |
| `pipe` | Does a pipe keep to the rule of its mode and come to its end? | the four modes and the cluster, three subtasks, success and failure, a parent that ends well or not | 62 500 |
| `process_runner` | Is nothing listed that has not answered, does an attempt leave nothing behind, and is an exit noticed though a descendant may hold the output? | two attempts of one instance, each with a descendant | 204 000 |
| `session` | Do map and database agree, do answered changes survive crashes, does a new job wait for the old, is every request answered that no missed stop holds up? | one client, one trigger, one id, two manifests, three job objects per life, one crash | 368 000 |
| `collection` | Is a collection with its transactions as good as an atomic store, and how far does a key reach that others overwrite? | two clients, two short keys and a long one, one version | 3 854 000 |
| `daemon` | Is there one daemon, is no command done twice, and is a client served? | three clients, one of which asks for the shutdown, one ping for fifty, one death of a daemon or a client | 701 000 |
| `manifests` | Do options arrive as typed, and do stored manifests revive as what they were? Are the defaults of a task's options bounded, stable, and the backoff monotone? | options of up to three characters, pairs and triples of typical ones, texts of up to four characters, typical configurations, three trips; or counts, periods, durations and scales on both sides of every threshold in the code, two levels of nesting | 88 000 |
| `load_balancer` | Are retries bounded, do they move on, does a client keep its upstream until it fails, does every request end? | two requests of one client, two upstreams, sticky or not, methods conn and random, one retry | 460 000 |
| `retry_stop` | Violated: `README.md:48`, stop an application | as `retry_worker` | |
| `collection_short` | Violated: `README.md:36`, a job has the id it was launched with | as `collection` | |

Why the bounds are enough.  Two callers of `Stop` are the least that can race on
`stopChannelUsed`; a third behaves as the second.  In `RetryWorker` a caller of
`Stop` and one of `Kill` race on the retry state, and the theorems cover any
number.  One retry per period and two periods reach the limit in the first
period, the counter's restart in the second, and a period that changes between
the load and the swap; that allows three retries, hence four attempts, per
behaviour.  Three subtasks are the
least for which one can fail, one be the last to be counted and one not be
launched yet.  Three job objects are a
job, its replacement and the replacement's; a second life shows what the first
has left.  `session` has one client because the code serialises nothing between
clients: overlapping requests on one id may leave map and database different, and
no statement of the repository promises otherwise.  `load_balancer` has two
upstreams and method random, which may do whatever hash does; with two upstreams
`MinBy` makes one round, and the theorems cover any number.  In `job` two workers
are the one a request has stopped or killed and the one a trigger has launched
instead; a third repeats the second, and the theorems cover any number.  In
`process_runner` two attempts are one that has ended within its `Launch` and the
one that has taken over.  In `collection` two short keys are what it takes to overwrite
one, the long key is what must not be touched, and one version will do, as a manifest
carries the id it is for.  In `daemon` one ping stands for fifty because a client
that has given up early has tried everything a later one does, and one death
suffices for a daemon that dies, or a client that dies with the lock it tests.

### Fairness

* `MustWorker`: goroutines that can run do, and armed timers expire.  Nothing is
  assumed of the task (it may hang in `Launch` and never exit), of the memory
  report, or of anybody deciding to stop or kill.
* `RetryWorker`: `Run` proceeds, a call of `Stop` or `Kill` once begun proceeds,
  and an attempt *that has been told to stop* ends: that is `Attempt`'s liveness,
  which `MustWorker` is shown to have.  An attempt left alone may last for ever.
* `Pipe`: the loop and the helpers run when they can.  Nothing is assumed of the
  subtasks: `SubtasksEndPipe` has their end as its premise, and `DoneEndsPipe`
  holds although a subtask may ignore its context.
* `Session`: a request proceeds, a mutex that keeps becoming free is obtained
  (`sync.Mutex` hands over to a waiter that has starved), and a worker whose attempt
  was told to stop ends, which is `ReachedStopEndsWorker` of `RetryWorker`.  A worker
  that was missed by the stop need not end, and `RequestsEnd` exempts the requests that
  hang on one for ever.
* `LoadBalancer`: a request's goroutine runs when it can, and the proxy gives up on
  an upstream when the client has gone.  An upstream may never answer otherwise:
  the first half of `RequestsEndProxy` has it as its premise that none does so.
* `Triggers` (with `Job`): a thread inside the mutex proceeds, a callback and the
  shutdown that wait for the mutex get it (Go's mutex hands over to a waiter that
  has starved: strong fairness), loops go round, a worker's goroutine makes its
  decisions, and an attempt told to stop ends: `Supervisor`'s fairness and
  `Attempt`'s again.  No event, request or shutdown is assumed.
* `Daemon`: a process that can run does, and none has to die.  Nothing is assumed of how long a command
  is executed, nor that anybody shuts a daemon down.
* `Collection`: a client's operation proceeds; a conflict is an answer, not a retry.
* `ProcessRunner`: goroutines run and the command is found; a select that meets a
  done context again and again takes it (Go chooses at random: strong fairness);
  a killed process ends, `cmd.Wait` returns once nobody holds the output of a process
  that is gone, and the check of an address at which nobody listens fails.  A server
  that accepts a connection may never answer, a process may ignore interrupts, and a
  descendant may never let go; `ExitEndsAttempt` exempts attempts it withholds for ever.

## The proofs

TLC checks the small instances above; the theorems hold for all values of the constants,
under the named assumptions of the modules (exit reasons exclude the sentinel `ErrOk`;
`RetryTickDead` is no period's number; `Count` is a natural; every event source has its
callbacks, and finitely many threads may create a worker). Each follows one argument: an
inductive invariant `IInv`, a lemma per action that keeps it, and `Invariance`, from
which the named theorems are drawn. Every module with proofs begins with `TypeCorrect`,
which is needed for the rest; that is why most type invariants are proved and not
checked by a run. The invariants were themselves checked by TLC on small instances
before they were proved.

`MustWorkerProofs`, for any callers, options, exit reasons and parent causes:
`EndIsAlwaysTrue`, `StopIsAlwaysEnforced`, and `AttemptSafety`: the initial states
and steps of `MustWorker` are those of `Attempt`.  `IInv` adds to the properties
what the cause can be while `Run` is inside (`EndedFromOutside`) and that a context
whose callback is past `armed` is done (`AfterEnd`).  The refinement also needs that
a caller in `enforce` has set `stopUsed`: without it a stop timeout could end an
attempt nobody had told to stop.

`RetryProofs`, for any callers, any limit and any number of periods:
`NoAttemptIsOrphaned`, `RetryStateIsSound` (with its parts `CloseIsSafe` and
`LimitIsEnforced`), `DeadStaysDead`, `SupervisorSafety`, its corollary
`DisabledIsTheEnd`, and `AttemptsAlwaysConform`.  `IInv` has, beside the types,

* `Locals`: whoever is about to swap loaded a state that was alive, and read the
  clock no earlier than that state's tick;
* `Contexts`: the worker's context is done only when the parent's is or `Run` has
  returned, and a cancelled parent has no live attempt;
* `Closing`: the channel is closed only by the caller that turned the state dead,
  and there is one such caller;
* `Counting`: while the state is alive its counter bounds what was granted in its
  tick, and nothing was granted in a later tick.

`Counting` is why the limit holds although the clock is read between the load
and the swap: a swap that succeeds found the state it had loaded, so the counter
it increments still bounds the grants of that tick.  `AttemptsAlwaysConform` is proved
record by record: `Allowed` is what `Attempt` lets a step make of one, every action
replaces the records by such (`RecordStep`), and the parent is only ever cancelled for
one of its causes (`ParentKnown`), which is why an attempt may begin with a stop
timeout it has inherited.

For any manifest and depth of pipes: `WorkersAlwaysBounded` and `BackoffAlwaysGrows`,
together `RetriesAlwaysBounded`, and `DefaultsStayStable`. `OptionsInv` says that a
worker's options are `Defaulted`: within every threshold of `WithDefaults`. Options that
are defaulted are a fixed point of it (`DefaultsStay`), and whatever it is given it
makes defaulted ones (`DefaultsAreGiven`). The bounds are about truncated quotients of
products, and rest on three lemmas about them (`QuotientFits`, `FactorCancels`,
`QuotientGrows`): the backoff is a quotient with twenty times the square of the limit,
from which that square is cancelled.

`TaskRunProofs`, for any number of subtasks: `OrderedIsSequential`,
`OutcomeIsAlwaysRight`, `CounterIsExact`.  `IInv` says that the counter is the
cardinality of the set of subtasks not yet counted (`Counting`), hence that the
helper which sees zero knows that every result has been received, and that a
result which decides the pipe has ended it before it was counted (`Results`);
`Order` says where an ordered pipe's loop can be while helpers run.

`LoadBalancerProofs`, for any upstreams, requests, clients, hash and options:
`RetriesAreAlwaysRight`, `OneUpstreamPerClient`.  `IInv` has `Local`, what a
request's program counter says of its own variables (a request that is to be
retried has retries left; one that empties the session has failed before);
`Listing`, no upstream is listed twice, without which the next in the list might be
the one that has failed; and `Agreement`: while no request of a client has been
retried, its session names the upstream of every request that has come past the
deferred function, so that an empty session means that nobody has, and the first
to swap decides.

`TriggersProofs`, for any requests, sources, callbacks and workers:
`RestartIsAlwaysClean` and `ForgottenStaysDisabled`, together `LetGoIsAlwaysStopped`.
`IInv` rests on `Mutex`, who is
inside an operation holds the mutex, and `Holding`, what the holder has read of the
job's worker stays true until it leaves.  From these, `LeftIsHeld`: a worker that is
the job's no more has ended, was killed, or has the holder waiting for it; and
`LeftIsDisabled`, the same for its retries.  `Draining` keeps the shutdown's join
behind its stop.  The steps of workers need only the actions of `Supervisor`, and
`WorkersAlwaysConform` says that whatever operations, callbacks and the session's end
do to a worker is a step of `Supervisor` too: together with `SupervisorSafety` of
`RetryProofs` it is what justifies that the job is checked without the inside of its
workers.  Its lemma `NextMoves` also gives `StoppedNeverRunsAgain`: a worker that was
stopped or killed and is at rest stays so.

`CollectionProofs`, for any keys, any of which may be short, and any clients:
`StrayedStaysShort`, `CommitsStayFresh` and `CollectionIsKeyStore`, the refinement.  A read takes effect at its look and an
update at its commit; `Committing` says that what a transaction has looked up is
still so at the commit, or badger reports a conflict.  `KeyIsOwn` says whose key a call
works on: its own, unless two short keys have been in memory at once, and then a short
one.  `KeysStayTheirs` and `UnsharedIsKeyStore` are what follows for a behaviour in which
that never happens, as with ids of more than three bytes: every manifest is under its
own id, and the whole of `KeyStore` is implemented.

`DaemonProofs`, for any clients, pings and deaths: `OneDaemonAtATime`,
`CommandsAreNotRepeated`.  `Locks` says that whoever thinks that it holds the lock
does; `Spawns`, that a client starts one daemon at most; `Progress`, where a request
is and how often its command has run, so that the end of a daemon is the end of
the requests with it.

`TaskRunProofs`, for any number of attempts of a runner: `ListedAlwaysAnswered`.  `Own`
is the key: while `h.ipc` is an attempt's address it has been so since that attempt
made it up, so that what the attempt has read of it since is its own.  `RemovalInv`, that
exactly the listed upstreams have a goroutine that waits to remove them and that only
the last attempt to have begun may be live, gives `ListedIsLiveOrLeaving`.
`NothingEverComesBack` is the safety half of `EndLeavesNothing`: an attempt that has ended
and left neither upstream nor process does not get either again.
`SeenAlwaysConform` says that the attempts of a runner take only steps of `Attempt`.

`SessionProofs`, for any ids, manifests, clients, triggers, job objects and lives of the
daemon: `TypeCorrect`, `StoresAgreeAlways`, `AnsweredStaysStored`, `NewRunsAfterOld`.
Three invariants stand on one another.

* `TypeInv`: the types, what a request knows at each of its steps (`Served`: its new job
  object is that of its id and manifest, the indices it holds are those of job objects
  of this life), and what the map holds (`Mapped`).
* `StoreInv`: an id on which the two stores differ is one whose revival is yet to come,
  or there is a change of it half way between the two (`Agreement`); what is stored is
  what answers entitle to, or a change that has stored it has yet to answer (`Storing`).
* `OrderInv`: a job object is *current* while the map has it, and while the change that
  has swapped it out has not seen its worker end.  What runs is current
  (`RunningIsCurrent`), and where there is a later object of the same id that one still
  waits (`NewWaits`) and is not ready (`NewIsUnready`); what is not ready does not run.

`UpdateJob` and `DeleteJob` change the map and the database one after the other and hold
no lock across both (`session.go:47-63`).  Two changes of one id can therefore swap in
one order and store in the other, and no invariant survives that: with two clients and
one id TLC finds an update overlapped by a deletion leaving the manifest in the database
and no job in the map, with every request answered.  So the
first two properties have the hypothesis `[]ChangesAlone`, no two changes of the same id
overlap, and the third has `[]RequestsAlone`, since a `Start` that found the old object
before the swap may start it again after the stop.  Neither restricts requests on
different ids, triggers, or crashes; the corollary `OneClient` says that a single client
that waits for its answers satisfies both, which is also what the run has.

### Liveness

The provers cannot look into `ENABLED`, so that a theorem about what eventually happens
has the enabling invariant of its module as a hypothesis, `[]NothingBlocks` and so on.
Each says what a process waits for: *if* the mutex is free, the worker has ended, the
context is done, *then* a step of the process is enabled.  TLC checks it as an invariant
of the run; that the condition comes about is what is proved.  Where fairness
is quantified over processes the hypothesis `[]Fairness` says of every moment what the
specification says of the first: the two mean the same, but the provers do not exchange
`[]` and a quantifier by themselves.  A proof follows a process from one step to
the next, weak fairness against the safety invariants above, and needs no bound of the
small instances.

* `MustWorkerProofs`: `AttemptLeavesNothing` (once the context is done, `Run` returns and
  timer, guard and callback go) and `MustWorkerIsAttempt`: `mustWorker` implements
  `Attempt` with its liveness, which the fairness of `RetryWorker` and `Triggers` assumes.
* `RetryProofs`: `WorkerIsSupervisor`, the same for `retryWorker` and `Supervisor`, and
  `StopEndsTheWorker`: the attempt that was told ends, retries stay disabled, and the
  next decision of `tryRetry` is the end.  A call of `Stop` that finds no
  live attempt, because the next is already permitted, tells nobody: the finding.
* `TaskRunProofs`: `AttemptsLeaveNothing` and `ExitsEndAttempts`.  The second has to show
  that the health check of an attempt whose process is gone does not dial for ever,
  although the address it has read may be another attempt's: at most one process ever
  serves at an address (`AddressInv`, with `AddressesAlwaysDiffer` as its corollary), and
  that one is gone or belongs to an attempt that has ended, and is killed.  Either wait,
  for `cmd.Wait` or for the check, comes to its end unless a descendant withholds it.
* `SessionProofs`: `RequestsAreAnswered`.  A handler that waits for a mutex gets it because
  whoever has one waits for a worker, never for another mutex (`HoldersWait`).  That
  worker ends if the stop has reached it; if it was missed, it ends at some time or
  everybody who waits hangs for ever, which is what `Hung` says.  A crash ends the
  request as well.
* `TriggersProofs`: `ReachedStopAlwaysReturns` and `AlwaysUndoesStops`.  For the first, the
  attempt that was told ends and its worker, which cannot be granted another, finishes;
  fairness names workers by their place in a sequence that grows, and `SlotsSuffice` shows
  that it names all of them, as a thread has at most one worker yet to create.  For the
  second, the mutex of a stopped job gets free, and the goroutine of `always` takes
  it, creates a worker or finds one.

Only model-checked, beside the enabling invariants: `PipeEnds`, `RequestsEndProxy`,
`SpawnServes` and `CancelEndsLoops`, which need an induction over what is left (the
subtasks, the retries, the pings, the loops), while a temporal induction over a
finite set or a number is beyond the prover; and `ArgReader` and `Manifest` with
`OptionsArrive` and `StoredRevives`, whose functions recur over their input, so that what
they compute for every input needs an induction over data.  Every other property of a
passing run is stated by a theorem.

## Known limits of the code

Beside the finding, the models show behaviours that contradict a comment or
surprise a reader, with no statement precise enough for a run to refute:

* The event source `launch` does not launch a worker again that has ended by itself
  (`README.md:38` reads otherwise): the ended worker is still `s.worker`.
* A job that is deleted or replaced keeps its triggers, since nothing calls
  `Job.Cancel` (`job.go:127`).  What `gosu ls` lists (`README.md:41`) is therefore not
  all that runs; `NewAfterOld` exempts what such a trigger has launched.
* `Join` reads `s.worker` a second time without the mutex (`job.go:100`), and the
  callback of `once` may run before `Listen` has returned; both can panic.
* The kind `many`, which a list of triggers is marshalled as, is not in the
  registry, so that the daemon refuses the launch of a manifest with such a list,
  which the client has read and marshalled for it.
* A backslash in a quoted option is lost unless it is doubled (`reader.go:116`).
* An attempt that is overdue within `Launch` overwrites `h.ipc`, after which its live
  successor may be given an upstream that leads nowhere.  `ListedHasAnswered` speaks
  of the attempt that `h.ipc` belongs to.
* A stop that misses the attempt holds the job's mutex until that attempt ends by itself
  (`job.go:71`): every request and trigger of the job waits with it.
* A descendant that outlives its process and keeps the output open keeps `cmd.Wait`, and
  with it the attempt, from ending, as there is no `WaitDelay` (`task_run.go:80-81`, `107`).
* `Rescale` multiplies with the old period and divides by the new one (`rate.go:66`), so
  that a limit over more than thirty seconds is cut to less than ten in thirty
  seconds allow, and over more than five minutes to no retry.  `RetriesAreBounded` has
  the upper bounds only.

## Not modelled, and the plan

* Whiteboards, the line buffer and streaming of logs, the settings cache: small
  shared-state components; each would be a module of its own.
* The inspector's report, `fetch` and `noop`; `InsertJob` and `Clear`, which nothing
  calls; `Traverse` and `Inspect`, which only display.
* The buffered subscription of events (its 32-bit count needs its width:
  `Swap(-0x80000000)`, `trigger_event.go:46`, followed by the runner's `Add(-1)`
  wraps), and `events`: the program uses neither.
* `Listen` and `Close` of the balancer's http server; transports, codecs and the
  secret of RPC calls: I/O without state the properties could tell apart.
* Sizes, random names and rune sets in `automarshal`; parsing and formatting of
  rates and durations: text, on which no property of the models depends.
* Socket and interpreter discovery (`ipc`, `foreign`), terminal output
  (`client/view`): pure I/O.

Next: `Whiteboard` and the log writer.
