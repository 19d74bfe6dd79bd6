# Verification of the engine

TLA+ models of the engine's kernel and of what stands on it, TLC configurations that
check them on small instances, and TLAPS proofs of the properties that matter most. The
code modelled is `src/engine/kernel` (namespace `my`: tasks, executors, event loop,
cancellation, services, modules, memory, files, network, values, debug adapter),
`src/engine/core_application`, the Lua toolkit (`src/engine/mylibs/lua_toolkit`) and the
script module (`src/engine/modules/script_lua`). Paths below are relative to
`src/engine/kernel` unless they begin with `src/engine/` or name a file only.

Contents: 1 the system, 2 the modules, 3 the runs, 4 the proofs, 5 where the models
abstract, 6 what the models found, 7 what is not modelled, 8 what is left.

## 1. The system

The kernel is a C++20 library around coroutines. A coroutine suspends on a *task*;
whoever resolves the task schedules the coroutine's continuation on an *executor* (a
thread pool, a polled work queue, or the event loop of the *kernel runtime*). An
*application* runs a main loop on its own work queue and the runtime on a second thread;
at startup it drives *modules* and *services* through their phases, and a stop takes all
of that down again, in an order on which the absence of dangling code and references
depends. Objects are reference counted; the runtime finds those it has to dispose of in
a registry of weak entries. A debug adapter reads requests from a stream and hands them
to a debuggee, of which there is one for Lua. What crosses a border (JSON, Lua, a
debugger, the configuration) is a *runtime value*: a view of a native object.

### Components

| component | state | operations | interacts with | what makes it correct |
|---|---|---|---|---|
| Task core (`src/async/core_task_impl.cpp`) | atomic `m_flags` with two spin locks in it, outcome, continuation, ready callback, references | resolve, set callback, set continuation, schedule | resolvers, awaiters, executors | one outcome; every observer hears of it once; nobody touches a freed task |
| `whenAll`, `whenAny`, `wait` (`src/async/task.cpp`) | a shared awaiter, the list of tasks, an event | register on every task, decide, detach | task core, expiration | one wake-up, in time; no use of a dead awaiter or event |
| `TaskCollection`, `MultiTaskSource` | tasks / sources under a lock | push, await; emplace, resolve, reset | task core | the collection closes when its last task ends; an awaiter is answered, from its own generation unless a settler was overtaken |
| Timers (`win32_timer_manager.cpp`) | timer states, their promises and locks | invokeAfter, cancel, dispose, fire | runtime, executors | silent after cancel, and none is forgotten |
| `ThreadPoolExecutor`, `WorkQueueImpl`, `Executor` | queues, counter of works, workers; current and default executor, guards | schedule, poll, notify, join, finalize | runtime, application | once, in order, nobody sleeps on work; a coroutine resumes where it wanted |
| `KernelRuntimeImpl`, `RuntimeObjectRegistry` | `m_state`, loop, executors, weak entries | bind, poll, shutdown; register, visit | application, executors, objects | the loop outlives everything that uses it, and ends; visits meet the living |
| `CancellationState`, `ExpirationState` | flag, subscriptions, spin-locked entries, timer | cancel, subscribe, unsubscribe, destroy | waits, timers | a callback runs once, and never after its owner has gone |
| `ServiceProviderImpl` | accessors, instances, classes, dependencies | lookup, lazy creation, init, shutdown | application, services | dependencies first on the way up, last on the way down; one instance |
| `ModuleManagerImpl`, `ApplicationImpl` | phases; `m_appState`, runtime thread | startup, step, stop, shutdown | all of the above | it ends, and unloads the modules last |
| `Barrier`, `Event`, spin locks | counters and flags | enter, set, wait | everything | nobody goes ahead; no lost wake-up |
| Reference counting | counter of the instance, counter of the storage | copy, release, acquire | everything | the last release destroys, once |
| `StreamSocket`, `Listener` | uv handles, pending reads and accepts | read, write, accept, dispose | runtime, libuv | bytes in order; every pending operation is answered |
| Memory: pools, host memory, runtime stack; buffers | pages, free lists, offsets; storages | alloc, free, scopes; resize, share | everything | blocks are disjoint; a writer is alone |
| `IntrusiveList` | links within the nodes | insert, erase, move, iterate | tasks, wrappers, sinks | both directions agree, loops meet everyone |
| Virtual and native file systems, paths, streams | tree of mounts, cursors, files | mount, open, list, copy | script manager, property files | what is seen exists; copies are whole |
| Logger | sinks under a shared mutex | log, add, release | everything | a message reaches the sinks there are, no other |
| Class metadata | bases, attributes, shared descriptors | casts, lookups | services, values | all ways to ask agree |
| Runtime values, JSON, property container | a native object, wrappers, subscriptions; a tree under a shared mutex | assign, save, parse, subscribe; get, set, merge | Lua, debug adapter, configuration | values keep their types and come back; changes are told; what is set is found |
| Debug adapter, HTTP headers | packets, requests, answers, tasks | read, dispatch, answer | debuggee | every request is answered under its number |
| Lua: debuggee, variables, realm, values | breakpoints, hook; registrations; loaded scripts; stack and references | set breakpoints, stop, expand; require; scopes | Lua, debug adapter | breakpoints are those asked for; nothing outlives its pause or scope |

### What is hard about it

* **Lock-free hand-over.** Result, callback and continuation of a task meet on one
  atomic word; pointers and pages are taken by compare-and-exchange.
* **References as the only evidence of life.** The shutdown decides from counters
  (`hasWorks`, `getRefsCount`, captured executors) that it reads one after another
  while other threads change them; registries hold weak entries.
* **Cross-thread order.** The application thread and the runtime thread take turns
  through states each reads without a common lock; sockets, listeners and timers are
  disposed of while their callbacks are on the way.
* **Iterating without the lock**: cancellation's subscriptions, the registry's entries,
  the subscriptions of a value, the sinks of the logger.
* **Lost notifications**: `notify()`, `join()` and the barrier signal without holding
  what the sleeper checks.
* **Partial failure** of a module phase, of a service's task, of a script that requires
  others, of an assignment half done.
* **What is valid for a while only**: a Lua stack index, a variable of a pause, a wrapper
  of an element of a vector.

`PROJECT.json` lists each hazard at its line with the properties that cover it, and what these
leave out.

## 2. Modules

| module | models |
|---|---|
| `TaskContract` | abstract: what a task promises |
| `CoreTask`, `CoreTask_proofs` | `CoreTaskImpl` with resolvers, awaiter and callback registrar; implements `TaskContract`; its proofs and those of `Timers`, `Waiting`, `Executors` and `StreamSocket` |
| `ThreadPool`, `ThreadPool_proofs` | the executor with workers, clients and an owner |
| `WorkQueue`, `WorkQueue_proofs` | the polled executor with clients, a polling loop, a thread that stops it |
| `KernelRuntime` | `KernelRuntimeImpl` and the objects and coroutines it waits for |
| `Application`, `Application_proofs` | `ApplicationImpl` on top of the runtime (`EXTENDS KernelRuntime`): two threads; the proofs of both, of `Startup`'s modules and services and of `Coroutines` |
| `Cancellation`, `Async_proofs` | a `CancellationState`, an `ExpirationState`, the timer, subscribers; its proofs and those of `TaskGroup` and `TaskCollection` |
| `ServiceProvider`, `Startup` | ordering and batches of the services' operations; the modules' phases and the application's startup and end over them |
| `GroupContract`, `TaskGroup` | abstract: what `whenAll` and `whenAny` promise; the code that implements it |
| `Coroutines` | coroutines that return a task: `TaskPromise`, the awaiters, `Task` and `TaskSource` |
| `Waiting`, `TaskCollection`, `MultiTaskSource`, `Timers`, `Executors` | the blocking `wait` and `Barrier`; one tool around tasks each |
| `RefCount` | the shared state of pointers |
| `ObjectRegistry` | weak entries and visits of the runtime's registry |
| `StreamSocket` | a socket, and a listener, against libuv's callbacks and `dispose()` |
| `Memory`, `Buffers`, `Lists` | pools over host memory and runtime stack; byte buffers; `IntrusiveList` |
| `RuntimeObjects_proofs` | proofs about `Memory` |
| `Files`, `Streams` | virtual file system and `FsPath`; streams in memory, copies, files |
| `Metadata`, `Services`, `Logger` | class descriptors; lookup and lazy creation of services; sinks |
| `DebugSession` | a session of the debug adapter, and the headers of a packet |
| `LuaDebugger`, `LuaRealm`, `LuaValues` | breakpoints, hook, and what a pause shows; scripts; native values of Lua objects |
| `Parts_proofs` | proofs about `RefCount`, `MultiTaskSource`, `ObjectRegistry`, `LuaDebugger` and `LuaValues`, each with its own `Init` and `Next` |
| `RuntimeValues`, `ValueEvents`, `Properties` | assignment and JSON; wrappers, subscriptions, notification; the property container |
| `MCProved`, `MCAsync`, `MCRuntimeObjects`, `MCDebugging` | sums of parts, for TLC; `MCProved` has the parts whose invariants are proved, and the theorems about it |

The last four are *sums*: they `INSTANCE` several modules, the variable `part` is chosen
in the initial state, and a behaviour is about that part while the variables of the
others stay where they begin. A part is a specification of its own with its own
fairness; a sum says no more than its parts, it only lets one run ask a question of
several of them (so their states add up, and do not multiply). Where two parts interact
in a way that matters they are composed for good: the application with the runtime, the
startup with services and modules, the property container with the values in its tree
(`Properties` uses the operators of `RuntimeValues`).

How state and actions correspond to the code:

* **CoreTask.** `flags` is `m_flags` as a set; each atomic operation on it is one
  step, and so is each access to a field that another thread may reach. `pc` is
  where a thread is inside its function; `runner` is the dispatched continuation,
  which runs on any thread. A reference is a member of `refs`, named for its owner,
  and the task is freed when `refs` becomes empty.
* **ThreadPool.** `mutex`, `held` and `pc` give every worker the steps between its
  look at `m_isActive`, its wait and its invocation. `invocations` is the vector;
  taking the head and moving the last into the hole is one step under the mutex. The
  owner asks `hasWorks()` and the reference count as `shutdownStep` does and then lets
  go; the destructor runs on whichever thread drops the last reference.
* **WorkQueue.** `poller` walks through `poll()`; `event` is the manual-reset event,
  `signal` the task of `waitForWork`. `m_mutex` is held for one step, but in
  `notify()`, whose two stores are two steps.
* **KernelRuntime.** `works`, `handles`, `executorRefs` and `captured` are what a visit
  can see. The visit of the components and the look at captured executors are separate
  steps, as in `shutdownStep`. `shutdown()` is three steps of another thread; a step
  that dereferences the executor after it was reset ends in `"crashed"`.
* **Application.** `appState` is `m_appState` and `last` the copy `step()` acts upon;
  `stop()` is an action that is enabled at any time. The application's queue and
  its services' task are members of the runtime's `works` and `captured`.
* **Cancellation.** `live` holds the entries not unsubscribed, `at`/`atWaiter` the
  cursors of whoever iterates. An entry's spin lock is held from the step that finds
  it live to the one that calls it. A waiter holds the expiration's mutex over
  several steps in `Subscribe`, all other holders for one.
* **Startup.** A *batch* is the set of services whose tasks `whenAll` awaits;
  `pending` of them run, in any order, and may be rejected. Dependencies are chosen in
  the initial state among all acyclic graphs. A phase of the modules is one step and
  fails after any number of them. The runtime completes at any time after the stop, as
  it may in `KernelRuntime`: the modules are then shut down, the services cleared, and an
  operation of the services that is still running is never resumed.
* **TaskGroup.** An agent is a task (the thread that resolves it), the coroutine or the
  timer, each inside the shared `resolve()`; `next` and `head` are the intrusive list.
  `dangling` records a step that used what was gone. `answer` is all the contract sees.
* **Waiting, TaskCollection, MultiTaskSource.** What the code does under a lock is one
  step, the callback that runs on another thread is a step of its own. Renewals of a
  `MultiTaskSource` are numbered by `generation`; the value of a resolution is the
  generation that its caller settled. `reset()` and `emplace()` come at any time, also
  while a settler is between the settling and the lock; `overtaken` is a history of the
  generations this has happened to, and `"broken"` is a settler that uses a task that is
  gone, where the model ends.
* **Timers, Waiting.** Locks are explicit owners; `promise` is what timer, cancel and
  dispose compete for. A thread at the barrier sleeps in a step after the one that looked.
* **Coroutines.** `at` is where a coroutine is between its call and the end of its frame;
  a caller waits (`"calling"`) until the coroutine it called suspends. `outcome` is `None`,
  `"value"` or the name of whoever raised the error, so that an error can be followed up
  through the awaits. `await_ready` and `await_suspend` are two steps, the destruction of
  the locals and of the promise are two, and settling the task comes before both where the
  code has it so. The inside of a task is left to `CoreTask`.
* **Executors.** `guards` is the stack of `InvokeGuard`s of a thread, `holders` the
  references that `finalize` counts.
* **RefCount.** A step per atomic operation: `tryAddRef` reads, compares and stores a
  value that it has read again; `miscounted` is a history of whether another value than one
  more than the compared one was ever stored. **ObjectRegistry**: `locked` are the references a visit
  has taken; a callback may drop the last reference to the object it is called for, or
  to the next one.
* **StreamSocket.** `queue` is what is posted to the loop's executor, a step of
  the loop is atomic, `dispose()` and the last release come from any thread. Packets and
  connections are numbered.
* **Memory.** `allocAt`, `want`, `seen`, `again` are where a thread is between the two reads of
  `m_allocOffset` and the exchange; a pool takes its first pages when it is created. **Buffers**: `bytes` is the header and the contents
  of each storage. **Lists**: `links` has both directions, an operation rewrites the
  links it rewrites in the code.
* **Files.** A walk along a path is one step per name, since each node has its own lock;
  `text` is the content of an `FsPath`, `meant` the path it stands for, kept beside it.
  **Streams**: `handle` has the access and sharing rights of Windows.
* **Metadata.** A class is the place of its declaration. **Services**: `frames` is the
  call stack of each thread, as a constructor may look up services itself.
* **Logger.** A walk over the sinks is one step per sink; an entry looks at `m_logger` in
  one step and leaves the list in another.
* **DebugSession.** `wire` are the packets on their way in their pieces, `tasks` the
  handlers that run, `ready` the answers not yet written, `dropped` the requests that came
  behind another in one read. A session is `"refused"` when the arguments of `initialize`
  can not be applied or the host rejects it: its coroutine ends with the error.
* **LuaDebugger, LuaRealm, LuaValues.** The interpreter is external: it
  calls the hook on a line, loads a file, keeps a stack and a table of references.
* **RuntimeValues.** A type is a record of its kind and parts, a value one of its kind and
  data. Assignment, saving and reading are recursive operators with the outcomes and the
  partial effects of the code; the actions apply them to one object and one document.
* **ValueEvents.** A wrapper is a Ptr into the native object: `parent` is whose guard it
  holds, `dangling` those whose element has moved. **Properties**: `holds` is what a
  thread has of the shared mutex across its calls.

Definitions named "a mutant of ..." are variants of an action with a bug that the
code could have had. They take no part in any specification; each stands for the
question whether a property notices that bug. A few properties that do *not* hold are
kept beside the ones that do; section 6 names them and what breaks them.

## 3. Runs

| run | instance | distinct states | shows |
|---|---|---|---|
| `core_task` | 2 resolvers, 1 awaiter, 1 registrar | 10,380 | one outcome, truthful answers, callback and continuation once, no use after release, refinement of `TaskContract`, the task is freed |
| `proved` | pool: 2 workers, 1 client with a follow-up; queue: 2 clients with 2 invocations and follow-ups, timed or not; 2 users of a pointer; 2 getters and 2 settlers over 2 renewals; 3 registered objects; 2 sources of 2 lines, 3 requests; 5 variables; 2 Lua objects | 190,240 | the parts whose invariants are proved: the pool's counter is exact, once each, no run after destruction, queued work is run, `join()` ends unless a worker is about to wait; the queue keeps the order, `hasWorks`, nobody sleeps on work, a timed loop stops; who keeps an object alive until a count is lost; awaiters are answered, and from where; visits meet the living; breakpoints, pauses and values of Lua keep their word |
| `application` | 2 objects, 2 holders (one of the loop's executor), 2 services | 47,952 | objects are waited for, unloading is last, states go forward, a stop ends |
| `cancellation` | 2 cancellers, 1 direct subscriber, 2 waiters | 168,145 | called once, silence after unsubscribe, lists frozen while iterated, sources reach their subscribers |
| `startup` | 4 services, 2 modules, all acyclic dependencies | 762,648 | `ServicesInOrder`: orders of initialisation, shutdown and disposal; `ModulesInOrder`: modules serve from before the services' operations to after them, are shut down once each, and what a failure in a phase leaves out; the shutdown ends |
| `async_tools` | groups of 3 tasks; 3 jobs, 2 awaits; 2 timers; 3 threads at a barrier; 2 threads, 2 executors, 2 coroutines; 2 coroutines and a task from outside, 2 waits for time | 156,193 | refinement of `GroupContract`; collections, waits, barriers, timers and executors keep their word; errors of awaited tasks go up unchanged, values are taken only where they are, a coroutine never runs on after its task is settled, and ends |
| `runtime_objects` | 2 packets; 3 connections; 2 pools, 3 scopes; 2 buffers and 2 readers; 2 lists of 4 nodes; 3 file systems, 2 threads; 3 handles of a file; 4 classes; 3 services, 2 types; 2 threads that log into 2 sinks | 472,363 | what objects live in, and who finds them; bytes and clients in order |
| `debugging` | 4 requests, split or not; 6 scripts; 8 native types with 7 inputs; wrappers of one object; 2 threads and a tree | 136,068 | the debug adapter answers all but what it is named to leave; scripts run whole; runtime values, their changes and the tree of properties |

Four more runs each show one statement of the repository that the code does not keep
(section 6): `core_task_use_after_free`, `kernel_runtime_hang`,
`cancellation_recursive`, `weak_acquire`.

A property of a run often joins the properties of several parts, each defined and
commented where its state is; a comment in the MC module says what the whole claims.

### Bounds

* Two resolvers are the least that race, and a third meets either the lock or the
  `Ready` flag as the second does; the proofs do not bound them.
* Two workers give one that runs while the other waits or leaves. One client and its
  follow-up give two invocations, of which the first is taken while the second comes; that
  taking from the middle of a longer vector keeps the rest is proved for any length. Two
  invocations a client are needed for an order.
* Holders include one that keeps the runtime's own executor, which the loop is sensitive
  to, and one that does not. Two services let the services' task be resumed by one and
  await another.
* Two callers of `cancel()`, the timer as a third; two waiters, of which the first
  installs the sources and the second finds them installed.
* Four services, in a fixed order, with every acyclic dependency graph among them.
  Only one (`Optional`) may lack an interface and only one (`Requested`) is asked
  for: the graph's freedom puts that one in every position.
* Three tasks of a group: one that is ready before it is registered, one while, one after.
  A `MultiTaskSource` has two generations, with `reset()` and the automatic one between and
  behind them, so that a settler finds its own generation, a later one that is or is not
  settled, and none; its result has a value, and the theorem is about one without, too.
* Two threads with two Ptr each never bring the counter beyond `MaxCounted` by themselves;
  the bound only stops an object that is counted too high already from being acquired on.
* Three registered objects, one of them by address and one that removes itself, suffice
  for a visit whose callback destroys the next. Four nodes and two lists give an inner
  range to erase and a neighbour on both sides.
* Two threads that commit pages, for two pools of different block sizes, with room for
  three pages: both the race for the offset and the failing request happen.
* Path texts contain both separators, spaces, dots, and a name that is a dot; three names
  bound their length. Three file systems, one mounted below the other.
* Integers are of two and three bits, signed and not, so that every conversion between
  them overflows in some input; floats count halves. The types nest options, lists,
  sets, maps, tuples and objects, and no deeper: their code is recursive on the element.
* `MaxDepth` (variables within variables) and `MaxDepth` of `LuaRealm` (scripts within
  scripts) cut off recursion that the code does not bound.

Deadlock is checked for `core_task`, whose end is an explicit action. The others
stop by design when everyone is done, and their `.cfg` says so.

### Fairness

Every fairness condition is on a thread that the operating system runs, on libuv's loop
or on the system's timer queue. Weak fairness is enough except where a mutex is given up
and taken back: `ThreadPool`, and in `Timers` the callbacks and `dispose()`. Strong
fairness of each thread says there that nobody is kept from a mutex for ever by threads
that take it again. No fairness is assumed of what a program need not do: nobody must
call `stop()`, `cancel()`, unsubscribe, hand over an invocation, push, await, read, log
or make a task ready; the operating system need not wake a waiter spuriously. A coroutine
need not end either, except in `Coroutines`: there a body that runs goes on, a delay is
over at some time and a `TaskSource` is settled, at the latest by its destructor, but
nothing need ever expire. Disposed objects are taken to get done with their works and services' tasks
to end; the jobs of a `TaskCollection` finish; the peer of a socket ends the stream and
a listener is closed some time; sinks return. In `Startup` the runtime completes some time
when no operation of the services runs; while one runs it may, and need not.

`StopCompletes` carries its premises in its statement: coroutines end that have captured
an executor, those that hold the runtime's executor let go of it, the application is
stopped while the runtime thread waits in its loop, and the polls of the application's
queue do not coincide with every visit of the runtime. Without the last one the shutdown
may be put off for ever, since a queue being polled counts as having work. `CallsArrive`
speaks of sources the expiration has subscribed to, `JoinEnds` of the case in which no
worker is about to wait, `HeardReadsEnd` and `AcceptsEnd` of calls that nothing overtakes,
`HurriedLeave` of threads with a timeout: the other cases fail in the code (section 6).

## 4. Proofs

The theorems hold for every value of the constants. Their assumptions are the named
`ASSUME`s of the modules, which TLC evaluates in the runs, and say no more than that
constants are of their kind and that identities are distinct (`ThreadsAssumption`: there
are workers, finitely many threads, and nobody else is called `Nobody`;
`RefCountAssumption`: finitely many users; `LoopHolders` are holders; and so on), with one
exception, which is a duty of the callers: `OneThread` (one thread uses a Lua state). Where
the code itself loses what a property is about, no assumption rules that out: `RefCount` and
`MultiTaskSource` record it in a history variable, and the property says what holds until
then, or what else may come of it.

* **CoreTask_proofs.** The properties are not inductive: that a callback is not lost
  depends on who is past which lock. `IInv` is `TypeOK` and five parts:
  `LocksInv` (each spin lock has the one holder inside its section), `WinnerInv` (one
  resolver has stored the outcome, and how far it has come), `CallbackInv` (where the
  callback is, and that someone is still ahead of it), `ContinuationInv` (the same of
  the continuation, with the one thread that claims it) and `ReferencesInv` (which
  references remain at each place). There is a lemma for each group of steps, over
  all of `IInv`; then follow `Typing`, `ResultIsTruthful`, `CallbackIsNotLost`,
  `ContinuationIsNotLost`, `ClaimIsExclusive`, their conjunction `NothingLeftBehind`,
  `UsersKeepTheTask` and `SafeContract`, which says that each step is one of the
  contract or a stutter.
* **CoreTask_proofs**, the timers (over `Timers`, a specification of its own). `StatesInv`: a
  timer that looks at the mark, or is past it, has the lock of its state, and it is listed from
  its start until it takes itself off; so the thread that cancels finds it under the manager's
  lock, and waits for the callback under the state's. `MarkInv`: past the mark the timer is not
  at its callback. From it `CancelledIsSilent`, an action property.
* **CoreTask_proofs**, the executors. `QueuedInv`: a coroutine is queued where it wants to go
  on, and holds a reference to that executor while it is queued or suspended. From it
  `CoroutinesResumeWhereTheyWant`: it resumes with that executor current, under however many
  `InvokeGuard`s, and an executor that `finalize` has let go of has nothing queued.
* **CoreTask_proofs**, threads that wait. `WaitInv`: while the callback of a `wait()` without a
  timeout is set or in the setter's hand, the waiter sleeps on the event. That is inductive
  only with the setter's taking the callback away for good: past that step none is set.
  `BarrierInv`: the counter is the number of threads that have come, and who notifies or leaves
  with TRUE has seen all of them. From it `ThreadsMeetSafely`. With a timeout the event does
  not outlive its callback (section 6).
* **CoreTask_proofs**, the network (over `StreamSocket`, a specification of its own). `JobsInv`: each
  job is posted to the loop at most once, and for someone who refers to the socket; `HandleInv`:
  a socket that is disposed and still has its uv handle is referred to by the job that closes
  it, unless nobody refers to it and its destructor waits for that job, so that no release of
  a reference destroys an open socket; `PacketsInv`: what was returned and what is pending are
  the packets one by one, and `read()` is woken for data or for the end. `AcceptInv`: while
  somebody waits at an open listener, no client does; `ClientsInv`: the two lists of clients
  are ordered, and one behind the other. From it `StreamsKeepOrder`. `HandedOutInOrder` of the
  run selects the clients that are not null, which takes induction; `ClientsInOrder` says the
  same index by index.
* **Application_proofs**, the runtime. `RtInv` adds to the types what the runtime thread knows at
  each of its steps: the state it has set, what it has let go of, and that no
  object has works once a visit found none. That last part is what makes a check of
  components one after another sound. From it `ObjectsWaited`, `CompletedIsLast` and `LoopEnd`.
* **Application_proofs**, the application. The steps of the application keep `RtInv`, and `AppInv` adds
  which states belong to which step. From it `UnloadComesLast`, `RuntimeFollows` (the
  runtime leaves `Operable` only for an application that has stopped), `AppTyping` and
  `StatesGoForward`, an action property.
* **Application_proofs**, the modules (over `Startup`, a specification of its own).
  `ModulesInv` says by how far the application has come which phase of the modules is next
  (`PhaseAtStage`: their shutdown only after a startup that went well), which of them
  can have been shut down (`CallsAtStage`), and that no service is asked for anything while a
  module is not initialised (`InitializedAtStage`, `NobodyPreinitialized`). From it
  `ModulesEndInOrder`, however the runtime's completion and the operation of the services
  that is then running fall together; of the services it needs that calls which come back
  begin no operation (`CallsBeginNothing`).
* **Application_proofs**, the services (over `Startup` too). Two questions: whether the list that
  the operations work through is in order, and whether they keep to it. The list is what
  recursive functions make of the dependencies. The library's theorems on recursion take an
  operator as a parameter; `Recursion` and `SizeInduction` are of first order instead: the step of
  a recursion is a function on the functions, which depends on smaller arguments only
  (`Contracts`), and the induction is over a set. With them `VisitsEnterAll`: the listing enters
  every service that takes part, and is `Nested`: between an entry and a later one that it
  collects there are only such as it collects. "The right one depends on the left one" is no
  strict weak order, and so a merge sort with it need not come out in order. Of a nested list
  it does (`SortedWell`), as each half keeps what must come first ahead (`AheadIn`, for sets closed
  under dependencies, `Closed`), and merging takes from the second half only what must
  (`MergedWell`). So the batches are such that nobody waits for one of its own or a later
  batch (`InitBatchesAhead`, `ShutdownBatchesAhead`). `ServicesInv` then says of the operation
  that runs that the batches to come are in order with those begun (`Ahead`, `Waited`), which
  operations each stage has seen (`OperationsAtStage`), and that nobody is left out at the end
  (`NobodyLeftOut`). From it `ServicesKeepOrder`.
* **Application_proofs**, the coroutines (over `Coroutines`, a specification of its own).
  That an awaited value is there when it is taken needs to know who may wake a coroutine:
  `AwaitInv` says what a coroutine awaits at each place, and that one that is posted awaits
  no pending task; `ContinuationInv` that the continuation of a pending task waits for it;
  `CallersInv` that who has called a coroutine waits for that one only, until it suspends,
  ends, or returns late from the expiration's awaiter; `ErrorInv` whose error a frame that
  is being destroyed carries; `OutcomeInv` that a coroutine with an outcome only leaves.
  There is a lemma for each action. From it `TakenValuesAreThere`, `ErrorsGoUpUnchanged` and
  `CoroutinesEndOnce`, the safety part of `CoroutinesKeepWord`.
* **Async_proofs**, cancellation. That a callback is called once cannot be shown from the counts
  alone: it takes who is on which list, that one thread iterates each list, and what it
  has still to come to. `IInv` is `TypeOK` and six parts: `PlacesInv` (where each kind of
  thread may be), `ListsInv` (nobody is on a list twice, nor live there before subscribing
  or after unsubscribing), `TurnsInv` (one `cancel()` and one `invokeCallbacks` iterate,
  and only when something has expired), `DirectInv` and `WaitersInv` (what is ahead of the
  iteration has not been called, and who is being called has not left) and `EndInv` (a
  destroyed expiration is out of reach of both sources). There is a lemma for each action,
  with a step for each part. From it `CalledOnceAndSilent` and, with
  `FrozenWhileIterated`, `CallbacksAreSafeAlways`, the whole of the property the run checks.
* **Async_proofs**, groups of tasks. The coroutine of `whenAll` and the threads that make tasks ready
  count the same tasks without knowing of each other. `CountInv` says that, until there is a
  result, `counter` is the number of tasks that are still ahead of the coroutine in the list
  (`Ahead`) or have a callback set or in hand (`Registered`), that no task is both, and that
  all others are ready. `ResultInv` then has every result true before it is stored, and
  `CleanInv` says what follows from a TRUE of `whenAll`: nobody else is left who would use
  the state, and the coroutine has come to the end of the list, so that its unprotected
  iterator does no harm. From it `GroupImplementsContract`, the refinement of
  `GroupContract` without its liveness, and `WhenAllReturnsClean`.
* **Async_proofs**, collections. `TasksInv`: a task is in the collection from its emplacement
  until its callback has removed it, however the two threads interleave; `AwaiterInv`: a
  coroutine that sleeps in `awaitCompletion` has an awaiter, which is resolved unless a task is
  left to resolve it. From it `CollectionIsAwaited`: the coroutine leaves only an empty
  collection, and none sleeps on an empty one. That it wakes up is left to TLC.
* **ThreadPool_proofs.** `CounterCountsWorks` says that the counter equals the number of
  threads that run or push and of what is queued. A step moves a thread in or out of those
  sets, or an invocation in or out of the vector, and the counter with it: the lemmas
  `StepCounted`, `WithoutHeadAt` and `Appended` say what each move does to a cardinality
  and to the elements of a sequence. `IInv` adds `MutexInv` (its holder knows it),
  `PlacesInv`, `HeldInv` (who has an invocation in hand), `InvocationsInv` (each is in one
  place, and started once), `RefsInv` and `JoinedInv` (the last reference lets the workers
  leave before the destructor returns). From it `PoolIsSafe`.
* **WorkQueue_proofs.** `IInv`: an invocation waits in one place, once, before it runs
  (`OnceInv`); what was not handed over is nowhere (`GivenInv`); a client's first one is
  ahead of its second until it has run, across the queue and the list taken out of it
  (`OrderInv`); and the event is up while something is queued (`EventInv`). From it
  `QueueIsSafe`.
* **Parts_proofs**, references. The counters are the numbers of those who hold something
  (`CountersInv`: the Ptr, the WeakPtr, and the threads between the two counters of a copy
  or of a release), an instance lives while its counter is not zero (`LifeInv`), and a
  thread inside `tryAddRef` has seen a counter above zero (`AcquiringInv`). An exchange that
  stores one more than it compared keeps all this, whoever copies, releases or acquires in
  between; after one that does not nothing is claimed (`CountedInv`), and `weak_acquire`
  shows that there is one. From it `PtrsKeepTheInstance`.
* **Parts_proofs**, the rest: four parts, with an invariant each.
  `SourceInv`: an answer is that of the generation asked of, or one from an earlier
  generation that was replaced before its settler had the lock (`AnswersKnown`); awaiters are
  all of the own task there is now; a settler is on its way for that task, or its own has been
  overtaken (`SettlersKnown`), which only `reset()`, `emplace()` and the automatic reset do.
  `RegistryInv`: an object that a visit has still to meet is locked, or it stands at the
  index of the visit or behind it. That is what removing an entry by moving the last one to
  its place must not break (`RemovedAtKeeps`).
  `DebuggeeInv`: a source has one place, so that the breakpoints of a place are those of a
  source, and all ids come from the one counter.
  `VariablesInv`: everything hangs below the roots. A recursive function for "below" could
  not be reasoned about; `AllHangBelowRoots` says instead that a set of variables that has
  the roots and the children of all its members has everything, and `Removed` is the
  least such set of one root. The roots are held by the frames, the watch, or the
  registrations that are being closed; the references are those of watched values.
  `LuaInv`: the tops of the open scopes grow, a value on the stack lies below what was
  opened later, and a value by reference has the table of its thread's root.
* **RuntimeObjects_proofs**, blocks of memory (over `Memory`, a specification of its own). A
  pool takes pages with two reads of `m_allocOffset` and an exchange, with no lock that other
  pools know. `OffsetInv` says what makes that right: the offset only grows, so that what was
  read is not above it and what was taken is below. `RegionsInv`: the regions of all pools, and
  those that threads are about to bring them, lie apart (`TakingApart`), and what a pool has is
  commited. `BlocksInv`: each block lies in what its region has given out, blocks lie apart, and a
  free one is listed once. From it `BlocksAlwaysDisjoint`.
* **RuntimeObjects_proofs**, the runtime stack. `ScopesGrow`: the scopes of a thread are
  numbered by their stacks, an inner one begins no lower on the same stack; `BelowScopes`
  and `StackedApart`: what is allocated is below the offset of its stack. From it
  `StackAlwaysKeepsScopes`.
* **MCProved** carries these over to the run `proved`: a step of the sum is one of each part
  or a stutter of it (`InstancesStep`, `PartsStep`), and so each invariant of the run is a
  theorem of its specification: `PoolAlwaysKeepsCount`, `QueueAlwaysKeepsOrder`,
  `HoldersAlwaysKeepAlive`, `AwaitersAreAlwaysAnswered`, `VisitsAlwaysMeetTheLiving`,
  `BreakpointsAlwaysKeepWord`, `NothingEverOutlivesThePause`, `ValuesAlwaysKeepWord`.

Every invariant of every passing run is a theorem. Model-checked only: all liveness, since TLAPS
reaches neither `ENABLED` nor fairness, and the modules that declare `RECURSIVE` operators
(`Lists`, `Metadata`, `RuntimeValues`, `ValueEvents`, `Properties`), which tlapm cannot reason
about.
The safety properties of the other modules are model-checked and not proved yet.

## 5. Where the models abstract

* Payloads, errors and results are two kinds of outcome; formatting is left out.
* Memory accesses are sequentially consistent. The code is weaker in places: the states of
  the runtime and of the application are read with relaxed loads
  (`kernel_runtime_impl.cpp:62`, `application_impl.cpp:46`, `134` and `175`) and
  `tryScheduleContinuation` reads `m_flags` with an acquire load (`core_task_impl.cpp:338`).
* `CoreTask`: the executors are external, a dispatched continuation runs later or
  inline; the global list of live tasks is not modelled.
* `WorkQueue`: the continuation that `waitForWork`'s task resumes while `m_mutex` is
  held is not modelled.
* `KernelRuntime`: the registry is the set of its objects (`ObjectRegistry` has the
  entries); `shutdown()` is called once, as its one caller does.
* `Application`: the destructor is not modelled. `Cancellation`: the system clock and the
  timer agree.
* `RefCount`: a counter at zero stays there when it is decremented once more.
* `TaskGroup`: the expiration is a timer that comes once.
* `StreamSocket`: libuv calls back in order and reports an end or an error once.
* `Lists`, `Memory`, `Buffers`, `Logger`: what the code asserts, or what its users have to
  see to, is a guard: a free node, a position in the list, a handle of one thread at a
  time, a logger that outlives the calls of `log()`.
* `RuntimeValues`: jsoncpp reads the text; a `RuntimeValueRef` as a destination is left
  out. `ValueEvents` has one object of a number and a collection; `careful` users keep
  one wrapper of a value, and `ElementsStayPut` and `ChangesAreTold` say which part of
  what they claim needs it. `HasChildren` stands for the `MY_DEBUG_FATAL` of
  `native_collection.h:78`, `93` and `111`, which is compiled out without debug asserts, as a
  guard in every build: `ElementsStayPut` leans on it, and a build without the asserts
  moves elements that are held. Handlers that enter a notification again are not modelled.
* `DebugSession`: what a session that has ended leaves running is not followed.
* `LuaValues`: numbers are integers that a double holds, wider integers, and fractions;
  `ScalarsRoundTrip` claims the first only.
* `LuaDebugger`: of a stop at a line `StopsAreAskedFor` asks only that a breakpoint is
  somewhere, since the code does not stop at the one it finds (section 6); one pause that made
  variables is followed.
* `Services`: who has an interface can give it, and the owner of a logger adds its sinks
  alone.
* `Properties`: a file is a dictionary to merge. `LuaRealm`: a script is the list of what
  it requires, and one may end without a result.

## 6. What the models found

With a run of their own:

* `core_task_use_after_free`: `setContinuation` publishes the continuation and then
  reads the task, which the continuation may have freed by then
  (`core_task_impl.cpp:267`, against the comment at 357-360).
* `kernel_runtime_hang`: the forced completion never ends when what is still referenced
  is the runtime's own executor (`kernel_runtime_impl.cpp:284`).
* `cancellation_recursive`: a `cancel()` during the first `Subscribe` of an expiration
  makes the subscriber wait for its own spin lock (`cancellation.cpp:272`).
* `weak_acquire`: `tryAddRef` stores a counter it has read again, so that a Ptr copied or
  released in between is lost or counted twice (`rtti_impl.cpp:31`, against `:17`).

As a property that is stated in a module and does not hold (no run lists it; the property
that a run does check leaves this case out):

| module, property | what breaks it |
|---|---|
| `WorkQueue.StopEndsTheLoop` | `poll(std::nullopt)` forgets a `notify()` that comes before its first `takeInvocations` (`work_queue.cpp:147`) |
| `KernelRuntime.ExecutorIsThere` | the shutdown is completed, and the executor reset, while `shutdown()` is about to use it (`kernel_runtime_impl.cpp:168`) |
| `Application.ServicesReadyAsserted` | the runtime is down before the services' task is done (`application_impl.cpp:162`) |
| `TaskGroup.ReturnsClean` | `whenAny` returns and its callbacks are still on tasks (comment at `task.cpp:180-187`) |
| `Waiting.EveryoneLeaves` | the last to enter notifies without the mutex (`barrier.cpp:23`) |
| `Coroutines.AwaiterIsThere` | an expiration that comes while its awaiter subscribes resumes the coroutine; the subscription is then assigned to an awaiter that is gone (`task.cpp:441`) |
| `Coroutines.TasksAreFinished` | an error destroys a frame that holds a task which is not finished, against the assertion of `~TaskBase` (`task_base.h:260`) |
| `Timers.ShutdownCallsBack` | a pending timer is dropped at the shutdown (comment at `win32_timer_manager.cpp:82-88`) |
| `StreamSocket.ReadsEnd` | a refused read takes the task source with it (`stream_socket.cpp:188`, `80`) |
| `StreamSocket.NobodyWaitsAtClosed` | closing runs `doAccept` without the mutex (`listener.cpp:39`, comment at `:124`): an `accept()` that overtakes it waits for ever |
| `Memory.SpaceIsUsable` | a request that fails leaves `m_allocOffset` advanced (`host_virtual_memory.cpp:33`) |
| `Metadata.MostDerivedWins` | an attribute of a base hides that of the class (`attribute.h:229`) |
| `Logger.EntriesFindLogger` | an entry looks at `m_logger`, the logger is destroyed, and the entry calls it (`log_sink_entry.cpp:18`) |
| `DebugSession.AnyRequestAnswered` | a request that arrives in pieces, or behind another in one read, is not answered; nor is Pause |
| `LuaRealm.LoadedOnce` | `require` keeps modules under an undefined name (`lua_realm.cpp:143`; the test is under `#if 0`): a module is run at every `require` |

Met while modelling, without a property:

* *Async.* `join()` clears `m_isActive` without the mutex; a worker between its look and
  its wait sleeps on, and `join()` with it. What is queued when the pool is destroyed is
  never run. An expiration that expires between `cancellation.cpp:177` and `:248` takes
  its first waiter in and installs nothing: that callback is lost. A late callback runs
  under the mutex of the cancellation (`:60`). `resolve` settles a `MultiTaskSource` before
  it locks it (`multi_task_source.h:95-103`): renewed in between, the awaiters of the new
  generation get the old one's error, or data of a task that has none yet; reset in between,
  the settler uses a task that is freed. `AwaitersAreAnswered` says that there is no other way
  to either.
* *Runtime.* `kernel_runtime_impl.cpp:238` increments a pointer where a counter was
  meant. Two concurrent calls of `shutdown()` (`:152`) would both pass its check.
* *Services and modules.* With a chain a, b, c, d of services, each depending on the next,
  and b without `IServiceShutdown`, c is shut down before a, against the comment at
  `service_provider_impl.cpp:206`. The comparator given to `list::sort` is not a strict
  weak order; the listing makes it come out right all the same. A rejected shutdown of a
  dependent service ends `shutdownServices` and nothing is disposed; an independent one
  that fails to initialise goes unnoticed. A module that fails in `PostInit` has the
  modules before it shut down, those after it never, and the application becomes active.
  Lazy services that need each other in a circle deadlock; `findClass` aborts when several
  classes fit.
* *Memory.* An object of an outer scope of the runtime stack that allocates inside an inner
  one dangles afterwards; allocations of no bytes share an address. Assigning a
  `ReadOnlyBuffer` to itself loses its content (`buffer.cpp:487-496`).
* *Network.* `write()` answers success after an error (`stream_socket.cpp:254`). A port above
  65535 is truncated; `AddressIterator` ends one element late and its `operator++(int)`
  does not advance.
* *Files.* The priority of a mount is ignored (`virtual_file_system.h` says the highest is
  used); what is mounted at "/" is never found; a listing ends at a mounted system whose
  directory is empty; one file system mounted twice makes a listing endless;
  `resolveToNativePath` looks at the first mount only. The normal form of a path is not a
  fixed point ("a /"); `replace_extension` of ".n" makes a name without an extension. A
  native `openFile` returns a file that is not open; `create_file` with Read|Write asks for
  reading only; `createStream` of a file open for writing is refused by its own sharing;
  `copyFromStream` writes what it has not read (`stream.cpp:42-70`); `copyStream` ends at a
  short read.
* *Logger.* A message that a sink logs is put into `s_pendingMessages`, which nothing reads
  in the code that is compiled: it is never given to anybody. `addSink` takes no lock, so
  that two at once may lose one; an entry given back from within a sink waits for its own
  thread.
* *Metadata.* `assignArgumentValues` reads past the end of the arguments
  (`class_descriptor_builder.h:152-166`); a static method returns nothing;
  `makeFunctionalDispatchWrapper` drops the result.
* *Values.* A JSON document written without nulls keeps an optional of its target at the next
  application. An integer too wide is truncated, text that is no number becomes 0, an
  optional of an optional loses a level; a failed assignment leaves what was assigned so
  far. `setAt` of a vector or a list tells nobody above it, `setValue` of an object tells
  them twice; appending to a list does not look whether an element is held; resetting an
  optional does not either. A handler that (un)subscribes while it is called invalidates
  the iteration; the last child that outlives its parent's wrapper uses its guard.
* *Properties.* Using a lock object twice, or a resolver that asks the container, waits for
  itself; a variable that leads to itself does not return; a text whose variables
  expand to nothing stays as it was; a failed `set` leaves the dictionaries it made;
  merging a configuration twice doubles its arrays; the check for a missing file can not
  fail (`property_container_impl.cpp:306`).
* *Debug adapter and Lua.* A breakpoint that is found for a line does not stop, and one that
  is not is read behind the end of the list (`lua_debuggee_impl.cpp:388-391`). `disconnect()` is not called at the end of a session,
  `requestPause` is empty, `setFunctionBreakpoints` answers nothing. Expanding variables
  leaves values on the Lua stack, which nobody checks for room. A fraction goes back to
  Lua as an integer, `unref` gives nothing back, and the root of a second thread on one
  state replaces the table of the first.

## 7. Not modelled, and why

* *No build contains it* (`#if 0` or not listed in a CMake file): zip archives, containers,
  asset packs, `BufferView`, `loadModule`, the old log sinks.
* *Nothing but text or arithmetic*: parsing of addresses, formatting, math over floats,
  string functions, the enums and structures of `dap.h`, compile-time parts of the
  reflection (`class_info.h` beyond the bases, methods and attributes).
* *Pure input and output on Win32*: the platform application, memory mapping, the debugger's
  output; of libuv, Lua, jsoncpp and the system's timers only how the code uses them.
* *Left out of modelled parts*: `setContinueOnCapturedExecutor` and the list of live tasks
  in `CoreTask`; casts between interfaces and the
  placement of the storage in `RefCount`; alignment and debug tracking of `Memory`; the
  proxies of a service's initialisation; classes and methods exported to Lua;
  conversion and calls of `Metadata`'s methods; the window's modules.
* *Vendored code.*

No property says what should become of the application when an independent service fails
to initialise (`service_provider_impl.cpp:445`), since the repository does not: both
outcomes of its task are in the model.

## 8. What is left

In the order of importance, all of it safety that TLC checks and no theorem states: `Logger`;
the storages of `Buffers`;
`Files`, `Streams`, `Services` and `DebugSession`; then a model of the classes exported to Lua.
