# kalpa: the threads, checked and proved

kalpa is a profiler for Windows programs. It starts a program with a DLL inside, the DLL hooks the Windows API and
logs every call to the profiler over a named pipe, and the profiler shows what it gets. The repository holds kalpa's
own code (`tools/profiler`, the program; `tools/profiler_dll`, the DLL; `microbe`, the windows) and the snapshot of
Chromium's libraries it is built on (`base`, `ipc`, `ui`, `skia`, `url`). This directory models, in TLA+, the code
through which threads of that program work together, checks the models with TLC on small instances, and proves what
matters most with TLAPS for instances of every size.

Contents: [inventory](#1-inventory) · [what the models say](#2-modules-and-code) · [runs](#3-runs) ·
[proofs](#4-proofs) · [findings](#5-findings) · [limits](#6-what-is-not-checked) · [plan](#7-plan)

## 1. Inventory

`PROJECT.json` lists every component, also those that are not modelled, with the reason, and every hazard at its line.
These are the parts with logic of their own, and what would make each of them correct.

| Component (code) | State | Operations | Talks to | Hard | Correct when |
|---|---|---|---|---|---|
| **SequencedWorkerPool** (`base/threading/sequenced_worker_pool.cc`) | pending tasks ordered by time and number, current sequence tokens, four counters, the shutdown flag and quota, the cleanup's state, three condition variables | post, work loop, thread creation, flush, shutdown | any thread posts; workers run closures that post again; one thread shuts down | three condition variables under one lock, work done after the lock is released, a signal that is passed from worker to worker | a sequence runs in order and never twice at a time; counters are exact; nothing is lost; shutdown waits for what it must, and returns |
| **MessageLoop, RunLoop, IncomingTaskQueue, MessagePumpDefault** (`base/message_loop`, `base/run_loop.cc`) | incoming queue, work queue, delayed and deferred queues, the stack of run loops, the pump's flag, event and time | post, run, nest, quit in four ways, idle, destroy | any thread posts, the loop's own thread does the rest | a wake-up that only the first post sends; one flag for all loops of the stack; numbers that roll over; destruction while others post | promised order, no task early or lost, no sleep over work, each Run() ends by its own quit |
| **base::Thread** (`base/threading/thread.cc`) | the loop's pointer, start data | start and wait, stop and join, thread function | its owner; its loop | the pointer is cleared and the loop destroyed while others may post | pending tasks run before the thread ends |
| **ProfilerThread** (`tools/profiler/profiler_thread.cc`, a copy in `profiler_dll`) | the registry: one lock, an array of objects by identifier | construct, destroy, PostTaskHelper with or without the lock, CurrentlyOn | every thread of the program posts through it | lock-free posts that rely on the order in which threads die | see `profiler_thread.h`: posting is always safe, one thread per identifier |
| **ProfilerProcess, ProfilerMain** (`tools/profiler/profiler_process.cc`, `profiler_main.cc`) | objects of the IO and DB threads | create, replace DB, destroy in order | owns the ProfilerThreads | replacing a thread while others post to it | threads die in the order their identifiers promise |
| **The log**: ProfilerData, LogClient, LogDaemon (`tools/profiler_dll`, `tools/profiler`), over `ipc/ipc_channel_win.cc` | a cache of messages, an init flag, a channel, a queue of unsent messages; one instance of a pipe | log an action, initialise, send, error, open anew, process end | hooked threads of any program; the UI and IO threads of the DLL and of the profiler | a cache filled by one thread while another empties it for good; a channel that fails at either end; processes that take turns; the end of a process at any step | an action is logged at most once, in its thread's order; it is logged if its process has the pipe and lives; the pipe of a process that is gone is free for the next |
| **ChannelProxy, SyncChannel** (`ipc/`) | a stack of pending sends, queues of received messages, events | send and wait, dispatch while waiting, time out, cancel | listener thread, IO thread, peer | nested sends answered out of order, time-outs that race replies | each Send() gets its own reply or an error; no deadlock between peers |
| **Events and condition variables** (`base/synchronization`) | waiter lists, recycled events | signal, wait, wait for many, time out | every thread | a waiter that times out as it is signalled; lock order | no lost and no stolen wake-up |
| **WorkerPool** (`base/threading/worker_pool_posix.cc`) | queue, idle count | post, work, idle time-out | any thread | an idle thread that was signalled but has not woken is still counted | every task is run |
| **ImportantFileWriter, JsonPrefStore** (`base/files`, `base/prefs`) | a scheduled write, a dirty flag, files | schedule, write, read with errors | file thread, disk | crashes between the steps of a write | a reader finds the old contents or the new |

The rest is not about control: windows (`ui`, `microbe`), graphics (`skia`), addresses (`url`), strings and containers,
wrappers of the Windows API, and the hooks, each of which logs and calls on.

How the modelled parts interact: `ProfilerMain()` creates a ProfilerProcess, which creates ProfilerThreads; each is a
`base::Thread` that runs a MessageLoop; `PostTaskHelper()` finds the loop in the registry and puts the task in its
incoming queue. A hook in the DLL posts to its UI loop, LogClient posts from there to its IO loop, the channel writes to
the pipe, and in the profiler the IO loop posts to the UI loop, where LogDaemon takes the message. The
SequencedWorkerPool stands beside them, with threads of its own. Wherever a module needs another's loop it relies on
what `SequencedTaskRunner` says: each loop is a queue, run in order by one thread.

## 2. Modules and code

| Module | Lines of code it stands for | What it is |
|---|---|---|
| `SequencedTaskRunner` | `sequenced_task_runner.h`, `task_runner.h` | the abstract specification: what is promised of the tasks of one runner |
| `SequencedWorkerPool` | `sequenced_worker_pool.cc`, `.h` | the pool: one action for each section under `lock_`, one for each thing done after the lock is released |
| `SequencedWorkerPoolRunners` | | its refinement: the tasks of each token are a sequenced task runner |
| `MCSequencedWorkerPool` | | the tasks, tokens and delays of the runs |
| `SequencedWorkerPoolProofs` | | its inductive invariants and ten theorems |
| `SequencedWorkerPoolRunnersProofs` | | the proof of its refinement |
| `MessageLoop` | `message_loop.cc`, `incoming_task_queue.cc`, `message_pump_default.cc`, `run_loop.cc`, `pending_task.cc` | one thread's loop, nested loops included, and the posts of others |
| `MessageLoopRunner` | | the loop against the same specification: which it implements but for tasks that a nested loop puts off |
| `MCMessageLoop` | | the delays and the symmetry of its runs |
| `MessageLoopProofs` | | its inductive invariants and eleven theorems |
| `MessageLoopRunnerProofs` | | the proof of that |
| `ProfilerThread` | `profiler_thread.cc`, `profiler_process.cc`, `profiler_main.cc`, `thread.cc` | the registry, its posters, the threads and the UI thread that starts and stops them |
| `MCProfilerThread` | | the symmetry of its runs |
| `ProfilerThreadProofs` | | its inductive invariant and seven theorems |
| `ProfilerLog` | `profiler_dll/profiler_data.cc`, `log_client.cc`, `log_daemon.cc`, `ipc_channel_proxy.cc`, `ipc_channel_win.cc` | the way of an action from a hook to the profiler, over one pipe that profiled processes take turns on |
| `MCProfilerLog` | | the processes of its runs |
| `ProfilerLogProofs` | | its inductive invariant and its theorems |
| `SyncChannel` | `ipc_sync_channel.cc`, `ipc_channel_proxy.cc` | two processes that call each other synchronously |
| `MCSyncChannel` | | the calls of its run |
| `SyncChannelProofs` | | its inductive invariant and its theorems |
| `QueueLemmas` | | lemmas about sequences as queues and stacks, for three of the proof modules |

`PROJECT.json` maps every definition to its lines.

### SequencedWorkerPool

State: the fields of `Inner` under their own names; a condition variable is the set of threads asleep on it; `lock_` is a
variable because parts of `ThreadLoop()` hold it over several actions (a worker that leaves the loop, or returns from
a wait, destroys closures with the lock held). `pc` says where a thread is, `stage` how far its `PostTask()` is:
`PostTaskStamp` (before the lock: the clock), `PostTaskRefuse` or `PostTaskInsert` (under it), `PostTaskStartThread` or
`PostTaskSignal` (after it). A worker goes through `ThreadLoopEnter`, `GetWorkFound` or the branches that find nothing,
`RunSignal`, `RunPurge`, `RunSpawn`, `RunFinish`, `WaitForWork`, `WakeUp`, `TimeOut`, the three branches of
`HandleCleanup()`, and `ExitSignal`. `GetWork()`'s loop over the queue is the pair of sets `Swept` and `Kept` and the task
`Found`: tasks before the point where the loop stops are dropped or passed over.

A closure runs between `RunSpawn` and `RunFinish`, and is destroyed after it; both may post. Token names, tracing,
histograms and the destructor, which joins the threads, are left out.

### MessageLoop

State: the four queues, the pump's three fields, the fields of each RunLoop, and for each running RunLoop `at`, where
its frames are. Posting takes `incoming_queue_lock_` once and is one action, `Post`, of an unnamed thread (or of the
running task). The loop's own thread is `Pump(l)`, cut where it takes that lock, reads the clock, waits, or runs a task:
`DoWork`, `DoDelayedWork`, `DoIdleWork`, `RunTask`, `Wait`, `TimedWait`, `Leave`. A task may nest a RunLoop, allow
nestable tasks, and quit a loop by `Quit()`, `QuitWhenIdle()`, `QuitNow()` or the closure. Sequence numbers are
signed with `SeqModulus` values, and are compared by their difference, as in `pending_task.cc`. The destructor is
`Destructor`: up to `MaxPasses` rounds of deleting and reloading, during which deleted closures and other threads may
post.

### ProfilerThread

State: `lock_` and `profiler_threads_`; for each object its life, its identifier and whether `message_loop()` is NULL;
for each thread `at`, its queue and what it runs; for the UI thread its phase and the object it constructs or destroys;
for each poster the locals of `PostTaskHelper()`. `Scan` and `Compare` are the steps of `GetCurrentThreadIdentifier()`,
one read each because no lock is held; `Acquire`, `ReadLoop`, `ReadNull` and `Post` are the rest. A section under
`AutoLock` in the constructor or the destructor is one step, possible only when no poster holds `lock_`. The destructor
is `StopSoon`, `Join`, `Unregister`, `FreeObject`, in the order that `StepAfter` gives. `ThreadMain()` and its
MessageLoop are reduced to one queue of undelayed tasks, but keep the looks that the code takes at it, because others
post between them: `Enter`, `RunTask`, `EndTask`, `QuitWhenIdle`; `Idle` (the last `ReloadWorkQueue()` of `DoWork()`
finds nothing), `Leave` (`DoIdleWork()` quits the pump, without another look, and `Run()` returns), `Clear`; then the
loop's destructor, `Reload` (a pass begins: the `taken` first tasks are in its work queue), `DeleteTask` and `Deleted`
for each of them, and `Exit` after a pass that found nothing or after `MaxPasses` of them, whatever is in the incoming
queue. `late` and `missed` are the tasks that were accepted after the last look for some to run, and after the last for
some to delete. What is read of a deleted object is any value, and a post to a destroyed loop goes nowhere: the model
goes on after undefined behaviour, and properties say that it is not reached.

### SequencedTaskRunner, and what implements it

The header's guarantees as a state machine: a task is called with, accepted or refused, queued, running, done or deleted.
`Start` is the only action of substance. A task starts when no accepted task that it `Follows` (posted later, delay equal
or higher, and non-nestable or after a nestable one) is still queued, and while others run only if it is nestable and
they call a method that runs tasks. How a task was posted, which tasks call such methods, and which may be deleted are the
environment's. `StartBefore(t, overtaken)` is `Start` with the exception of tasks that `t` may overtake; it is not part of
the promise (`Step` has `Start`, which overtakes none), but lets a module say how far it is from it.

*The pool* implements it once for each token (`Runners`); a task without a token is a runner of its own. A task runs from
`GetWorkFound` until its closure is destroyed; it is deleted from the moment `GetWork()` sweeps it, which only a shutdown
(for tasks that do not block it) or a flush (for tasks that are not due) may cause.

*The loop* is held against it with all its tasks: a task is queued while it is in exactly one of the four queues, once,
so that losing or doubling a task is a step that the abstract specification does not have. It does *not* implement it
(`TaskRunnerImplemented`, run `loop_runner`): a nested loop moves a non-nestable task to the deferred queue, which the
outermost loop looks at only when it is idle, so that a non-nestable task posted later may start first, against the
header's first guarantee and its corollary. What does hold is `InSequenceButPutOff`: each step is one of the abstract
specification, or an `Overtake`, the start of a non-nestable task before others that are all `PutOff`, in the deferred
queue. Nothing else is out of order: not nestable tasks, not a task before those put off that are queued elsewhere, not
the deferred ones among each other. Memory visibility, the header's last two guarantees, is not modelled.

### ProfilerLog

Each thread that has a loop is a queue of tasks: `ui_tasks` and `io_tasks` in a profiled process, `daemon_tasks` in the
profiler. `Report` is `ProfilerData::Action()` up to the test of `g_logclient_init`, `Cache` the section under
`g_cache_lock`. `CreateChannel`, `Flag` and `Drain` are `ProfilerData::Init()`; a process may be there already when the
pipe is taken, and then has no pipe for good (`OnChannelOpened` reports an error, `OnChannelError` drops the channel).
`OnSendMessage`, `ProcessOutgoingMessages` and `PipeBroken` are the client's IO thread; `DaemonOpened`,
`DaemonConnected`, `DaemonRead` and `DaemonReadFails` the profiler's; `DaemonLog` and `DaemonError` are LogDaemon on its
UI thread. `Exit` and `DaemonExit` can come at any step.

The kernel's pipe is external and modelled by what the code asks of it: there is one instance (the argument 1 of
`CreateNamedPipeW()`); `CreateFileW()` takes it if it is free, even before `ConnectNamedPipe()` was called; that call
returns ERROR_IO_PENDING without a client, ERROR_PIPE_CONNECTED with one, and ERROR_NO_DATA with one that has closed its
end; data written before that can still be read. A message that does not fit waits in `output_queue_`.

### SyncChannel

In each process, `stack` is the C++ stack of the listener thread (frames of `Send()` and of handlers), `place` where its
innermost frame is: `push` (before `Push()`), `scan` (in `DispatchMessages()`), `wait` (in `WaitMany()`), `code` (a
handler, which may `Send` or return). The events and queues have the code's names. A call that comes in is queued under
`message_lock_` (`ReceiveCall`) and signalled after it (`SignalDispatch`); the order of reset and scan in `WaitDispatch`
and `LoopDispatch` is the code's. `ReceiveReply` and `DispatchReplies` unblock the innermost `Send()` only.
`OnChannelError`, `SendTimeout` and `ShutdownWatch` signal pending sends without a reply. `Die` is the end of one
process: the other can read what is in the pipe, fails to write, and then finds it broken.

## 3. Runs

A run's properties are named in `PROJECT.json`, with, for each of them, a mutant: a plausible bug in a definition of the
model under which TLC finds the property violated.

| Run | Instance | Shows |
|---|---|---|
| `pool_shutdown` | 2 threads of 3 objects, 2 clients, 4 undelayed tasks: SKIP and BLOCK in one sequence, CONTINUE and BLOCK outside; quota 1; spurious wake-ups; destructors post; a flush | the pool's accounting: counters, threads, exclusion, the cleanup's leader alone; when `Shutdown()` returns; no wake-up is lost; and each sequence is a sequenced task runner, whatever is dropped |
| `pool_live` | 2 threads, 4 tasks outside sequences: three that block the shutdown and a delayed one that does not; a flush, a shutdown; quota 0; fair threads | a flush returns when what it found is finished; no wake-up is lost; no due task waits for ever while a thread sleeps or could be created; `Shutdown()` returns, all workers leave, the flush returns |
| `pool_destructor_posts` | 2 threads, 3 tasks | **finding**: a dropped closure is destroyed with `lock_` held |
| `loop_order` | 3 tasks, nestable or not, delayed or not; 2 nested loops; numbers of 3 bits from just before the roll-over; destruction | the loop is a sequenced task runner but for tasks put off; no early task, no sleep over work, meaning of idle, what the destructor leaves |
| `loop_live` | 2 tasks, one delayed; 3 nested loops | every quit is for its own loop, and none is lost; with fairness, tasks start and loops told to quit return |
| `loop_runner` | 3 undelayed tasks, 2 loops | **finding**: a non-nestable task starts before an earlier one that a nested loop put off |
| `loop_idle` | 3 tasks, 2 loops | **finding**: a nested `RunUntilIdle()` leaves due tasks |
| `thread_posts` | UI, IO, DB, a replacement of DB, a thread without a loop; 2 tasks; the system may refuse a thread; 1 pass of a loop's destructor | the registry holds what exists; posting without the lock is safe for the known threads; what a stopped thread accepted before its loop looked last is run, and knows its thread; no accepted task is lost or doubled, but what comes after the destructor's last look stays |
| `thread_post` | the same without the thread that has no loop; no thread is refused | **finding**: IO, posting to DB under the lock, uses DB's loop after `reset_dbthread()` has stopped DB and the loop is destroyed |
| `log_delivery` | 2 processes of one hooked thread, with 2 and 1 actions; a pipe of 1 message; all processes may exit | the log has each action once, in its thread's order, without gaps but those the cache explains, and process after process; with fairness, actions of a process with a pipe arrive, and the pipe of a client that was noticed is freed |
| `log_stuck` | the same, the profiler stays | **finding**: a client that comes and goes unnoticed blocks the pipe for ever |
| `sync_calls` | 3 calls, two of one side and one of the other, one with a time-out; one side shuts down, the other may die | each `Send()` gets its own reply; none sleeps over a call, a reply or a broken pipe; with fairness, every `Send()` returns |

**Bounds.** The pool's hazards need a worker that runs, one that sleeps or leaves, and a third party: two threads of a
pool and two clients (the third worker object makes "thread creation is refused at `max_threads_`" a state of the
instance). Four tasks are one for each shutdown behaviour and one to follow another in a sequence, with the same delay,
so that only their numbers keep their order. In `pool_live` the quota of tasks posted during the shutdown is 0: what the
quota admits is in `pool_shutdown`. (The theorem has any tokens, delays and quota.) One tick of the clock tells due from
not due. For the loop three tasks are a nestable one, one that is deferred and one that follows; three nested loops are
the least in which a loop in the middle is told to quit (two tasks run the two inner ones); numbers of three bits hold
four pending tasks, as `PendingAssumption` asks, and roll over. The registry needs three identifiers, so that a poster
can outlive, be outlived by or be the target, and one object more than identifiers, so that a thread is replaced. One
pass of its loop's destructor is enough there for one task to be deleted by the pass and another to come after it;
`loop_order` has two. The log needs two processes, so that one can find the pipe taken or come after the other, two
actions of one thread for their order, and a pipe that one message fills. Three calls let two cross and a third nest in
the handler of the second, so that replies arrive for a `Send()` that is not the innermost. `Actions`, `PipeSize`,
`Calls`, `MaxTime`, `MaxFlushes`, `MaxPasses` (100 in the code) and the number of tasks and objects bound the state
spaces; `max_threads_`, `MaxNewBlocking` and `SeqModulus` are parameters of the code. Deadlock is not checked because
all of the systems may stop: when all tasks are posted and done a thread that sleeps is right to sleep. That none sleeps
wrongly is what `NoLostWakeUp`, `WakesForWork`, `NotBlockedInVain` and the liveness properties say.

**Symmetry** is used only in runs of safety properties: workers are alike, as are the tasks and run loops of
`loop_order`, `loop_runner` and `loop_idle` and the objects but Main's of the registry's runs. `pool_live`, whose
properties forbid it, lets workers that are alike be created, and tasks that are alike be posted, in one order only
(`InOrder`): every other behaviour is one of these under other names.

**Fairness.** `FairSpec` of the pool is weak fairness of each thread's steps and of the clock: the operating system
schedules every thread that can run, a sleeper that was signalled is one, and time passes. Sleepers may also wake without
a signal (`SpuriousWakeups`), which `pool_shutdown` has; `pool_live` does not, since a spurious wake-up
might hide that a signal is missing. `FairSpec` says nothing of the end of
tasks; the properties that need it say so (`TasksEnd => ...`): no shutdown can return before its tasks do. It leaves
posting to the clients' will. Weak fairness is enough because a lock held by another thread is only held for sections that
end, and no property relies on who gets the lock next. The loop has one thread, so `WF_vars` of the disjunction of its
steps is what its scheduling gives; it includes that tasks end. In ProfilerLog each thread is fair: the hooked one from
the test of the flag to the cache, the UI threads, the IO threads; a client's IO thread has fairness of its own for
writing, because its loop (`MessagePumpForIO`) serves completed input and output in every round, whatever tasks there are.
Reporting, exiting and the death of the profiler are not fair. In SyncChannel the listener thread is fair, which includes
that a handler returns, and the IO thread is fair to its tasks and to its pipe, for the same reason; sending, timing out,
shutting down and dying are not.

## 4. Proofs

TLAPS proves, for any number of threads, tasks, loops, objects, identifiers, processes and calls that the modules'
assumptions allow, every safety property, every action property, the refinement of the pool and that of the loop but for
`Overtake`, as far as the passing runs check them
(in parentheses: the liveness property of which the theorem is the safety half):

| Theorem | Says | Property of a run |
|---|---|---|
| `SequencedWorkerPoolProofs!TypesHold` | types; no counter and no quota falls below zero | `TypeOK` |
| `SequencesHold` | two tasks of one token are never on two workers | `SequencesExclusive` |
| `CountersHold` | the three counters are exact | `CountersExact` |
| `ThreadsHold` | one thread is created at a time, within `max_threads_`, and is registered | `ThreadsAccounted` |
| `CanShutdownHolds` | `CanShutdown()` stays true once shutdown was called | `CanShutdownStable` |
| `ShutdownHolds` | `Shutdown()` returns with nothing left to wait for | `ShutdownComplete` |
| `FlushHolds` | a flush returns when all that was accepted before it is run or deleted | `FlushDrains` |
| `CleanupAloneHolds` | the leader of a cleanup runs the pending tasks alone | `CleanupRunsAlone` |
| `NothingLost` | an accepted task is queued, with a worker, or swept and not yet destroyed | |
| `NoWakeUpLost` | a task that can run, and whoever sleeps in a shutdown, has someone on the way to it | `NoLostWakeUp` |
| `SequencedWorkerPoolRunnersProofs!RunnersHold` | the tasks of each token are a sequenced task runner | `TaskRunnersImplemented` |
| `MessageLoopProofs!TypeCorrect` | types, with numbers that roll over | `TypeOK` |
| `Soundness`, `Stacked`, `Flagged`, `Watched` | the inductive invariants of the queues, of the stack of loops, of the one quit flag, and of what the pump knows before it sleeps | |
| `Punctual` | no task is run early | `NeverEarly` |
| `CleanShutdown` | the destructor leaves late tasks only | `OnlyLateLeft` |
| `IdleWhenDone` | a loop that quits for being idle has done its work | `IdleMeansIdle` |
| `QuitKept` | no quit is lost | `QuitNotLost` |
| `ReturnsWhenQuit` | `Run()` returns only to a loop that was told to quit | `RunReturnsOnlyWhenQuit` |
| `WakesUp` | the pump does not sleep over work | `WakesForWork` |
| `MessageLoopRunnerProofs!RunsInSequence` | every step of the loop is one of a sequenced task runner, or starts a non-nestable task before others that a nested loop put off | `InSequenceButPutOff` |
| `ProfilerThreadProofs!TypeCorrect` | types | `TypeOK` |
| `RegistryHoldsTheLiving` | registered objects exist, and stay while a poster holds the lock | `RegistryAlive` |
| `LockFreePosting` | posting without the lock uses, and looking for oneself without it reads, what exists | `LockFreeSafe` |
| `IdentifiersAreUnique` | one thread for each identifier | `OneThreadPerId` |
| `TasksKnowTheirThread` | `CurrentlyOn()` is true in every task that runs | `TasksSeeTheirThread` |
| `PendingTasksAreRun` | when the loop of a stopped thread looks for no more tasks to run, none is left that it accepted before | `PendingTasksRun` |
| `NoTaskLost` | an accepted task is in one queue, once, until it is run or deleted; in a destroyed loop only those stay that were accepted after its destructor's last look | `TasksConserved` |
| `ProfilerLogProofs!TypeCorrect` | types | `TypeOK` |
| `Faithful` | each action is logged at most once, in its thread's order, and apart from other processes' | `LogFaithful` |
| `NoActionLost` | while the process has the pipe and the profiler lives, each reported action is in the log, on its way, or in the cache | (`ActionsLogged`) |
| `ErrorReportedOnce` | a channel that closes in the daemon reports one error; meanwhile nobody has the pipe | |
| `PipeReplaced` | only a closed pipe is replaced, by a free one | (`PipeFreedOnceConnected`) |
| `SyncChannelProofs!TypeCorrect` | types; the pending sends are those of the C++ stack | `TypeOK` |
| `OwnReplies` | a `Send()` succeeds with its own reply | `OwnReply` |
| `NoVainBlock` | no `Send()` sleeps over a call, its reply or a broken pipe | `NotBlockedInVain` |

**Assumptions.** The pool: `TaskAssumption` (delayed tasks are SKIP_ON_SHUTDOWN, a DCHECK of `PostTask()`),
`ThreadAssumption`, `BoundAssumption`, and `FiniteAssumption`, because counters count. The loop: `TaskAssumption` and
`PendingAssumption` (there are at most half as many tasks as sequence numbers, which are 2^32 in the code; compared by
their difference, numbers order nothing beyond that). The registry: `ObjectAssumption` and `IdAssumption`, whose one
condition of substance is that no thread is created whose identifier is greater than that of a thread that may be
replaced; in the code, DB is replaced and is the last that is created. TLC evaluates them all. `Flagged`, `QuitKept`,
`ReturnsWhenQuit` and `WakesUp` have one hypothesis more, `~NestAfterQuit`: no task runs a loop after the pump was told
to quit, which is how the runs check those properties too. Without it they are false (see section 5): the new loop
returns at once, because `MessagePumpDefault::Run()` finds `keep_running_` cleared, where it has a DCHECK that it is
set.

**The pool's invariant.** None of the properties is inductive. `CountersExact` needs to know at which points of its loop
a worker has a task and that a task in the queue is on no worker (`Places`); `SequencesExclusive` that
`current_sequences_` are the tokens of the tasks on workers (`Sequences`), since `GetWork()` reads that set and not the
workers. `ThreadsAccounted` needs that whoever is to start a thread is the only one, and that no thread is starting then
(`OneCreation`), within the limit (`ThreadLimit`). `ShutdownComplete` follows from what the thread in `Shutdown()` saw
last, `CanShutdown()` (`ShutdownSeen`), together with the counters and `OneCreation`; that it still holds when the
thread is scheduled is `CanShutdownStable`: a poster is then refused, because no blocking task runs that could post one.
`Times` and `CleanupCounts` keep the clock's and the cleanup's counts in their types. There is one lemma for each part,
with one step for each action, and the counters rest on two lemmas about the cardinality of a set that gains or loses an
element.

**A flush** (`FlushInv`, on top of the above). The leader ends the cleanup when `GetWork()` finds nothing, and
`GetWork()` passes over tasks whose token is in use. That nothing is left needs: the leader is the only worker about,
since the count of idlers it waited for is exact (`Alone`); a token in use is held by a task on some worker, therefore
by none (`TokensHeld`, the converse of `Sequences`); so `GetWork()` passes over nothing (`LeaderDrains`), and a task
that is not queued is on a worker or swept (`Located`), where nobody else is and where the leader has destroyed what it
swept (`Sweeping`). `ShutdownByMain` rules out a shutdown while Main is in the flush.

**No wake-up of the pool is lost** (`WakeInv`, on top of `FlushInv`). The pool wakes one sleeper at a time and outside
the lock, so that a worker may go to sleep, take another task or leave between the change and the signal. `NoLostWakeUp`
has three parts. A task that can run is *attended*: a thread is being created, somebody is about to signal, a worker is
awake and will come to `GetWork()` or to a signal (`Astir`), or sleeps no longer than until the task is due; else
`max_threads_` tasks run. After `Shutdown()`, whoever sleeps on `has_work_cv_` or in `Shutdown()` itself has a worker
before it that has yet to signal. The argument: sleepers are where they say (`Asleep`). `Manned`: while anybody waits, a
runnable task is attended, since each section that makes one runnable ends in a signal or with a worker that comes round
the loop, and whoever goes to sleep sets its alarm for the first task it leaves. `Staffing`: when nobody waits, whatever
kept `PrepareToStartAdditionalThreadIfHelpful()` from starting a thread still stands. For the shutdown, `Entered`: until
the last BLOCK task has been taken a worker is in the loop or about to enter it; so the thread in `Shutdown()` is
watched (`Watched`), and a worker that goes to sleep meanwhile leaves that task to the one that holds its token, which
is awake (`Chain`). Two things are worth knowing. The signal in `ThreadLoop()` after a task was taken is called
"technically not required" (sequenced_worker_pool.cc:738), yet without it a delayed task stays unattended when the
worker that timed it takes another task (`RunNoSignal`, under which TLC refutes `NotUnderserved` in `pool_live`). And
the part about `Shutdown()` has the hypothesis `max_threads_ # 0`, which the code does not check: a pool of no threads
that was given a BLOCK task never shuts down.

**The refinement of the pool.** A step is first described by what it does to the statuses of tasks (`Moves`, proved
action by action in `StepMoves`), then, for one runner, as a step of `SequencedTaskRunner` (`RunnerMoves`). The one
action of substance there is `Start`, whose guard is that no task that must come first is still queued. `NotOvertaken`
gives it: `Found` is the first of the queue by time and number whose token is free, and by `Ranked` an earlier post of
the same sequence with no longer delay has a smaller number and is due no later, because the clock is read before the
lock is taken, in the poster's order; and it cannot be one whose token is in use, since it has the token that is free.
`AloneInSequence`, from `Sequences`, is the other half: nothing else of the sequence runs.

**The loop.** `Sound` says that accepted tasks have numbers in their order modulo `SeqModulus` (`Ordered`), from which
the comparison by difference is an order on the pending ones; that what is about to be run was due (`Timely`); and that
once the destructor runs, no loop does, and the queues it has emptied stay empty (`Dying`). `Stack` describes the C++
stack of loops by the fields that each of them keeps; `Quits` that `keep_running_`, one flag, speaks of the innermost
loop: it is cleared if that one was told to quit, so that an outer loop told to quit meanwhile has its own
`quit_called_` until `AfterRun()` passes it on. `Watching` is the reason why no wake-up is lost: before the pump may
sleep it has looked at each queue, or was signalled since; `delayed_work_time_`, shared by the loops of the stack, is
right for the innermost one from the time when it has looked.

**The order of the loop.** `Orderly` adds which tasks may have others within them (`Allowed`); that the queues are in
the order of posting, and what was taken from one of them was posted before what is still in it (`Fifo`); that due times
agree with that order and the delays (`Times`); that only non-nestable tasks are put off, each behind all that it
follows (`Backlog`); and where a task is, once (`Placed`, `Framed`). A step is described by the queue it takes a task
from (`ReloadMove`, `DelayMove`, `TurnMove`, `IdleMove`, `EndMove`, `DropMove`), and each is mapped to the runner's.

**The registry's invariant.** `LockFreePosting` is the interesting one: nothing in `PostTaskHelper()` keeps the target
alive but a comparison of two numbers. The argument: a thread leaves its loop only when it was told to quit, and only
the destructor tells it (`Stopping`); while an object's thread is being stopped, no thread exists with a greater
identifier (`Stopping`, from the order of `~ProfilerProcess()` or from `IdAssumption`); a poster that skipped the lock
has an identifier no less than its target's (`Posters`) and exists, because a thread does not leave its task while it
posts; so if the target is the one that exits, poster and target have the same identifier and are the same thread
(`Registered`), which runs a task and therefore does not exit. The UI thread is the exception to the order, since it
survives all: `MainThread` says that it posts nothing while it starts or stops others. A thread that looks for itself
has no lock at all: it reads objects up to its own (`Scanners`), which were created in the order of their identifiers
(`Ascending`), and the object that is freed is always the last of those that are left. `Late` is the invariant of
`PendingTasksAreRun`. `NoTaskLost` has an invariant of its own: queues hold accepted tasks, each at one place (`Filed`),
and those that are being posted or run are each one thread's (`Callers`), so that two threads never put one task into
two queues.

**The log.** `LogFaithful` speaks of the end of a line of queues: the cache, the tasks of the client's UI and IO
threads, `output_queue_`, the pipe, the tasks of the daemon's UI thread. The invariant `Flow` says of each queue that it
is in order, after everything downstream of it (`InOrder`, `Orderly`), so that handing the head of one to the tail of
the next keeps it. What is special is the start: until `Init()` sends the cache, nothing is on its way (`Opens`), and
the cache comes before the UI thread's tasks (`Drained`); a message that comes to the cache later is its thread's last
one that was not posted (`Caching`). Nothing that a live process reported is missing upstream (`Complete`), therefore no
gap. `Apart` keeps processes apart: who has the pipe is the last to have written to it. `Complete` also gives
`NoActionLost`: what `ActionsLogged` says will be in the log is at any time in one of the queues before it. `ErrorOnce`,
which follows the one task in which a closed channel reports itself, gives `PipeReplaced`: `LogDaemon::OnChannelError()`
never throws away a pipe that a client has opened, and the pipe it makes can be opened.

**SyncChannel.** `OwnReply` needs that a reply, wherever it is on its way, is to an answered call (`Answered`), and that
the pending sends are the sends of the stack (`Framed`). `NotBlockedInVain` needs `Wakes`: a call in the queue of a
thread that sleeps was signalled or is about to be; a reply that was kept for the innermost `Send()` has a task that
looks for it; on a broken pipe each unsignalled `Send()` has its own message still to be sent. A task that looks for
replies cannot come too early, since a call has no reply before it was pushed (`Journey`).

The parts of an invariant are named, each has a lemma per kind of step, and the step lemma puts them together. Each part
was model-checked on the instances of section 3 before it was proved.

**Only model-checked**: liveness under fairness (`ShutdownReturns`, `WorkersExit`, `FlushReturns`, `NotUnderserved`,
`TasksStart`, `QuitReturns`, `ActionsLogged`, `PipeFreedOnceConnected`, `SendsReturn`), which is beyond the prover like
ENABLED. The invariants above are the safety half of most of them: that nobody sleeps over what it waits for
(`NoLostWakeUp`, `WakesForWork`, `NotBlockedInVain`), and that what is to arrive is on its way (`NoActionLost`,
`PipeReplaced`). The five violated properties of section 5 are false, and have no theorem; `LockFreePosting`,
`RegistryHoldsTheLiving` and `IdleWhenDone` say what holds instead of `PostTaskSafe` and `IdleRunsAllDue`, and
`RunsInSequence` instead of `TaskRunnerImplemented`.

## 5. Findings

Five disagreements of the code with its own comments, each the counterexample of a run; `PROJECT.json` quotes both sides.

1. `pool_destructor_posts`: closures dropped by a shutdown are destroyed under `lock_` when a worker leaves its loop or
   wakes up, though the comments say that this must not happen, since their destructors may post.
2. `loop_idle`: `DoDelayedWork()` reports no work when it has deferred a task, so that a nested `RunUntilIdle()` returns
   with nestable tasks due.
3. `loop_runner`: the tasks that a nested loop defers are run when the outermost loop is idle, after non-nestable tasks
   posted later; `sequenced_task_runner.h` promises the order of posting, without such an exception.
4. `thread_post`: a task of the IO thread posts to the DB thread; it has acquired `lock_` and read DB's `message_loop()`
   when the DB thread, which `reset_dbthread()` has told to quit, destroys its loop without `lock_`; the poster then calls
   `PostDelayedTask()` on the destroyed loop. "There are no race conditions", says `profiler_thread.h`.
5. `log_stuck`: a profiled process that opens the pipe and exits before the profiler's IO thread handles the connection
   makes `ProcessConnection()` return false, which is neither treated as an error nor reported; the pipe's one instance
   stays taken, and no process that starts later can log.

Observed, and not made into runs:

- A second `FlushForTesting()` of the pool may never return (`MaxFlushes = 2`, `FlushReturns`): a worker that is late to
  leave the first cleanup goes to sleep uncounted in the second, whose leader waits for it. A test-only function.
- A task that a thread accepts after the last look of its loop for work (in `DoWork()`, before `DoIdleWork()` quits the
  pump) is not run but deleted, although `thread.h` promises that "all pending tasks queued on the thread's message loop
  will run to completion before the thread is terminated"; and one that comes between the last look of the loop's
  destructor and `incoming_task_queue_->WillDestroyCurrentMessageLoop()` is not even deleted by its passes (`late` and
  `missed`; its closure dies with the IncomingTaskQueue).
- `GetCurrentThreadIdentifier()` reads `profiler_threads_`, and the objects in it, without the lock, while another
  thread may free one. For a known thread `LockFreeSafe` shows that it reads none that is gone; a thread that is
  not in the registry may (`PostTaskSafe` has a part for it).
- A RunLoop that is started by a task after the pump was told to quit returns at once, because `keep_running_` is still
  false (the constant `NestAfterQuit` is FALSE in all runs).
- `CurrentlyOn()` compares NULL with NULL, so that a thread without a MessageLoop is "on" a thread that has not entered
  or has left its loop.
- An action may miss the log though its process lives and has the pipe: its thread has found `g_logclient_init` unset
  and comes to the cache after it was emptied (`Stranded`; one action per thread at most, which is what `LogFaithful`
  says). A process that starts while another has the pipe logs nothing, ever: LogClient opens no second channel.

## 6. What is not checked

- Delayed posts and `DeleteSoon()` through the registry: they take the same path.
- In `SyncChannel` every reply is a success: error replies and replies that cannot be read, for which `Send()` returns
  false (ipc_sync_channel.cc:309-316), are left out; `Unblock` is otherwise the same for them. In `ProfilerLog`,
  `DoAction()` of an action that is logged on the UI thread itself, which needs no post, is left out.
- The memory model: `message_loop_` and the registry are read and written atomically. Where the code races, the model
  interleaves.
- Numbers: `next_sequence_task_number_` and the counters of the pool do not overflow (they count calls in 64 or
  pointer-size bits); the loop's numbers, which do roll over, keep their width.
- The pump of the UI thread is Windows' own; its MessageLoop is modelled with the default pump's protocol, as is the
  queue in ProfilerThread.
- The log's pipe carries whole messages: that a read returns several or a part of one is left out, as are the Hello
  messages.
- `SyncChannel` has two processes, one channel in each, and calls only; `pump_messages_event_`, dispatch groups,
  filters, SyncMessageFilter and the destruction of a channel with sends below are left out. Its peer answers or dies:
  what a shutdown does to a call of a peer that hangs is not claimed (a `Send()` that has tested `shutdown_event_` and
  not yet pushed when the IO thread cancels is not cancelled).
- Everything that the components of `PROJECT.json` list as not modelled, with the reasons given there.

## 7. Plan

What is left, in order of what matters most:

1. The hazards without a property, as far as the models can say something of them: closures swept by one worker and
   destroyed while another runs a later task of the same sequence.
2. Further modules, where they would say something of kalpa: ImportantFileWriter against crashes, iteration of observer
   lists under modification. The condition variables that stand in for Vista's on Windows XP wake spuriously and recycle
   events, and are a candidate too; those of POSIX are not built for Windows.
