--------------------------- MODULE ProfilerThread ---------------------------
(***************************************************************************)
(* tools/profiler: the threads of the profiler that are known by a name.   *)
(* profiler_thread.cc keeps the registry of them and posts tasks through   *)
(* it, with a lock or without; profiler_process.cc starts, replaces and    *)
(* stops them from the UI thread; base/threading/thread.cc is the thread.  *)
(* (tools/profiler_dll has a copy of the first two.)                       *)
(*                                                                         *)
(* A ProfilerThread object stands also for the operating system's thread   *)
(* it starts and for that thread's MessageLoop, which has one queue here:  *)
(* the module MessageLoop says what is in it.                              *)
(***************************************************************************)
EXTENDS Integers, Sequences, Functions

CONSTANTS
  Objects,      \* ProfilerThread objects that can be created
  Main,         \* the one that stands for the UI thread
  Others,       \* threads that have no MessageLoop
  Tasks,        \* closures that can be posted, each at most once
  NoObject, NoTask, Free,
  Quit,         \* the closure of ThreadQuitHelper()
  ID_COUNT,
  Created,      \* identifiers of the threads that CreateChildThreads() creates
  Replaced,     \* those that the UI thread may stop and create anew
  StartFails,   \* whether the operating system may refuse a thread
  MaxPasses     \* passes of the destructor of a MessageLoop over its queue

Ids == 0 .. ID_COUNT - 1
UI == 0

ASSUME ObjectAssumption ==
  /\ Main \in Objects
  /\ Objects \cap Others = {}
  /\ NoObject \notin Objects \cup Others
  /\ Free \notin Objects \cup Others
  /\ Quit \notin Tasks /\ NoTask \notin Tasks

\* No thread that outlives a thread that is replaced is created, but by the
\* order of the identifiers: DB is the last one that the profiler creates.
ASSUME IdAssumption ==
  /\ ID_COUNT \in Nat \ {0}
  /\ Created \subseteq Ids \ {UI}
  /\ Replaced \subseteq Created
  /\ \A i \in Replaced, j \in Created : j <= i
  /\ StartFails \in BOOLEAN
  /\ MaxPasses \in Nat \ {0}

Threads == Objects \cup Others

VARIABLES
  lock_,               \* its owner, or Free
  profiler_threads_,
  \* fields of a ProfilerThread
  life, identifier_,
  message_loop_,       \* Thread::message_loop_ is not NULL
  \* its thread
  at, queue, quitting, task,
  \* the destructor of its loop
  taken,               \* tasks of the queue that it has reloaded and not deleted yet
  passes,
  \* the UI thread
  phase,
  created_, thread_,   \* created_io_thread_ and io_thread_, and so on
  doing, subject,      \* progress of the construction or destruction of an object
  \* PostTaskHelper() in every thread
  stage, closure, target,
  index,               \* of the loop in GetCurrentThreadIdentifier()
  found,               \* the object read by it, then message_loop's object
  \* History, read by the properties only (outcome also says which tasks are
  \* still to be posted):
  outcome,             \* what became of each task
  late,                \* tasks accepted by a loop that had looked last for some to run,
  missed               \* or even for some to delete

registryVars == <<lock_, profiler_threads_, life, identifier_, message_loop_>>
loopVars     == <<at, queue, quitting, task, taken, passes>>
uiVars       == <<phase, created_, thread_, doing, subject>>
postVars     == <<stage, closure, target, index, found>>
historyVars  == <<outcome, late, missed>>
vars == <<registryVars, loopVars, uiVars, postVars, historyVars>>

Init ==
  /\ lock_ = Free
  /\ profiler_threads_ = [i \in Ids |-> IF i = UI THEN Main ELSE NoObject]
  /\ life = [o \in Objects |-> IF o = Main THEN "alive" ELSE "unborn"]
  /\ identifier_ = [o \in Objects |-> UI]
  /\ message_loop_ = [o \in Objects |-> o = Main]
  /\ at = [o \in Objects |-> IF o = Main THEN "loop" ELSE "none"]
  /\ queue = [o \in Objects |-> <<>>]
  /\ quitting = [o \in Objects |-> FALSE]
  /\ task = [o \in Objects |-> NoTask]
  /\ taken = [o \in Objects |-> 0]
  /\ passes = [o \in Objects |-> 0]
  /\ phase = "setup"
  /\ created_ = [i \in Ids |-> FALSE]
  /\ thread_ = [i \in Ids |-> NoObject]
  /\ doing = "nothing" /\ subject = NoObject
  /\ stage = [p \in Threads |-> "idle"]
  /\ closure = [p \in Threads |-> NoTask]
  /\ target = [p \in Threads |-> UI]
  /\ index = [p \in Threads |-> 0]
  /\ found = [p \in Threads |-> NoObject]
  /\ outcome = [t \in Tasks |-> "new"]
  /\ late = {} /\ missed = {}
-----------------------------------------------------------------------------
\* Posting, by any thread: PostTaskHelper().

\* A thread posts from a task it runs, or from one that its loop's destructor
\* deletes; the UI thread also from what its windows call.
MayPost(p) ==
  /\ stage[p] = "idle"
  /\ \/ p \in Others
     \/ p \in Objects /\ at[p] = "deleting"
     \/ p \in Objects \ {Main} /\ at[p] = "task"
     \/ p = Main /\ phase = "run"

PostTask(p, i, t) ==
  /\ MayPost(p)
  /\ outcome[t] = "new"
  /\ stage' = [stage EXCEPT ![p] = "scan"]
  /\ closure' = [closure EXCEPT ![p] = t]
  /\ target' = [target EXCEPT ![p] = i]
  /\ index' = [index EXCEPT ![p] = 0]
  /\ outcome' = [outcome EXCEPT ![t] = "posting"]
  /\ UNCHANGED <<found, late, missed>>
  /\ UNCHANGED <<registryVars, loopVars, uiVars>>

\* What a step of posting leaves alone.
unchangedByPost == <<life, identifier_, message_loop_, at, quitting, task, taken, passes,
                     uiVars, closure, target>>

\* Mutant: the loop runs once too often.
NextPast(p) ==
  /\ index' = [index EXCEPT ![p] = @ + 1]
  /\ stage' = [stage EXCEPT ![p] = IF index[p] < ID_COUNT THEN "scan" ELSE "acquire"]

\* GetCurrentThreadIdentifier() goes on to the next identifier, or has found none.
NextIdentifier(p) ==
  /\ index' = [index EXCEPT ![p] = @ + 1]
  /\ stage' = [stage EXCEPT ![p] = IF index[p] + 1 < ID_COUNT THEN "scan" ELSE "acquire"]

\* It reads profiler_threads_[i], without the lock,
Scan(p) ==
  /\ stage[p] = "scan"
  /\ found' = [found EXCEPT ![p] = profiler_threads_[index[p]]]
  /\ IF profiler_threads_[index[p]] = NoObject
     THEN NextIdentifier(p)
     ELSE stage' = [stage EXCEPT ![p] = "compare"] /\ UNCHANGED index
  /\ UNCHANGED <<lock_, profiler_threads_, queue, historyVars>>
  /\ UNCHANGED unchangedByPost

\* message_loop() == MessageLoop::current() for an object of the registry: both are
\* NULL when the one has no loop now and the other never has.
SameLoop(p, o) == IF message_loop_[o] THEN p = o ELSE p \in Others

\* Mutants: the order of the identifiers is turned round; or not looked at.
OutlivedBy(current, identifier) == current <= identifier
OutlivesAll(current, identifier) == TRUE

\* guaranteed_to_outlive_target_thread
Outlives(current, identifier) == current >= identifier

\* and then that object's message_loop(). An object that was deleted meanwhile
\* may have any content.
Compare(p) ==
  /\ stage[p] = "compare"
  /\ \/ /\ SameLoop(p, found[p]) \/ (life[found[p]] = "deleted" /\ p \in Others)
        /\ stage' = [stage EXCEPT ![p] = IF Outlives(index[p], target[p]) THEN "read"
                                                                          ELSE "acquire"]
        /\ UNCHANGED index
     \/ /\ ~SameLoop(p, found[p]) \/ life[found[p]] = "deleted"
        /\ NextIdentifier(p)
  /\ UNCHANGED <<lock_, profiler_threads_, queue, found, historyVars>>
  /\ UNCHANGED unchangedByPost

Acquire(p) ==
  /\ stage[p] = "acquire"
  /\ lock_ = Free
  /\ lock_' = p
  /\ stage' = [stage EXCEPT ![p] = "read"]
  /\ UNCHANGED <<profiler_threads_, queue, index, found, historyVars>>
  /\ UNCHANGED unchangedByPost

HasLoop(o) == o # NoObject /\ message_loop_[o]

\* message_loop = profiler_threads_[identifier] ? ...->message_loop() : NULL
ReadLoop(p) ==
  /\ stage[p] = "read"
  /\ HasLoop(profiler_threads_[target[p]])
  /\ found' = [found EXCEPT ![p] = profiler_threads_[target[p]]]
  /\ stage' = [stage EXCEPT ![p] = "post"]
  /\ UNCHANGED <<lock_, profiler_threads_, queue, index, historyVars>>
  /\ UNCHANGED unchangedByPost

\* lock_.Release(), if this thread has it, and return.
Return(p) ==
  /\ stage' = [stage EXCEPT ![p] = "idle"]
  /\ lock_' = IF lock_ = p THEN Free ELSE lock_

ReadNull(p) ==
  /\ stage[p] = "read"
  /\ ~HasLoop(profiler_threads_[target[p]])
  /\ outcome' = [outcome EXCEPT ![closure[p]] = "refused"]
  /\ Return(p)
  /\ UNCHANGED <<profiler_threads_, queue, index, found, late, missed>>
  /\ UNCHANGED unchangedByPost

\* The loop of o looks for no more tasks to run, and its destructor for none to delete.
RunsNoMore(o) == at[o] \in {"idle", "left", "cleared", "deleting", "emptied"}
DeletesNoMore(o) ==
  at[o] = "emptied" \/ (at[o] \in {"cleared", "deleting"} /\ passes[o] = MaxPasses)

\* message_loop->PostDelayedTask(). A loop that does not exist any more takes the
\* task nowhere.
Post(p) ==
  LET o == found[p]  t == closure[p] IN
  /\ stage[p] = "post"
  /\ \/ /\ at[o] # "exited"
        /\ queue' = [queue EXCEPT ![o] = Append(@, t)]
        /\ outcome' = [outcome EXCEPT ![t] = "accepted"]
        /\ late' = IF RunsNoMore(o) THEN late \cup {t} ELSE late
        /\ missed' = IF DeletesNoMore(o) THEN missed \cup {t} ELSE missed
     \/ /\ at[o] = "exited"
        /\ outcome' = [outcome EXCEPT ![t] = "lost"]
        /\ UNCHANGED <<queue, late, missed>>
  /\ Return(p)
  /\ UNCHANGED <<profiler_threads_, index, found>>
  /\ UNCHANGED unchangedByPost

Posting(p) ==
  \/ Scan(p) \/ Compare(p) \/ Acquire(p) \/ ReadLoop(p) \/ ReadNull(p) \/ Post(p)
-----------------------------------------------------------------------------
\* The thread of an object: Thread::ThreadMain() and its MessageLoop.

unchangedByThread == <<lock_, profiler_threads_, life, identifier_, uiVars, postVars,
                       late, missed>>

\* It sets message_loop_ and signals the UI thread that waits for it.
Enter(o) ==
  /\ at[o] = "entry"
  /\ message_loop_' = [message_loop_ EXCEPT ![o] = TRUE]
  /\ at' = [at EXCEPT ![o] = "loop"]
  /\ UNCHANGED <<queue, quitting, task, taken, passes, outcome>>
  /\ UNCHANGED unchangedByThread

\* The loop of o can take its next task. The UI thread's must not be starting,
\* replacing or stopping a thread.
Ready(o) == at[o] = "loop" /\ (o = Main => phase = "run" /\ stage[o] = "idle")

RunTask(o) ==
  /\ Ready(o)
  /\ queue[o] # <<>> /\ Head(queue[o]) # Quit
  /\ task' = [task EXCEPT ![o] = Head(queue[o])]
  /\ queue' = [queue EXCEPT ![o] = Tail(@)]
  /\ at' = [at EXCEPT ![o] = "task"]
  /\ outcome' = [outcome EXCEPT ![Head(queue[o])] = "running"]
  /\ UNCHANGED <<message_loop_, quitting, taken, passes>>
  /\ UNCHANGED unchangedByThread

EndTask(o) ==
  /\ at[o] = "task" /\ stage[o] = "idle" /\ (o = Main => phase = "run")
  /\ task' = [task EXCEPT ![o] = NoTask]
  /\ at' = [at EXCEPT ![o] = "loop"]
  /\ outcome' = [outcome EXCEPT ![task[o]] = "done"]
  /\ UNCHANGED <<message_loop_, queue, quitting, taken, passes>>
  /\ UNCHANGED unchangedByThread

\* ThreadQuitHelper() calls QuitWhenIdle().
QuitWhenIdle(o) ==
  /\ Ready(o)
  /\ queue[o] # <<>> /\ Head(queue[o]) = Quit
  /\ quitting' = [quitting EXCEPT ![o] = TRUE]
  /\ queue' = [queue EXCEPT ![o] = Tail(@)]
  /\ UNCHANGED <<message_loop_, at, task, taken, passes, outcome>>
  /\ UNCHANGED unchangedByThread

\* Mutant: the loop quits at once.
QuitsNow(o) == quitting[o]

\* DoWork() finds nothing in the incoming queue any more.
Quits(o) == quitting[o] /\ queue[o] = <<>>

\* DoIdleWork(), which follows, will quit the pump,
Idle(o) ==
  /\ Ready(o) /\ Quits(o)
  /\ at' = [at EXCEPT ![o] = "idle"]
  /\ UNCHANGED <<message_loop_, queue, quitting, task, taken, passes, outcome>>
  /\ UNCHANGED unchangedByThread

\* and Run() returns, whatever was posted meanwhile.
Leave(o) ==
  /\ at[o] = "idle"
  /\ at' = [at EXCEPT ![o] = "left"]
  /\ UNCHANGED <<message_loop_, queue, quitting, task, taken, passes, outcome>>
  /\ UNCHANGED unchangedByThread

\* message_loop_ = NULL, without a lock,
Clear(o) ==
  /\ o # Main /\ at[o] = "left"
  /\ message_loop_' = [message_loop_ EXCEPT ![o] = FALSE]
  /\ at' = [at EXCEPT ![o] = "cleared"]
  /\ UNCHANGED <<queue, quitting, task, taken, passes, outcome>>
  /\ UNCHANGED unchangedByThread

\* and the MessageLoop is destroyed, with the tasks that are left in it, one by one.
DeleteTask(o) ==
  /\ at[o] = "cleared" /\ taken[o] \in 1 .. Len(queue[o])
  /\ queue' = [queue EXCEPT ![o] = Tail(@)]
  /\ taken' = [taken EXCEPT ![o] = @ - 1]
  /\ at' = [at EXCEPT ![o] = "deleting"]
  /\ outcome' = [outcome EXCEPT ![Head(queue[o])] = "deleted"]
  /\ UNCHANGED <<message_loop_, quitting, task, passes>>
  /\ UNCHANGED unchangedByThread

Deleted(o) ==
  /\ at[o] = "deleting" /\ stage[o] = "idle"
  /\ at' = [at EXCEPT ![o] = "cleared"]
  /\ UNCHANGED <<message_loop_, queue, quitting, task, taken, passes, outcome>>
  /\ UNCHANGED unchangedByThread

\* Mutant: the destructor does not delete what it reloads.
StopsReloading(o) == "emptied"

\* A pass ends them when it finds nothing.
AfterReload(o) == IF queue[o] = <<>> THEN "emptied" ELSE "cleared"

\* When these are deleted, it looks in the incoming queue again,
Reload(o) ==
  /\ at[o] = "cleared" /\ taken[o] = 0
  /\ passes[o] < MaxPasses
  /\ passes' = [passes EXCEPT ![o] = @ + 1]
  /\ taken' = [taken EXCEPT ![o] = Len(queue[o])]
  /\ at' = [at EXCEPT ![o] = AfterReload(o)]
  /\ UNCHANGED <<message_loop_, queue, quitting, task, outcome>>
  /\ UNCHANGED unchangedByThread

\* and after the last pass disconnects it without a look.
Exit(o) ==
  /\ at[o] = "emptied" \/ (at[o] = "cleared" /\ taken[o] = 0 /\ passes[o] = MaxPasses)
  /\ at' = [at EXCEPT ![o] = "exited"]
  /\ UNCHANGED <<message_loop_, queue, quitting, task, taken, passes, outcome>>
  /\ UNCHANGED unchangedByThread

ThreadMain(o) ==
  \/ Enter(o) \/ RunTask(o) \/ EndTask(o) \/ QuitWhenIdle(o) \/ Idle(o) \/ Leave(o)
  \/ Clear(o) \/ DeleteTask(o) \/ Deleted(o) \/ Reload(o) \/ Exit(o)
-----------------------------------------------------------------------------
\* The UI thread: ProfilerMain() and ProfilerProcess.

unchangedByMain == <<message_loop_, quitting, task, passes, postVars, historyVars>>

\* Mutant: the registry is written without the lock.
AutoLockMissing == TRUE

\* A section of this thread under lock_, which is one step here.
AutoLock == lock_ = Free

\* Mutant: the object leaves the registry before its thread is stopped.
UnregistersFirst ==
  [begin |-> "unregister", unregister |-> "stop", stop |-> "join", join |-> "free"]

\* ~ProfilerThread() stops and joins the thread before the object leaves the registry.
StepAfter == [begin |-> "stop", stop |-> "join", join |-> "unregister",
              unregister |-> "free"]

\* Of the threads that are to be created, the one whose turn it is.
NextCreated(i) ==
  /\ i \in Created /\ ~created_[i]
  /\ \A j \in Created : ~created_[j] => i <= j

\* CreateIoThread() and its like: the constructor registers the object,
CreateThread(i, o) ==
  /\ phase \in {"setup", "reset"} /\ doing = "nothing"
  /\ NextCreated(i)
  /\ life[o] = "unborn"
  /\ AutoLock
  /\ created_' = [created_ EXCEPT ![i] = TRUE]
  /\ life' = [life EXCEPT ![o] = "alive"]
  /\ identifier_' = [identifier_ EXCEPT ![o] = i]
  /\ profiler_threads_' = [profiler_threads_ EXCEPT ![i] = o]
  /\ doing' = "start" /\ subject' = o
  /\ UNCHANGED <<lock_, at, queue, phase, thread_>>
  /\ UNCHANGED <<taken, unchangedByMain>>

\* StartWithOptions() starts the thread, or fails and the object is destroyed,
StartThread ==
  /\ doing = "start"
  /\ \/ doing' = "wait" /\ at' = [at EXCEPT ![subject] = "entry"]
     \/ StartFails /\ doing' = "unregister" /\ UNCHANGED at
  /\ UNCHANGED <<lock_, profiler_threads_, life, identifier_, queue, phase, created_,
                 thread_, subject>>
  /\ UNCHANGED <<taken, unchangedByMain>>

\* and returns when the thread has entered its loop.
Started ==
  /\ doing = "wait" /\ at[subject] # "entry"
  /\ thread_' = [thread_ EXCEPT ![identifier_[subject]] = subject]
  /\ doing' = "nothing" /\ subject' = NoObject
  /\ UNCHANGED <<lock_, profiler_threads_, life, identifier_, at, queue, phase, created_>>
  /\ UNCHANGED <<taken, unchangedByMain>>

\* CreateChildThreads() or reset_dbthread() is done.
RunUIMessageLoop ==
  /\ phase \in {"setup", "reset"} /\ doing = "nothing"
  /\ \A i \in Created : created_[i]
  /\ phase' = "run"
  /\ UNCHANGED <<lock_, profiler_threads_, life, identifier_, at, queue, created_,
                 thread_, doing, subject>>
  /\ UNCHANGED <<taken, unchangedByMain>>

\* reset_dbthread(). (created_db_thread_, which only this thread reads, is cleared
\* after the object is destroyed.) The bound on Objects bounds the calls.
ResetThread(i) ==
  /\ phase = "run" /\ stage[Main] = "idle"
  /\ i \in Replaced
  /\ \E o \in Objects : life[o] = "unborn"
  /\ phase' = "reset"
  /\ created_' = [created_ EXCEPT ![i] = FALSE]
  /\ subject' = thread_[i]
  /\ doing' = IF thread_[i] = NoObject THEN "nothing" ELSE StepAfter.begin
  /\ UNCHANGED <<lock_, profiler_threads_, life, identifier_, at, queue, thread_>>
  /\ UNCHANGED <<taken, unchangedByMain>>

\* The UI loop has quit, having taken some of its tasks from its incoming queue:
\* delete g_profiler_process.
Shutdown ==
  /\ phase = "run" /\ stage[Main] = "idle" /\ at[Main] = "loop"
  /\ phase' = "shutdown"
  /\ at' = [at EXCEPT ![Main] = "left"]
  /\ \E n \in 0 .. Len(queue[Main]) : taken' = [taken EXCEPT ![Main] = n]
  /\ UNCHANGED <<lock_, profiler_threads_, life, identifier_, queue, created_, thread_,
                 doing, subject>>
  /\ UNCHANGED unchangedByMain

\* Mutant: the threads are stopped in the order of their creation.
StoppedFirst(i) == \A j \in Ids : thread_[j] # NoObject => i <= j

\* ~ProfilerProcess() destroys the threads in the order in which they may die.
StoppedNext(i) == \A j \in Ids : thread_[j] # NoObject => j <= i

\* The next one, or at last main_thread_, whose Stop() does nothing.
DestroyNext ==
  /\ phase = "shutdown" /\ doing = "nothing"
  /\ \/ \E i \in Ids : /\ thread_[i] # NoObject /\ StoppedNext(i)
                       /\ subject' = thread_[i]
        /\ doing' = StepAfter.begin
     \/ /\ \A i \in Ids : thread_[i] = NoObject
        /\ subject' = Main
        /\ doing' = "unregister"
  /\ UNCHANGED <<lock_, profiler_threads_, life, identifier_, at, queue, phase, created_,
                 thread_>>
  /\ UNCHANGED <<taken, unchangedByMain>>

\* ~ProfilerThread(): Stop() posts the task that quits,
StopSoon ==
  /\ doing = "stop"
  /\ queue' = [queue EXCEPT ![subject] = Append(@, Quit)]
  /\ doing' = StepAfter.stop
  /\ UNCHANGED <<lock_, profiler_threads_, life, identifier_, at, phase, created_, thread_,
                 subject>>
  /\ UNCHANGED <<taken, unchangedByMain>>

\* Mutant: the thread is not waited for.
JoinsNever == TRUE
Joins == at[subject] = "exited"

\* waits for the thread,
Join ==
  /\ doing = "join" /\ Joins
  /\ doing' = StepAfter.join
  /\ UNCHANGED <<lock_, profiler_threads_, life, identifier_, at, queue, phase, created_,
                 thread_, subject>>
  /\ UNCHANGED <<taken, unchangedByMain>>

\* and the object is taken from the registry
Unregister ==
  /\ doing = "unregister"
  /\ AutoLock
  /\ profiler_threads_' = [profiler_threads_ EXCEPT ![identifier_[subject]] = NoObject]
  /\ doing' = StepAfter.unregister
  /\ UNCHANGED <<lock_, life, identifier_, at, queue, phase, created_, thread_, subject>>
  /\ UNCHANGED <<taken, unchangedByMain>>

\* and freed. After main_thread_, main_message_loop_ is destroyed.
FreeObject ==
  /\ doing = "free"
  /\ life' = [life EXCEPT ![subject] = "deleted"]
  /\ thread_' = [thread_ EXCEPT ![identifier_[subject]] = NoObject]
  /\ doing' = "nothing" /\ subject' = NoObject
  /\ \/ /\ subject = Main
        /\ phase' = "over"
        /\ at' = [at EXCEPT ![Main] = "cleared"]
     \/ subject # Main /\ UNCHANGED <<phase, at>>
  /\ UNCHANGED <<lock_, profiler_threads_, identifier_, queue, created_>>
  /\ UNCHANGED <<taken, unchangedByMain>>

ProfilerMain ==
  \/ \E i \in Ids, o \in Objects : CreateThread(i, o)
  \/ StartThread \/ Started \/ RunUIMessageLoop
  \/ DestroyNext \/ StopSoon \/ Join \/ Unregister \/ FreeObject
-----------------------------------------------------------------------------
Next ==
  \/ \E p \in Threads : \/ \E i \in Ids, t \in Tasks : PostTask(p, i, t)
                        \/ Posting(p)
  \/ \E o \in Objects : ThreadMain(o)
  \/ ProfilerMain \/ Shutdown
  \/ \E i \in Ids : ResetThread(i)

Spec == Init /\ [][Next]_vars
-----------------------------------------------------------------------------
(***************************************************************************)
(* Properties.                                                             *)
(***************************************************************************)

Stages == {"idle", "scan", "compare", "acquire", "read", "post"}
Outcomes == {"new", "posting", "refused", "accepted", "running", "done", "deleted", "lost"}
Places == {"none", "entry", "loop", "task", "idle", "left", "cleared", "deleting",
           "emptied", "exited"}

RegistryTypes ==
  /\ lock_ \in Threads \cup {Free}
  /\ profiler_threads_ \in [Ids -> Objects \cup {NoObject}]
  /\ life \in [Objects -> {"unborn", "alive", "deleted"}]
  /\ identifier_ \in [Objects -> Ids]
  /\ message_loop_ \in [Objects -> BOOLEAN]
LoopTypes ==
  /\ at \in [Objects -> Places]
  /\ queue \in [Objects -> Seq(Tasks \cup {Quit})]
  /\ quitting \in [Objects -> BOOLEAN]
  /\ task \in [Objects -> Tasks \cup {NoTask}]
  /\ taken \in [Objects -> Nat]
  /\ passes \in [Objects -> 0 .. MaxPasses]
MainTypes ==
  /\ phase \in {"setup", "run", "reset", "shutdown", "over"}
  /\ created_ \in [Ids -> BOOLEAN]
  /\ thread_ \in [Ids -> Objects \cup {NoObject}]
  /\ doing \in {"nothing", "start", "wait", "stop", "join", "unregister", "free"}
  /\ subject \in Objects \cup {NoObject}
PosterTypes ==
  /\ stage \in [Threads -> Stages]
  /\ closure \in [Threads -> Tasks \cup {NoTask}]
  /\ target \in [Threads -> Ids]
  /\ index \in [Threads -> 0 .. ID_COUNT]
  /\ \A p \in Threads : stage[p] \in {"scan", "compare"} => index[p] \in Ids
  /\ found \in [Threads -> Objects \cup {NoObject}]
HistoryTypes ==
  /\ outcome \in [Tasks -> Outcomes]
  /\ late \subseteq Tasks /\ missed \subseteq Tasks

\* The type invariant.
TypeOK == RegistryTypes /\ LoopTypes /\ MainTypes /\ PosterTypes /\ HistoryTypes

\* "If the thread that the task is posted to is guaranteed to outlive the current
\* thread, then no locks are used" (profiler_thread.h): a known thread that posts
\* without the lock uses an object and a loop that exist; and so do the objects among
\* which it looks for itself before it has the lock.
LockFreeSafe ==
  \A p \in Objects :
    /\ stage[p] = "compare" => life[found[p]] = "alive"
    /\ stage[p] = "read" /\ lock_ # p /\ profiler_threads_[target[p]] # NoObject
         => life[profiler_threads_[target[p]]] = "alive"
    /\ stage[p] = "post" /\ lock_ # p
         => life[found[p]] = "alive" /\ at[found[p]] # "exited"

\* "BrowserThreads remove themselves from this array upon destruction"
\* (profiler_thread.h): what the registry holds exists, so that a thread that has
\* the lock does not lose the object it has read.
RegistryAlive ==
  /\ \A i \in Ids : profiler_threads_[i] # NoObject =>
       life[profiler_threads_[i]] = "alive" /\ identifier_[profiler_threads_[i]] = i
  /\ \A p \in Threads : stage[p] = "post" /\ lock_ = p => life[found[p]] = "alive"

CurrentlyOn(p, i) == profiler_threads_[i] # NoObject /\ SameLoop(p, profiler_threads_[i])

\* "If there are pending tasks that run, code that checks that it's on the correct
\* ProfilerThread succeeds" (profiler_thread.cc): until the last task of a thread has
\* run, also while the thread is being stopped, CurrentlyOn() knows it, under the
\* identifier that its tasks were posted to.
TasksSeeTheirThread ==
  \A o \in Objects : at[o] = "task" => CurrentlyOn(o, identifier_[o])

\* "Only one thread can exist with a given identifier at a given time"
\* (profiler_thread.h), though threads are replaced.
OneThreadPerId ==
  \A o, q \in Objects :
    o # q /\ at[o] \notin {"none", "exited"} /\ at[q] \notin {"none", "exited"}
      => identifier_[o] # identifier_[q]

\* "All pending tasks queued on the thread's message loop will run to completion
\* before the thread is terminated" (thread.h), but for those that are posted when the
\* loop has looked for the last time: all others are run before Run() returns.
PendingTasksRun ==
  \A o \in Objects \ {Main} : RunsNoMore(o) => Range(queue[o]) \subseteq late

\* "They return true iff the thread existed and the task was posted"
\* (profiler_thread.h): a task is in one queue, once, when it was accepted and is
\* neither run nor deleted yet, and otherwise in none. That of a loop that was
\* destroyed holds only tasks posted after the destructor had looked last.
TasksConserved ==
  \A t \in Tasks :
    /\ outcome[t] = "accepted" =>
         \E o \in Objects : \E n \in DOMAIN queue[o] : queue[o][n] = t
    /\ \A o, q \in Objects : \A n \in DOMAIN queue[o], m \in DOMAIN queue[q] :
         queue[o][n] = t /\ queue[q][m] = t => outcome[t] = "accepted" /\ o = q /\ n = m
    /\ \A o \in Objects : at[o] = "exited" /\ t \in Range(queue[o]) => t \in missed

\* "It's always safe to call PostTask on any thread. There are no race conditions"
\* (profiler_thread.h): no thread uses an object that was deleted or a loop that was
\* destroyed.
PostTaskSafe ==
  \A p \in Threads :
    /\ stage[p] = "compare" => life[found[p]] # "deleted"
    /\ stage[p] = "post" => at[found[p]] # "exited"
=============================================================================
