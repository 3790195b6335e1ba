------------------------ MODULE SequencedWorkerPool ------------------------
(***************************************************************************)
(* base/threading/sequenced_worker_pool.cc: a pool of worker threads that  *)
(* runs posted tasks, never two of one sequence token at a time, and that  *)
(* is shut down while threads are still posting.                           *)
(*                                                                         *)
(* Every section of code under Inner::lock_ is one action; what the code   *)
(* does after it has released the lock (SignalHasWork, starting a thread,  *)
(* destroying closures, running the task) are actions of their own.  The   *)
(* lock is a variable because three parts of ThreadLoop hold it over       *)
(* several actions.  A condition variable is the set of threads asleep on  *)
(* it.                                                                     *)
(***************************************************************************)
EXTENDS Integers, FiniteSets

CONSTANTS
  Workers,          \* thread objects that can be created (class Worker)
  Clients,          \* threads outside the pool
  Main,             \* the client that flushes the pool and shuts it down
  Tasks,            \* closures that can be posted, each at most once
  NoTask, NoToken, Free,
  TokenOf,          \* sequence token of each task, or NoToken
  BehaviorOf,       \* WorkerShutdown of each task
  DelayOf,          \* delay it is posted with
  max_threads_,
  MaxNewBlocking,   \* argument of Shutdown()
  MaxTime,          \* bound: the clock stops there
  MaxFlushes,       \* bound: calls of CleanupForTesting()
  MayShutdown,      \* whether Main calls Shutdown()
  DestructorsPost,  \* whether destroying a closure may post a task
  SpuriousWakeups   \* whether a wait may return without a signal

Behaviors == {"CONTINUE", "SKIP", "BLOCK"}

ASSUME TaskAssumption ==
  /\ NoTask \notin Tasks
  /\ BehaviorOf \in [Tasks -> Behaviors]
  /\ DelayOf \in [Tasks -> Nat]
  /\ DOMAIN TokenOf = Tasks
  \* DCHECK(delay == TimeDelta() || shutdown_behavior == SKIP_ON_SHUTDOWN)
  /\ \A t \in Tasks : DelayOf[t] = 0 \/ BehaviorOf[t] = "SKIP"

ASSUME ThreadAssumption ==
  /\ Main \in Clients
  /\ Workers \cap Clients = {}
  /\ Free \notin Workers \cup Clients

ASSUME BoundAssumption ==
  /\ max_threads_ \in Nat
  /\ MaxNewBlocking \in Nat
  /\ MaxTime \in Nat
  /\ MaxFlushes \in Nat
  /\ {MayShutdown, DestructorsPost, SpuriousWakeups} \subseteq BOOLEAN

ASSUME FiniteAssumption == IsFiniteSet(Tasks) /\ IsFiniteSet(Workers)

Threads == Workers \cup Clients
Never == MaxTime + 1   \* deadline of an untimed wait

VARIABLES
  lock_,                   \* its owner when held between actions, or Free
  threads_,
  thread_being_created_,
  waiting_thread_count_,
  blocking_shutdown_thread_count_,
  pending_tasks_,
  blocking_shutdown_pending_task_count_,
  next_sequence_task_number_,
  current_sequences_,
  shutdown_called_,
  max_blocking_tasks_after_shutdown_,
  cleanup_state_,
  cleanup_idlers_,
  has_work_cv_, can_shutdown_cv_, cleanup_cv_,   \* threads asleep on each
  now,                     \* TimeTicks::Now()
  time_to_run, sequence_task_number,             \* fields of SequencedTask
  pc,                      \* where each thread is; "out": outside the pool
  task,                    \* local of ThreadLoop: the task being run
  delete_these,            \* local of ThreadLoop: delete_these_outside_lock
  new_thread_id,           \* local of ThreadLoop: a thread is to be started
  deadline,                \* end of a worker's TimedWait
  stage, posting,          \* progress of each thread's PostTask() and its task
  flushes,                 \* calls of CleanupForTesting() so far
  \* History, read by the properties only (outcome also says which tasks are
  \* still to be posted):
  outcome,                 \* what became of each task
  prior,                   \* tasks of its sequence accepted before it was posted
  flush_set                \* tasks that the last flush has to see finished

threadVars   == <<threads_, thread_being_created_>>
countVars    == <<waiting_thread_count_, blocking_shutdown_thread_count_,
                  blocking_shutdown_pending_task_count_>>
queueVars    == <<pending_tasks_, next_sequence_task_number_, time_to_run,
                  sequence_task_number>>
shutdownVars == <<shutdown_called_, max_blocking_tasks_after_shutdown_>>
cleanupVars  == <<cleanup_state_, cleanup_idlers_, flushes, flush_set>>
cvVars       == <<has_work_cv_, can_shutdown_cv_, cleanup_cv_>>
localVars    == <<task, delete_these, new_thread_id, deadline>>
callVars     == <<stage, posting>>
historyVars  == <<outcome, prior>>
innerVars    == <<threadVars, countVars, queueVars, current_sequences_,
                  shutdownVars, cleanupVars>>
vars == <<lock_, innerVars, cvVars, now, pc, localVars, callVars, historyVars>>

CleanupStates == {"REQUESTED", "STARTING", "RUNNING", "FINISHING", "DONE"}
Outcomes == {"new", "posting", "refused", "accepted", "done", "deleted"}
WorkerPcs ==
  {"unborn", "starting", "loop", "getwork", "picked", "purge", "spawn", "run",
   "ran", "waiting", "purgeWake", "purgeExit", "purgeCleanup", "leading",
   "idling", "finishing", "exitSignal", "exitShutdown", "gone"}
ClientPcs == {"out", "shutdown", "down", "flushing"}

Init ==
  /\ lock_ = Free
  /\ threads_ = {}
  /\ thread_being_created_ = FALSE
  /\ waiting_thread_count_ = 0
  /\ blocking_shutdown_thread_count_ = 0
  /\ pending_tasks_ = {}
  /\ blocking_shutdown_pending_task_count_ = 0
  /\ next_sequence_task_number_ = 0
  /\ current_sequences_ = {}
  /\ shutdown_called_ = FALSE
  /\ max_blocking_tasks_after_shutdown_ = 0
  /\ cleanup_state_ = "DONE"
  /\ cleanup_idlers_ = 0
  /\ has_work_cv_ = {} /\ can_shutdown_cv_ = {} /\ cleanup_cv_ = {}
  /\ now = 0
  /\ time_to_run = [t \in Tasks |-> 0]
  /\ sequence_task_number = [t \in Tasks |-> 0]
  /\ pc = [th \in Threads |-> IF th \in Workers THEN "unborn" ELSE "out"]
  /\ task = [w \in Workers |-> NoTask]
  /\ delete_these = [w \in Workers |-> {}]
  /\ new_thread_id = [w \in Workers |-> FALSE]
  /\ deadline = [w \in Workers |-> Never]
  /\ stage = [th \in Threads |-> "idle"]
  /\ posting = [th \in Threads |-> NoTask]
  /\ flushes = 0
  /\ outcome = [t \in Tasks |-> "new"]
  /\ prior = [t \in Tasks |-> {}]
  /\ flush_set = {}

-----------------------------------------------------------------------------
\* The helpers called under the lock.

\* The sets of sleepers that one Signal() of a condition variable can leave.
Signalled(cv) == IF cv = {} THEN {{}} ELSE {cv \ {th} : th \in cv}

\* Mutant: tokens in use are not looked at.
AnyTokenRunnable(t, inUse) == TRUE

IsSequenceTokenRunnable(t, inUse) ==
  TokenOf[t] = NoToken \/ TokenOf[t] \notin inUse

\* Mutant: of two tasks with one time the one that was posted last comes first.
BeforeLast(s, t) ==
  \/ time_to_run[s] < time_to_run[t]
  \/ /\ time_to_run[s] = time_to_run[t]
     /\ sequence_task_number[s] > sequence_task_number[t]

\* SequencedTaskLessThan
Before(s, t) ==
  \/ time_to_run[s] < time_to_run[t]
  \/ /\ time_to_run[s] = time_to_run[t]
     /\ sequence_task_number[s] < sequence_task_number[t]

\* Mutant: a second thread is started while one is being created.
HelpfulTwice(pending, inUse) ==
  /\ ~shutdown_called_
  /\ cleanup_state_ = "DONE"
  /\ Cardinality(threads_) < max_threads_
  /\ waiting_thread_count_ = 0
  /\ \E t \in pending : IsSequenceTokenRunnable(t, inUse)

\* PrepareToStartAdditionalThreadIfHelpful() returns a thread number.
Helpful(pending, inUse) ==
  /\ ~shutdown_called_
  /\ ~thread_being_created_
  /\ cleanup_state_ = "DONE"
  /\ Cardinality(threads_) < max_threads_
  /\ waiting_thread_count_ = 0
  /\ \E t \in pending : IsSequenceTokenRunnable(t, inUse)

\* Mutant: SKIP_ON_SHUTDOWN tasks count as pending, too.
PendingBlockOrSkip(t) == IF BehaviorOf[t] = "CONTINUE" THEN 0 ELSE 1

\* What a task adds to the two counters that Shutdown() waits for.
PendingBlock(t) == IF BehaviorOf[t] = "BLOCK" THEN 1 ELSE 0
RunningBlock(t) == IF BehaviorOf[t] = "CONTINUE" THEN 0 ELSE 1

\* Mutant: the thread that is being created is forgotten.
CanShutdownEarly ==
  /\ blocking_shutdown_thread_count_ = 0
  /\ blocking_shutdown_pending_task_count_ = 0

CanShutdown ==
  /\ ~thread_being_created_
  /\ blocking_shutdown_thread_count_ = 0
  /\ blocking_shutdown_pending_task_count_ = 0

\* A worker's running_shutdown_behavior_ is its task's while the task runs and
\* is destroyed; any other thread counts as CONTINUE_ON_SHUTDOWN.
LockedCurrentThreadShutdownBehavior(th) ==
  IF th \in Workers /\ pc[th] = "run" THEN BehaviorOf[task[th]] ELSE "CONTINUE"

\* GetWork() scans the pending tasks in order. It passes over those whose token
\* is in use, sweeps those that a shutdown drops, and stops at the first other.
Runnable == {t \in pending_tasks_ : IsSequenceTokenRunnable(t, current_sequences_)}
Dropped == {t \in Runnable : shutdown_called_ /\ BehaviorOf[t] # "BLOCK"}
Kept == Runnable \ Dropped
StopsAt(t) == t \in Kept /\ \A s \in Kept \ {t} : Before(t, s)
Swept == {s \in Dropped : \A t \in Kept : Before(s, t)}

\* What is left when t is taken.
Erased(t) == pending_tasks_ \ (Swept \cup {t})

\* What the scan finds: GET_WORK_FOUND, GET_WORK_WAIT or GET_WORK_NOT_FOUND.
Found(t) == StopsAt(t) /\ time_to_run[t] <= now
Future(t) == StopsAt(t) /\ time_to_run[t] > now
NotFound == Kept = {}

-----------------------------------------------------------------------------
\* PostTask(), by a client, by a running task or by a closure being destroyed.

MayPost(th) ==
  /\ stage[th] = "idle"
  /\ \/ pc[th] \in {"out", "down", "run"}
     \/ DestructorsPost /\ pc[th] \in {"purge", "purgeWake", "purgeExit",
                                       "purgeCleanup"}

\* The time to run is computed before the lock is taken.
PostTaskStamp(th, t) ==
  /\ MayPost(th)
  /\ outcome[t] = "new"
  /\ now + DelayOf[t] <= MaxTime
  /\ stage' = [stage EXCEPT ![th] = "stamped"]
  /\ posting' = [posting EXCEPT ![th] = t]
  /\ time_to_run' = [time_to_run EXCEPT ![t] = now + DelayOf[t]]
  /\ outcome' = [outcome EXCEPT ![t] = "posting"]
  /\ prior' = [prior EXCEPT ![t] =
       {s \in Tasks : /\ TokenOf[s] = TokenOf[t] /\ TokenOf[t] # NoToken
                      /\ outcome[s] \in {"accepted", "done", "deleted"}}]
  /\ UNCHANGED <<lock_, threadVars, countVars, pending_tasks_,
                 next_sequence_task_number_, sequence_task_number,
                 current_sequences_, shutdownVars, cleanupVars, cvVars, now,
                 pc, localVars>>

\* Mutants: the quota of Shutdown() is not looked at; nor who is posting.
RefusesNoQuota(th) ==
  /\ shutdown_called_
  /\ \/ BehaviorOf[posting[th]] # "BLOCK"
     \/ LockedCurrentThreadShutdownBehavior(th) = "CONTINUE"
RefusesNoThread(th) ==
  /\ shutdown_called_
  /\ \/ BehaviorOf[posting[th]] # "BLOCK"
     \/ max_blocking_tasks_after_shutdown_ <= 0

Refuses(th) ==
  /\ shutdown_called_
  /\ \/ BehaviorOf[posting[th]] # "BLOCK"
     \/ LockedCurrentThreadShutdownBehavior(th) = "CONTINUE"
     \/ max_blocking_tasks_after_shutdown_ <= 0

PostTaskRefuse(th) ==
  /\ stage[th] = "stamped"
  /\ lock_ = Free
  /\ Refuses(th)
  /\ outcome' = [outcome EXCEPT ![posting[th]] = "refused"]
  /\ stage' = [stage EXCEPT ![th] = "idle"]
  /\ posting' = [posting EXCEPT ![th] = NoTask]
  /\ UNCHANGED <<lock_, innerVars, cvVars, now, pc, localVars, prior>>

PostTaskInsert(th) ==
  LET t == posting[th]
      helpful == Helpful(pending_tasks_ \cup {t}, current_sequences_)
  IN /\ stage[th] = "stamped"
     /\ lock_ = Free
     /\ ~Refuses(th)
     /\ max_blocking_tasks_after_shutdown_' =
          max_blocking_tasks_after_shutdown_ - (IF shutdown_called_ THEN 1 ELSE 0)
     /\ sequence_task_number' =
          [sequence_task_number EXCEPT ![t] = next_sequence_task_number_]
     /\ next_sequence_task_number_' = next_sequence_task_number_ + 1
     /\ pending_tasks_' = pending_tasks_ \cup {t}
     /\ blocking_shutdown_pending_task_count_' =
          blocking_shutdown_pending_task_count_ + PendingBlock(t)
     /\ thread_being_created_' = (thread_being_created_ \/ helpful)
     /\ stage' = [stage EXCEPT ![th] = IF helpful THEN "start" ELSE "signal"]
     /\ outcome' = [outcome EXCEPT ![t] = "accepted"]
     /\ UNCHANGED <<lock_, threads_, waiting_thread_count_,
                    blocking_shutdown_thread_count_, time_to_run,
                    current_sequences_, shutdown_called_, cleanupVars, cvVars,
                    now, pc, localVars, posting, prior>>

\* PostTask() after the lock: FinishStartingAdditionalThread() ...
PostTaskStartThread(th) ==
  /\ stage[th] = "start"
  /\ \E w \in Workers : /\ pc[w] = "unborn"
                        /\ pc' = [pc EXCEPT ![w] = "starting"]
  /\ stage' = [stage EXCEPT ![th] = "idle"]
  /\ posting' = [posting EXCEPT ![th] = NoTask]
  /\ UNCHANGED <<lock_, innerVars, cvVars, now, localVars, historyVars>>

\* ... or SignalHasWork().
PostTaskSignal(th) ==
  /\ stage[th] = "signal"
  /\ has_work_cv_' \in Signalled(has_work_cv_)
  /\ stage' = [stage EXCEPT ![th] = "idle"]
  /\ posting' = [posting EXCEPT ![th] = NoTask]
  /\ UNCHANGED <<lock_, innerVars, can_shutdown_cv_, cleanup_cv_, now, pc,
                 localVars, historyVars>>

-----------------------------------------------------------------------------
\* ThreadLoop().

\* The new thread enters the loop; it keeps the lock.
ThreadLoopEnter(w) ==
  /\ pc[w] = "starting"
  /\ lock_ = Free
  /\ lock_' = w
  /\ thread_being_created_' = FALSE
  /\ threads_' = threads_ \cup {w}
  /\ pc' = [pc EXCEPT ![w] = "loop"]
  /\ UNCHANGED <<countVars, queueVars, current_sequences_, shutdownVars,
                 cleanupVars, cvVars, now, localVars, callVars, historyVars>>

\* HandleCleanup() has returned, or has nothing to do, and GetWork() is next.
AtGetWork(w) ==
  /\ lock_ = w
  /\ \/ pc[w] = "getwork"
     \/ pc[w] = "loop" /\ cleanup_state_ \in {"DONE", "RUNNING"}

\* GET_WORK_FOUND: GetWork() and WillRunWorkerTask(), then the lock is released.
GetWorkFound(w) ==
  /\ AtGetWork(w)
  /\ \E t \in pending_tasks_ :
       LET rest == Erased(t)
           inUse == current_sequences_ \cup ({TokenOf[t]} \ {NoToken})
       IN /\ Found(t)
          /\ pending_tasks_' = rest
          /\ delete_these' = [delete_these EXCEPT ![w] = Swept]
          /\ task' = [task EXCEPT ![w] = t]
          /\ blocking_shutdown_pending_task_count_' =
               blocking_shutdown_pending_task_count_ - PendingBlock(t)
          /\ current_sequences_' = inUse
          /\ blocking_shutdown_thread_count_' =
               blocking_shutdown_thread_count_ + RunningBlock(t)
          /\ new_thread_id' = [new_thread_id EXCEPT ![w] = Helpful(rest, inUse)]
          /\ thread_being_created_' =
               (thread_being_created_ \/ Helpful(rest, inUse))
  /\ lock_' = Free
  /\ pc' = [pc EXCEPT ![w] = "picked"]
  /\ UNCHANGED <<threads_, waiting_thread_count_, next_sequence_task_number_,
                 time_to_run, sequence_task_number, shutdownVars, cleanupVars,
                 cvVars, now, deadline, callVars, historyVars>>

AfterPurge(w) == IF new_thread_id[w] THEN "spawn" ELSE "run"

\* Mutant: no other worker is signalled ("technically not required").
RunNoSignal(w) ==
  /\ pc[w] = "picked"
  /\ pc' = [pc EXCEPT ![w] = IF delete_these[w] # {} THEN "purge"
                                                      ELSE AfterPurge(w)]
  /\ UNCHANGED <<lock_, innerVars, cvVars, now, localVars, callVars, historyVars>>

\* Outside the lock: SignalHasWork() wakes another worker,
RunSignal(w) ==
  /\ pc[w] = "picked"
  /\ has_work_cv_' \in Signalled(has_work_cv_)
  /\ pc' = [pc EXCEPT ![w] = IF delete_these[w] # {} THEN "purge"
                                                      ELSE AfterPurge(w)]
  /\ UNCHANGED <<lock_, innerVars, can_shutdown_cv_, cleanup_cv_, now,
                 localVars, callVars, historyVars>>

\* The closures in delete_these_outside_lock are destroyed.
Destroy(w) ==
  /\ stage[w] = "idle"
  /\ delete_these' = [delete_these EXCEPT ![w] = {}]
  /\ outcome' = [t \in Tasks |-> IF t \in delete_these[w] THEN "deleted"
                                                          ELSE outcome[t]]

\* the swept closures are destroyed,
RunPurge(w) ==
  /\ pc[w] = "purge"
  /\ Destroy(w)
  /\ pc' = [pc EXCEPT ![w] = AfterPurge(w)]
  /\ UNCHANGED <<lock_, innerVars, cvVars, now, task, new_thread_id, deadline,
                 callVars, prior>>

\* FinishStartingAdditionalThread() starts a thread,
RunSpawn(w) ==
  /\ pc[w] = "spawn"
  /\ \E n \in Workers : /\ pc[n] = "unborn"
                        /\ pc' = [pc EXCEPT ![w] = "run", ![n] = "starting"]
  /\ new_thread_id' = [new_thread_id EXCEPT ![w] = FALSE]
  /\ UNCHANGED <<lock_, innerVars, cvVars, now, task, delete_these, deadline,
                 callVars, historyVars>>

\* and the task runs (it may post meanwhile) until its closure is destroyed and
\* the running task info is reset.
RunFinish(w) ==
  /\ pc[w] = "run"
  /\ stage[w] = "idle"
  /\ outcome' = [outcome EXCEPT ![task[w]] = "done"]
  /\ pc' = [pc EXCEPT ![w] = "ran"]
  /\ UNCHANGED <<lock_, innerVars, cvVars, now, localVars, callVars, prior>>

DidRunWorkerTask(w) ==
  /\ pc[w] = "ran"
  /\ lock_ = Free
  /\ lock_' = w
  /\ blocking_shutdown_thread_count_' =
       blocking_shutdown_thread_count_ - RunningBlock(task[w])
  /\ current_sequences_' = current_sequences_ \ {TokenOf[task[w]]}
  /\ task' = [task EXCEPT ![w] = NoTask]
  /\ pc' = [pc EXCEPT ![w] = "loop"]
  /\ UNCHANGED <<threadVars, waiting_thread_count_,
                 blocking_shutdown_pending_task_count_, queueVars,
                 shutdownVars, cleanupVars, cvVars, now, delete_these,
                 new_thread_id, deadline, callVars, historyVars>>

\* Mutant: a worker does not exit before the queue is empty.
MustExitEmpty == shutdown_called_ /\ pending_tasks_ = {}

MustExit == shutdown_called_ /\ blocking_shutdown_pending_task_count_ = 0

\* No task can run now. Unless the pool is cleaning up or the worker can exit,
\* it sleeps, untimed or until the first task that is not yet due.
WaitForWork(w) ==
  /\ AtGetWork(w)
  /\ cleanup_state_ # "RUNNING"
  /\ ~MustExit
  /\ \/ NotFound /\ deadline' = [deadline EXCEPT ![w] = Never]
     \/ \E t \in pending_tasks_ :
          Future(t) /\ deadline' = [deadline EXCEPT ![w] = time_to_run[t]]
  /\ pending_tasks_' = pending_tasks_ \ Swept
  /\ delete_these' = [delete_these EXCEPT ![w] = Swept]
  /\ waiting_thread_count_' = waiting_thread_count_ + 1
  /\ has_work_cv_' = has_work_cv_ \cup {w}
  /\ lock_' = Free
  /\ pc' = [pc EXCEPT ![w] = "waiting"]
  /\ UNCHANGED <<threadVars, blocking_shutdown_thread_count_,
                 blocking_shutdown_pending_task_count_,
                 next_sequence_task_number_, time_to_run,
                 sequence_task_number, current_sequences_, shutdownVars,
                 cleanupVars, can_shutdown_cv_, cleanup_cv_, now, task,
                 new_thread_id, callVars, historyVars>>

\* The wait returns with the lock held. Closures that GetWork() swept before the
\* wait are destroyed only now, at the end of that iteration of the loop.
WakeUp(w) ==
  /\ pc[w] = "waiting"
  /\ w \notin has_work_cv_
  /\ lock_ = Free
  /\ lock_' = w
  /\ waiting_thread_count_' = waiting_thread_count_ - 1
  /\ deadline' = [deadline EXCEPT ![w] = Never]
  /\ pc' = [pc EXCEPT ![w] = IF delete_these[w] # {} THEN "purgeWake" ELSE "loop"]
  /\ UNCHANGED <<threadVars, blocking_shutdown_thread_count_,
                 blocking_shutdown_pending_task_count_, queueVars,
                 current_sequences_, shutdownVars, cleanupVars, cvVars, now,
                 task, delete_these, new_thread_id, callVars, historyVars>>

\* TimedWait() runs out.
TimeOut(w) ==
  /\ w \in has_work_cv_
  /\ deadline[w] <= now
  /\ has_work_cv_' = has_work_cv_ \ {w}
  /\ UNCHANGED <<lock_, innerVars, can_shutdown_cv_, cleanup_cv_, now, pc,
                 localVars, callVars, historyVars>>

\* The break out of the loop. lock_ is released by the scope around the loop,
\* after the scope of the iteration has destroyed the closures it swept.
LeaveLoop(w) ==
  /\ AtGetWork(w)
  /\ cleanup_state_ # "RUNNING"
  /\ MustExit
  /\ \A t \in Kept : ~Found(t)
  /\ pending_tasks_' = pending_tasks_ \ Swept
  /\ delete_these' = [delete_these EXCEPT ![w] = Swept]
  /\ lock_' = IF Swept = {} THEN Free ELSE w
  /\ pc' = [pc EXCEPT ![w] = IF Swept = {} THEN "exitSignal" ELSE "purgeExit"]
  /\ UNCHANGED <<threadVars, countVars, next_sequence_task_number_,
                 time_to_run, sequence_task_number, current_sequences_,
                 shutdownVars, cleanupVars, cvVars, now, task, new_thread_id,
                 deadline, callVars, historyVars>>

\* Both happen with lock_ held by w.
PurgeUnderLock(w) ==
  /\ pc[w] \in {"purgeWake", "purgeExit"}
  /\ Destroy(w)
  /\ \/ /\ pc[w] = "purgeWake"
        /\ pc' = [pc EXCEPT ![w] = "loop"]
        /\ UNCHANGED lock_
     \/ /\ pc[w] = "purgeExit"
        /\ pc' = [pc EXCEPT ![w] = "exitSignal"]
        /\ lock_' = Free
  /\ UNCHANGED <<innerVars, cvVars, now, task, new_thread_id, deadline,
                 callVars, prior>>

\* Mutant: the exiting worker does not wake the next.
ExitNoSignal(w) ==
  /\ pc[w] = "exitSignal"
  /\ pc' = [pc EXCEPT ![w] = "exitShutdown"]
  /\ UNCHANGED <<lock_, innerVars, cvVars, now, localVars, callVars, historyVars>>

\* After the loop: wake the next worker so that it exits too,
ExitSignal(w) ==
  /\ pc[w] = "exitSignal"
  /\ has_work_cv_' \in Signalled(has_work_cv_)
  /\ pc' = [pc EXCEPT ![w] = "exitShutdown"]
  /\ UNCHANGED <<lock_, innerVars, can_shutdown_cv_, cleanup_cv_, now,
                 localVars, callVars, historyVars>>

\* and the thread in Shutdown().
ExitSignalShutdown(w) ==
  /\ pc[w] = "exitShutdown"
  /\ can_shutdown_cv_' \in Signalled(can_shutdown_cv_)
  /\ pc' = [pc EXCEPT ![w] = "gone"]
  /\ UNCHANGED <<lock_, innerVars, has_work_cv_, cleanup_cv_, now, localVars,
                 callVars, historyVars>>

-----------------------------------------------------------------------------
\* CleanupForTesting(), the work of FlushForTesting(), and HandleCleanup().

Unfinished == {t \in Tasks : outcome[t] = "accepted"}

\* The pool is idle already, or the cleanup is requested and the caller sleeps.
\* (After Shutdown() it returns at once: Main does not call it then.)
CleanupForTesting ==
  /\ pc[Main] = "out" /\ stage[Main] = "idle"
  /\ flushes < MaxFlushes
  /\ lock_ = Free
  /\ flushes' = flushes + 1
  /\ flush_set' = Unfinished
  /\ \/ /\ pending_tasks_ = {} /\ waiting_thread_count_ = Cardinality(threads_)
        /\ UNCHANGED <<cleanup_state_, cleanup_idlers_, cvVars, pc>>
     \/ /\ ~(pending_tasks_ = {} /\ waiting_thread_count_ = Cardinality(threads_))
        /\ cleanup_state_' = "REQUESTED"
        /\ cleanup_idlers_' = 0
        /\ has_work_cv_' \in Signalled(has_work_cv_)
        /\ cleanup_cv_' = cleanup_cv_ \cup {Main}
        /\ pc' = [pc EXCEPT ![Main] = "flushing"]
        /\ UNCHANGED can_shutdown_cv_
  /\ UNCHANGED <<lock_, threadVars, countVars, queueVars, current_sequences_,
                 shutdownVars, now, localVars, callVars, historyVars>>

CleanupWoken ==
  /\ pc[Main] = "flushing"
  /\ Main \notin cleanup_cv_
  /\ lock_ = Free
  /\ \/ /\ cleanup_state_ = "DONE"
        /\ pc' = [pc EXCEPT ![Main] = "out"]
        /\ UNCHANGED cleanup_cv_
     \/ /\ cleanup_state_ # "DONE"
        /\ cleanup_cv_' = cleanup_cv_ \cup {Main}
        /\ UNCHANGED pc
  /\ UNCHANGED <<lock_, innerVars, has_work_cv_, can_shutdown_cv_, now,
                 localVars, callVars, historyVars>>

unchangedByCleanup ==
  <<threadVars, countVars, queueVars, current_sequences_, shutdownVars, flushes,
    flush_set, can_shutdown_cv_, now, localVars, callVars, historyVars>>

\* w returns from HandleCleanup(), or from a wait in it, with the lock held.
Awake(w) == w \notin cleanup_cv_ /\ lock_ \in {Free, w}
Return(w) == lock_' = w /\ pc' = [pc EXCEPT ![w] = "getwork"]
WaitAs(w, where) == lock_' = Free /\ pc' = [pc EXCEPT ![w] = where]

\* The worker that finds the request does the cleanup.
LeadCleanup(w) ==
  /\ pc[w] = "loop" /\ lock_ = w
  /\ cleanup_state_ = "REQUESTED"
  /\ cleanup_state_' = "STARTING"
  /\ pc' = [pc EXCEPT ![w] = "leading"]
  /\ UNCHANGED <<lock_, cleanup_idlers_, has_work_cv_, cleanup_cv_>>
  /\ UNCHANGED unchangedByCleanup

\* Mutants: the leader does not wait for the others; or not for a new thread.
OthersUnknown == ~thread_being_created_
OthersIdleNow == cleanup_idlers_ = Cardinality(threads_) - 1

OthersIdle ==
  ~thread_being_created_ /\ cleanup_idlers_ = Cardinality(threads_) - 1

\* It wakes the others one by one until they all idle,
LeadWait(w) ==
  /\ pc[w] = "leading" /\ Awake(w)
  /\ ~OthersIdle
  /\ has_work_cv_' \in Signalled(has_work_cv_)
  /\ cleanup_cv_' = cleanup_cv_ \cup {w}
  /\ WaitAs(w, "leading")
  /\ UNCHANGED <<cleanup_state_, cleanup_idlers_>>
  /\ UNCHANGED unchangedByCleanup

\* then runs what is pending by itself.
LeadRun(w) ==
  /\ pc[w] = "leading" /\ Awake(w)
  /\ OthersIdle
  /\ cleanup_state_' = "RUNNING"
  /\ Return(w)
  /\ UNCHANGED <<cleanup_idlers_, has_work_cv_, cleanup_cv_>>
  /\ UNCHANGED unchangedByCleanup

\* Mutant: an idler does not wake the leader.
IdleEnterSilent(w) ==
  /\ pc[w] = "loop" /\ lock_ = w
  /\ cleanup_state_ = "STARTING"
  /\ cleanup_idlers_' = cleanup_idlers_ + 1
  /\ cleanup_cv_' = cleanup_cv_ \cup {w}
  /\ WaitAs(w, "idling")
  /\ UNCHANGED <<cleanup_state_, has_work_cv_>>
  /\ UNCHANGED unchangedByCleanup

IdleEnter(w) ==
  /\ pc[w] = "loop" /\ lock_ = w
  /\ cleanup_state_ = "STARTING"
  /\ cleanup_idlers_' = cleanup_idlers_ + 1
  /\ cleanup_cv_' = {w}
  /\ WaitAs(w, "idling")
  /\ UNCHANGED <<cleanup_state_, has_work_cv_>>
  /\ UNCHANGED unchangedByCleanup

IdleWait(w) ==
  /\ pc[w] = "idling" /\ Awake(w)
  /\ cleanup_state_ # "FINISHING"
  /\ cleanup_cv_' = cleanup_cv_ \cup {w}
  /\ WaitAs(w, "idling")
  /\ UNCHANGED <<cleanup_state_, cleanup_idlers_, has_work_cv_>>
  /\ UNCHANGED unchangedByCleanup

IdleLeave(w) ==
  /\ pc[w] = "idling" /\ Awake(w)
  /\ cleanup_state_ = "FINISHING"
  /\ cleanup_idlers_' = cleanup_idlers_ - 1
  /\ cleanup_cv_' = {}
  /\ Return(w)
  /\ UNCHANGED <<cleanup_state_, has_work_cv_>>
  /\ UNCHANGED unchangedByCleanup

\* A worker that comes round while the cleanup finishes waits for the idlers.
AtFinish(w) ==
  \/ pc[w] = "loop" /\ lock_ = w /\ cleanup_state_ = "FINISHING"
  \/ pc[w] = "finishing" /\ Awake(w)

FinishWait(w) ==
  /\ AtFinish(w)
  /\ cleanup_idlers_ # 0
  /\ cleanup_cv_' = {w}
  /\ WaitAs(w, "finishing")
  /\ UNCHANGED <<cleanup_state_, cleanup_idlers_, has_work_cv_>>
  /\ UNCHANGED unchangedByCleanup

FinishCleanup(w) ==
  /\ AtFinish(w)
  /\ cleanup_idlers_ = 0
  /\ \/ /\ cleanup_state_ = "FINISHING"
        /\ cleanup_state_' = "DONE"
        /\ cleanup_cv_' \in Signalled(cleanup_cv_)
     \/ /\ cleanup_state_ # "FINISHING"
        /\ UNCHANGED <<cleanup_state_, cleanup_cv_>>
  /\ Return(w)
  /\ UNCHANGED <<cleanup_idlers_, has_work_cv_>>
  /\ UNCHANGED unchangedByCleanup

\* GET_WORK_WAIT during the cleanup: the delayed task is deleted.
CleanupDelayed(w) ==
  /\ AtGetWork(w)
  /\ cleanup_state_ = "RUNNING"
  /\ \E t \in pending_tasks_ :
       /\ Future(t)
       /\ pending_tasks_' = Erased(t)
       /\ delete_these' = [delete_these EXCEPT ![w] = Swept \cup {t}]
  /\ lock_' = Free
  /\ pc' = [pc EXCEPT ![w] = "purgeCleanup"]
  /\ UNCHANGED <<threadVars, countVars, next_sequence_task_number_,
                 time_to_run, sequence_task_number, current_sequences_,
                 shutdownVars, cleanupVars, cvVars, now, task, new_thread_id,
                 deadline, callVars, historyVars>>

\* It is destroyed outside the lock, which is then taken again.
CleanupPurge(w) ==
  /\ pc[w] = "purgeCleanup"
  /\ lock_ = Free
  /\ Destroy(w)
  /\ lock_' = w
  /\ pc' = [pc EXCEPT ![w] = "loop"]
  /\ UNCHANGED <<innerVars, cvVars, now, task, new_thread_id, deadline,
                 callVars, prior>>

\* GET_WORK_NOT_FOUND during the cleanup. (CHECK(delete_these.empty()): nothing
\* is swept unless Shutdown() was called, which a flush excludes.)
CleanupDrained(w) ==
  /\ AtGetWork(w)
  /\ cleanup_state_ = "RUNNING"
  /\ NotFound
  /\ cleanup_state_' = "FINISHING"
  /\ cleanup_cv_' = {}
  /\ pc' = [pc EXCEPT ![w] = "loop"]
  /\ UNCHANGED <<lock_, cleanup_idlers_, has_work_cv_>>
  /\ UNCHANGED unchangedByCleanup

-----------------------------------------------------------------------------
\* Shutdown(). (A second call returns at once: Main does not make it.)

Shutdown ==
  /\ MayShutdown
  /\ pc[Main] = "out" /\ stage[Main] = "idle"
  /\ lock_ = Free
  /\ shutdown_called_' = TRUE
  /\ max_blocking_tasks_after_shutdown_' = MaxNewBlocking
  /\ has_work_cv_' \in Signalled(has_work_cv_)
  /\ pc' = [pc EXCEPT ![Main] = IF CanShutdown THEN "down" ELSE "shutdown"]
  /\ UNCHANGED <<lock_, threadVars, countVars, queueVars, current_sequences_,
                 cleanupVars, can_shutdown_cv_, cleanup_cv_, now, localVars,
                 callVars, historyVars>>

ShutdownCheck ==
  /\ pc[Main] = "shutdown"
  /\ Main \notin can_shutdown_cv_
  /\ lock_ = Free
  /\ \/ /\ CanShutdown
        /\ pc' = [pc EXCEPT ![Main] = "down"]
        /\ UNCHANGED can_shutdown_cv_
     \/ /\ ~CanShutdown
        /\ can_shutdown_cv_' = can_shutdown_cv_ \cup {Main}
        /\ UNCHANGED pc
  /\ UNCHANGED <<lock_, innerVars, has_work_cv_, cleanup_cv_, now, localVars,
                 callVars, historyVars>>

-----------------------------------------------------------------------------
\* The environment.

Tick ==
  /\ now < MaxTime
  /\ now' = now + 1
  /\ UNCHANGED <<lock_, innerVars, cvVars, pc, localVars, callVars,
                 historyVars>>

SpuriousWakeup(th) ==
  /\ SpuriousWakeups
  /\ th \in has_work_cv_ \cup can_shutdown_cv_ \cup cleanup_cv_
  /\ has_work_cv_' = has_work_cv_ \ {th}
  /\ can_shutdown_cv_' = can_shutdown_cv_ \ {th}
  /\ cleanup_cv_' = cleanup_cv_ \ {th}
  /\ UNCHANGED <<lock_, innerVars, now, pc, localVars, callVars, historyVars>>

-----------------------------------------------------------------------------
PostProgress(th) ==
  \/ PostTaskRefuse(th) \/ PostTaskInsert(th)
  \/ PostTaskStartThread(th) \/ PostTaskSignal(th)

HandleCleanup(w) ==
  \/ LeadCleanup(w) \/ LeadWait(w) \/ LeadRun(w)
  \/ IdleEnter(w) \/ IdleWait(w) \/ IdleLeave(w)
  \/ FinishWait(w) \/ FinishCleanup(w)

\* Every step of a worker but the end of its task.
ThreadLoop(w) ==
  \/ ThreadLoopEnter(w) \/ HandleCleanup(w)
  \/ GetWorkFound(w) \/ RunSignal(w) \/ RunPurge(w) \/ RunSpawn(w)
  \/ DidRunWorkerTask(w)
  \/ CleanupDelayed(w) \/ CleanupPurge(w) \/ CleanupDrained(w)
  \/ WaitForWork(w) \/ WakeUp(w) \/ TimeOut(w)
  \/ LeaveLoop(w) \/ PurgeUnderLock(w) \/ ExitSignal(w) \/ ExitSignalShutdown(w)

Next ==
  \/ \E th \in Threads : \/ \E t \in Tasks : PostTaskStamp(th, t)
                         \/ PostProgress(th)
                         \/ SpuriousWakeup(th)
  \/ \E w \in Workers : ThreadLoop(w) \/ RunFinish(w)
  \/ CleanupForTesting \/ CleanupWoken
  \/ Shutdown \/ ShutdownCheck
  \/ Tick

Spec == Init /\ [][Next]_vars

\* The operating system runs every thread that can move and does not wake sleepers
\* without a signal for ever, and time passes.
ThreadFairness ==
  /\ \A th \in Threads : WF_vars(PostProgress(th))
  /\ \A w \in Workers : WF_vars(ThreadLoop(w))
  /\ WF_vars(CleanupWoken)
  /\ WF_vars(ShutdownCheck)
  /\ WF_vars(Tick)
  /\ <>[][\A th \in Threads : ~SpuriousWakeup(th)]_vars

\* What the pool cannot do for itself: its tasks end.
TasksEnd == \A w \in Workers : WF_vars(RunFinish(w))

FairSpec == Spec /\ ThreadFairness

-----------------------------------------------------------------------------
\* Types.
PoolTypes ==
  /\ lock_ \in Workers \cup {Free}
  /\ threads_ \subseteq Workers
  /\ thread_being_created_ \in BOOLEAN
  /\ pending_tasks_ \subseteq Tasks
  /\ next_sequence_task_number_ \in Nat
  /\ current_sequences_ \subseteq {TokenOf[t] : t \in Tasks} \ {NoToken}
  /\ shutdown_called_ \in BOOLEAN
  /\ max_blocking_tasks_after_shutdown_ \in 0 .. MaxNewBlocking
  /\ cleanup_state_ \in CleanupStates
  /\ has_work_cv_ \subseteq Workers
  /\ can_shutdown_cv_ \subseteq {Main}
  /\ cleanup_cv_ \subseteq Workers \cup {Main}
CounterTypes ==
  /\ waiting_thread_count_ \in Nat
  /\ blocking_shutdown_thread_count_ \in Nat
  /\ blocking_shutdown_pending_task_count_ \in Nat
  /\ cleanup_idlers_ \in Nat
TaskTypes ==
  /\ now \in 0 .. MaxTime
  /\ time_to_run \in [Tasks -> 0 .. MaxTime]
  /\ sequence_task_number \in [Tasks -> Nat]
  /\ outcome \in [Tasks -> Outcomes]
  /\ prior \in [Tasks -> SUBSET Tasks]
  /\ flush_set \subseteq Tasks
  /\ flushes \in 0 .. MaxFlushes
ThreadTypes ==
  /\ pc \in [Threads -> WorkerPcs \cup ClientPcs]
  /\ \A w \in Workers : pc[w] \in WorkerPcs
  /\ \A c \in Clients : pc[c] \in ClientPcs
  /\ task \in [Workers -> Tasks \cup {NoTask}]
  /\ delete_these \in [Workers -> SUBSET Tasks]
  /\ new_thread_id \in [Workers -> BOOLEAN]
  /\ deadline \in [Workers -> 0 .. Never]
  /\ stage \in [Threads -> {"idle", "stamped", "start", "signal"}]
  /\ posting \in [Threads -> Tasks \cup {NoTask}]

\* The type invariant.
TypeOK == PoolTypes /\ CounterTypes /\ TaskTypes /\ ThreadTypes

-----------------------------------------------------------------------------
\* Safety.

HasTask(w) == task[w] # NoTask

\* "No two tasks with the same token will run at the same time"
\* (sequenced_worker_pool.h:38), and no task is on two workers.
SequencesExclusive ==
  \A v, w \in Workers :
    v # w /\ HasTask(v) /\ HasTask(w) =>
      /\ task[v] # task[w]
      /\ TokenOf[task[v]] = TokenOf[task[w]] => TokenOf[task[v]] = NoToken

\* Shutdown() and the creation of threads rest on three counters that are
\* updated in different sections of code: they always count what they say.
PendingBlocking == {t \in pending_tasks_ : BehaviorOf[t] = "BLOCK"}
RunningBlocking == {w \in Workers : HasTask(w) /\ BehaviorOf[task[w]] # "CONTINUE"}
WaitingWorkers == {w \in Workers : pc[w] = "waiting"}
PendingCountExact ==
  blocking_shutdown_pending_task_count_ = Cardinality(PendingBlocking)
RunningCountExact == blocking_shutdown_thread_count_ = Cardinality(RunningBlocking)
WaitingCountExact == waiting_thread_count_ = Cardinality(WaitingWorkers)
CountersExact == PendingCountExact /\ RunningCountExact /\ WaitingCountExact

\* At most one thread is being created, by one poster or worker, while the flag
\* says so; with it the pool never has more than max_threads_ threads, and every
\* thread that runs is in threads_, to be joined.
ThreadsAccounted ==
  /\ Cardinality({w \in Workers : pc[w] = "starting"})
       + Cardinality({th \in Threads : stage[th] = "start"})
       + Cardinality({w \in Workers : new_thread_id[w]})
     = IF thread_being_created_ THEN 1 ELSE 0
  /\ threads_ = {w \in Workers : pc[w] \notin {"unborn", "starting"}}
  /\ Cardinality(threads_) + (IF thread_being_created_ THEN 1 ELSE 0)
       <= max_threads_

\* From the moment Shutdown() returns no BLOCK_SHUTDOWN task is left to run, only
\* CONTINUE_ON_SHUTDOWN tasks are still running, and no thread is on its way
\* into the pool.
ShutdownComplete ==
  pc[Main] = "down" =>
    /\ \A t \in pending_tasks_ : BehaviorOf[t] # "BLOCK"
    /\ \A w \in Workers : HasTask(w) => BehaviorOf[task[w]] = "CONTINUE"
    /\ \A w \in Workers : pc[w] # "starting" /\ ~new_thread_id[w]
    /\ \A th \in Threads : stage[th] # "start"

\* Once shutdown was called and CanShutdown() is true it stays true: the thread in
\* Shutdown() may check it late, or after a spurious wake-up.
CanShutdownStable ==
  [][shutdown_called_ /\ CanShutdown => CanShutdown']_vars

\* When CleanupForTesting() returns, every task accepted before it was called has
\* been run and destroyed, or was delayed and deleted.
FlushDrains ==
  pc[Main] = "out" => \A t \in flush_set : outcome[t] \in {"done", "deleted"}

\* While the cleanup runs what is pending, no other worker has a task.
CleanupRunsAlone ==
  cleanup_state_ = "RUNNING" =>
    \E w \in Workers : \A v \in Workers \ {w} : ~HasTask(v) /\ pc[v] # "starting"

\* A thread never asks for a lock it holds: closures that GetWork() takes out of
\* the queue are destroyed with lock_ released, "in case the closures are holding
\* refs to objects that want to post work from their destructors (which would
\* deadlock)" (sequenced_worker_pool.cc:949).
NoSelfDeadlock == \A th \in Threads : ~(stage[th] = "stamped" /\ lock_ = th)

\* No wake-up is lost, the safety half of what follows. A worker that comes to
\* GetWork(), or to a SignalHasWork(), without being woken first:
Astir(w) ==
  \/ pc[w] \in {"loop", "getwork", "picked", "ran", "purgeWake", "purgeCleanup"}
  \/ pc[w] = "waiting" /\ w \notin has_work_cv_
  \/ pc[w] = "finishing" /\ w \notin cleanup_cv_

\* A task that can be run has one, or a thread or a signal on its way, or a worker
\* that sleeps no longer than until the task is due; else max_threads_ tasks run.
TasksAttended ==
  ~shutdown_called_ /\ cleanup_state_ = "DONE" =>
    \A t \in Runnable :
      \/ thread_being_created_
      \/ \E th \in Threads : stage[th] = "signal"
      \/ \E w \in Workers : \/ Astir(w)
                            \/ pc[w] = "waiting" /\ deadline[w] <= time_to_run[t]
      \/ Cardinality({w \in Workers : HasTask(w)}) >= max_threads_

\* A worker that is still to signal the next sleeper, at the latest when it leaves.
Leaving(w) ==
  /\ pc[w] \notin {"unborn", "exitShutdown", "gone"}
  /\ w \notin has_work_cv_ \cup cleanup_cv_

\* After Shutdown() signalled once, a worker that sleeps has one before it in the
\* chain of signals,
ExitsAttended ==
  shutdown_called_ /\ has_work_cv_ # {} => \E w \in Workers : Leaving(w)

\* and so has the thread that sleeps in Shutdown(), unless a worker is just about
\* to signal it or a thread to enter the pool.
ShutdownAttended ==
  max_threads_ # 0 /\ can_shutdown_cv_ # {} =>
    \/ thread_being_created_
    \/ \E w \in Workers : Leaving(w) \/ pc[w] = "exitShutdown"

\* Signals of one sleeper at a time, sent outside the lock, are enough.
NoLostWakeUp == TasksAttended /\ ExitsAttended /\ ShutdownAttended

-----------------------------------------------------------------------------
\* Liveness.

\* Shutdown() returns, if the tasks end.
ShutdownReturns == TasksEnd => (pc[Main] = "shutdown" ~> pc[Main] = "down")

\* One signal in Shutdown() is enough for every worker to leave its loop.
WorkersExit ==
  TasksEnd => (shutdown_called_ ~> \A w \in Workers : pc[w] \in {"unborn", "gone"})

\* CleanupForTesting() returns.
FlushReturns == TasksEnd => (pc[Main] = "flushing" ~> pc[Main] = "out")

\* A task that is due and whose sequence is free does not wait for ever while
\* fewer than max_threads_ tasks run: a sleeping worker is woken or a thread is
\* created for it, though the running tasks may never end. (A flush or a shutdown
\* first waits for those.)
NotUnderserved ==
  \A t \in Tasks :
    []<>~(/\ t \in Runnable /\ time_to_run[t] <= now
          /\ ~shutdown_called_ /\ cleanup_state_ = "DONE"
          /\ Cardinality({w \in Workers : pc[w] = "run"}) < max_threads_)
=============================================================================
