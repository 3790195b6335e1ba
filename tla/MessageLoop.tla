---------------------------- MODULE MessageLoop ----------------------------
(***************************************************************************)
(* base/message_loop and base/run_loop: one thread's message loop with the *)
(* default pump, the incoming queue that any thread posts to, the run      *)
(* loops nested on the thread's stack and the destruction of the loop.     *)
(*                                                                         *)
(* Posting takes incoming_queue_lock_ once and is one action of an         *)
(* unnamed thread.  Everything else belongs to the loop's own thread; its  *)
(* steps are cut where it takes that lock, reads the clock or waits, where *)
(* code of a task runs, and between two tasks of one DoWork().  The C++    *)
(* stack is the chain of previous_run_loop_, and at[l] is where the frames *)
(* of run loop l are.                                                      *)
(***************************************************************************)
EXTENDS Integers, Sequences, FiniteSets, Functions

CONSTANTS
  Tasks,          \* closures that can be posted, each at most once
  RunLoops,       \* RunLoop objects, each run at most once
  NoTask, NoLoop,
  Delays,         \* delays each task can be posted with
  SeqModulus,     \* number of values of a sequence number (2^32 in the code)
  FirstSequence,  \* values of next_sequence_num_ to start from
  MaxPasses,      \* limit of the destructor's loop (100 in the code)
  MaxTime,        \* bound: the clock stops there
  MayDestroy,     \* whether the loop is destroyed
  NestAfterQuit,  \* whether a task may run a loop once the pump was told to quit
  OuterLoops      \* RunLoops that may Run() at all; the others RunUntilIdle()

ASSUME TaskAssumption == NoTask \notin Tasks /\ NoLoop \notin RunLoops

\* The values of a signed integer.
SequenceNumbers == -(SeqModulus \div 2) .. (SeqModulus \div 2) - 1

ASSUME NumberAssumption ==
  /\ Delays \in [Tasks -> SUBSET Nat]
  /\ SeqModulus \in Nat /\ SeqModulus > 0 /\ SeqModulus % 2 = 0
  /\ FirstSequence \subseteq SequenceNumbers
  /\ MaxPasses \in Nat \ {0} /\ MaxTime \in Nat \ {0}
  /\ MayDestroy \in BOOLEAN /\ NestAfterQuit \in BOOLEAN
  /\ OuterLoops \subseteq RunLoops

\* Fewer tasks are pending than half of the sequence numbers.
ASSUME PendingAssumption ==
  IsFiniteSet(Tasks) /\ 2 * Cardinality(Tasks) <= SeqModulus

VARIABLES
  \* IncomingTaskQueue
  incoming_queue_,
  message_loop_,             \* FALSE: reset to NULL
  next_sequence_num_,
  \* MessageLoop
  work_queue_,
  delayed_work_queue_,       \* a priority queue: a set ordered by Before
  deferred_non_nestable_work_queue_,
  nestable_tasks_allowed_,
  recent_time_,
  run_loop_,                 \* the innermost running RunLoop, or NoLoop
  \* MessagePumpDefault
  keep_running_,
  delayed_work_time_,        \* 0: null
  event_,                    \* signalled
  \* RunLoop
  previous_run_loop_, run_depth_, run_called_, quit_called_, running_,
  quit_when_idle_received_,
  \* PendingTask
  nestable, delayed_run_time, sequence_num,
  \* Locals of the frames of a running RunLoop, reset when they go out of scope
  at,                        \* the call that its pump makes next
  did_work,                  \* local of MessagePumpDefault::Run()
  task,                      \* the task RunTask() is running
  caller,                    \* the function of the loop that called RunTask()
  allowing, old_state_,      \* a ScopedNestableTaskAllower of that task
  now,                       \* TimeTicks::Now(), never null
  life, passes,              \* progress of the destructor
  \* History, read by the properties only (outcome also says which tasks are
  \* still to be posted):
  outcome,                   \* what became of each task
  delay,                     \* the delay it was posted with
  prior,                     \* tasks accepted before it
  late,                      \* tasks accepted after the destructor began
  quit_now                   \* running RunLoops told to quit by MessageLoop::QuitNow()

queueVars == <<incoming_queue_, work_queue_, delayed_work_queue_,
               deferred_non_nestable_work_queue_>>
postVars  == <<message_loop_, next_sequence_num_, nestable, delayed_run_time,
               sequence_num, delay, prior, late>>
loopVars  == <<nestable_tasks_allowed_, recent_time_>>
pumpVars  == <<keep_running_, delayed_work_time_, event_>>
runVars   == <<run_loop_, previous_run_loop_, run_depth_, run_called_, running_>>
quitVars  == <<quit_called_, quit_when_idle_received_, quit_now>>
frameVars == <<at, did_work, task, caller>>
allowVars == <<allowing, old_state_>>
lifeVars  == <<life, passes>>
vars == <<queueVars, postVars, loopVars, pumpVars, runVars, quitVars,
          frameVars, allowVars, lifeVars, now, outcome>>

Outcomes == {"new", "refused", "accepted", "running", "done", "deleted"}
Calls == {"DoWork", "DoDelayedWork", "DoIdleWork"}
Places == Calls \cup {"Unborn", "RunTask", "Wait", "TimedWait", "Leave", "Left"}
Lives == {"alive", "deleting", "reloading", "redeleting", "observers", "gone"}

Init ==
  /\ incoming_queue_ = <<>>
  /\ message_loop_ = TRUE
  /\ next_sequence_num_ \in FirstSequence
  /\ work_queue_ = <<>>
  /\ delayed_work_queue_ = {}
  /\ deferred_non_nestable_work_queue_ = <<>>
  /\ nestable_tasks_allowed_ = TRUE
  /\ recent_time_ = 0
  /\ run_loop_ = NoLoop
  /\ keep_running_ = TRUE
  /\ delayed_work_time_ = 0
  /\ event_ = FALSE
  /\ previous_run_loop_ = [l \in RunLoops |-> NoLoop]
  /\ run_depth_ = [l \in RunLoops |-> 0]
  /\ run_called_ = [l \in RunLoops |-> FALSE]
  /\ quit_called_ = [l \in RunLoops |-> FALSE]
  /\ running_ = [l \in RunLoops |-> FALSE]
  /\ quit_when_idle_received_ = [l \in RunLoops |-> FALSE]
  /\ nestable = [t \in Tasks |-> TRUE]
  /\ delayed_run_time = [t \in Tasks |-> 0]
  /\ sequence_num = [t \in Tasks |-> 0]
  /\ at = [l \in RunLoops |-> "Unborn"]
  /\ did_work = [l \in RunLoops |-> FALSE]
  /\ task = [l \in RunLoops |-> NoTask]
  /\ caller = [l \in RunLoops |-> "DoWork"]
  /\ allowing = [l \in RunLoops |-> FALSE]
  /\ old_state_ = [l \in RunLoops |-> FALSE]
  /\ now = 1
  /\ life = "alive" /\ passes = 0
  /\ outcome = [t \in Tasks |-> "new"]
  /\ delay = [t \in Tasks |-> 0]
  /\ prior = [t \in Tasks |-> {}]
  /\ late = {}
  /\ quit_now = {}
-----------------------------------------------------------------------------
\* Sequence numbers and the order of the delayed queue.

\* Mutant: an int of any width.
WrapNever(n) == n

\* A 32-bit int that rolls over.
Wrap(n) == ((n + SeqModulus \div 2) % SeqModulus) - (SeqModulus \div 2)

\* Mutant: no roll-over.
BeforePlain(t, u) ==
  \/ delayed_run_time[t] < delayed_run_time[u]
  \/ /\ delayed_run_time[t] = delayed_run_time[u]
     /\ sequence_num[t] < sequence_num[u]

\* t is nearer to the top of the priority queue than u.
Before(t, u) ==
  \/ delayed_run_time[t] < delayed_run_time[u]
  \/ /\ delayed_run_time[t] = delayed_run_time[u]
     /\ Wrap(sequence_num[u] - sequence_num[t]) > 0

Top(queue) == CHOOSE t \in queue : \A u \in queue \ {t} : Before(t, u)
-----------------------------------------------------------------------------
\* Posting, by any thread: AddToIncomingQueue() and PostPendingTask() under
\* incoming_queue_lock_, with the wake-up of the pump.

\* Tasks that were accepted.
Known == {t \in Tasks : outcome[t] \notin {"new", "refused"}}

\* Mutant: the pump is woken by every post but the first.
WokenLater(was_empty) == ~was_empty

\* ScheduleWork(): only the first task of the queue wakes the pump.
ScheduleWork(was_empty) == was_empty

PostTask(t, nest, d) ==
  /\ outcome[t] = "new"
  /\ message_loop_
  /\ d = 0 \/ now + d <= MaxTime
  /\ nestable' = [nestable EXCEPT ![t] = nest]
  /\ delayed_run_time' = [delayed_run_time EXCEPT ![t] = IF d > 0 THEN now + d ELSE 0]
  /\ sequence_num' = [sequence_num EXCEPT ![t] = next_sequence_num_]
  /\ next_sequence_num_' = Wrap(next_sequence_num_ + 1)
  /\ incoming_queue_' = Append(incoming_queue_, t)
  /\ event_' = (event_ \/ ScheduleWork(incoming_queue_ = <<>>))
  /\ outcome' = [outcome EXCEPT ![t] = "accepted"]
  /\ delay' = [delay EXCEPT ![t] = d]
  /\ prior' = [prior EXCEPT ![t] = Known]
  /\ late' = IF life = "alive" THEN late ELSE late \cup {t}
  /\ UNCHANGED <<work_queue_, delayed_work_queue_, deferred_non_nestable_work_queue_,
                 message_loop_, keep_running_, delayed_work_time_>>
  /\ UNCHANGED <<loopVars, runVars, quitVars, frameVars, allowVars, lifeVars, now>>

\* The loop is gone, or TryPostTask() found the lock taken: the task is consumed.
RefuseTask(t) ==
  /\ outcome[t] = "new"
  /\ outcome' = [outcome EXCEPT ![t] = "refused"]
  /\ UNCHANGED <<queueVars, postVars, loopVars, pumpVars, runVars, quitVars,
                 frameVars, allowVars, lifeVars, now>>
-----------------------------------------------------------------------------
\* Code of the loop's thread outside the loop: a task, or nothing at all.

InTask(l) == run_loop_ = l /\ at[l] = "RunTask"
InClient == life = "alive" /\ (run_loop_ # NoLoop => InTask(run_loop_))

\* SetNestableTasksAllowed(true)
AllowNestable ==
  /\ nestable_tasks_allowed_' = TRUE
  /\ event_' = (event_ \/ ~nestable_tasks_allowed_)

\* RunLoop::Run() or RunUntilIdle() of m, called in the scope of a new
\* ScopedNestableTaskAllower or not.
Run(m, until_idle, allow) ==
  /\ InClient
  /\ ~run_called_[m]
  /\ until_idle \/ m \in OuterLoops
  /\ keep_running_ \/ NestAfterQuit
  /\ run_called_' = [run_called_ EXCEPT ![m] = TRUE]
  /\ quit_when_idle_received_' = [quit_when_idle_received_ EXCEPT ![m] = @ \/ until_idle]
  /\ \/ /\ allow /\ run_loop_ # NoLoop /\ ~allowing[run_loop_]
        /\ allowing' = [allowing EXCEPT ![run_loop_] = TRUE]
        /\ old_state_' = [old_state_ EXCEPT ![run_loop_] = nestable_tasks_allowed_]
        /\ AllowNestable
     \/ ~allow /\ UNCHANGED <<allowVars, nestable_tasks_allowed_, event_>>
  /\ \/ /\ ~quit_called_[m]
        /\ previous_run_loop_' = [previous_run_loop_ EXCEPT ![m] = run_loop_]
        /\ run_depth_' = [run_depth_ EXCEPT ![m] =
             IF run_loop_ = NoLoop THEN 1 ELSE run_depth_[run_loop_] + 1]
        /\ run_loop_' = m
        /\ running_' = [running_ EXCEPT ![m] = TRUE]
        /\ at' = [at EXCEPT ![m] = "DoWork"]
     \/ /\ quit_called_[m]   \* Quit() was called before: Run() returns
        /\ UNCHANGED <<run_loop_, previous_run_loop_, run_depth_, running_, at>>
  /\ UNCHANGED <<recent_time_, keep_running_, delayed_work_time_, quit_called_,
                 quit_now, did_work, task, caller>>
  /\ UNCHANGED <<queueVars, postVars, lifeVars, now, outcome>>

\* The allower goes out of scope.
Disallow(l) ==
  /\ InTask(l) /\ allowing[l]
  /\ allowing' = [allowing EXCEPT ![l] = FALSE]
  /\ nestable_tasks_allowed_' = old_state_[l]
  /\ event_' = (event_ \/ (old_state_[l] /\ ~nestable_tasks_allowed_))
  /\ old_state_' = [old_state_ EXCEPT ![l] = FALSE]
  /\ UNCHANGED <<recent_time_, keep_running_, delayed_work_time_>>
  /\ UNCHANGED <<queueVars, postVars, runVars, quitVars, frameVars, lifeVars, now,
                 outcome>>

unchangedByQuit == <<queueVars, postVars, loopVars, delayed_work_time_, event_,
                     runVars, frameVars, allowVars, lifeVars, now, outcome>>

\* RunLoop::Quit(): only the innermost loop is told at once. (Of a loop that has
\* returned it sets a flag that nothing reads.)
Quit(l) ==
  /\ InClient /\ at[l] # "Left"
  /\ ~quit_called_[l]
  /\ quit_called_' = [quit_called_ EXCEPT ![l] = TRUE]
  /\ keep_running_' = (keep_running_ /\ ~(running_[l] /\ run_loop_ = l))
  /\ UNCHANGED <<quit_when_idle_received_, quit_now>>
  /\ UNCHANGED unchangedByQuit

\* MessageLoop::QuitWhenIdle() and QuitNow(), for the innermost loop.
QuitWhenIdle ==
  /\ InClient /\ run_loop_ # NoLoop
  /\ quit_when_idle_received_' = [quit_when_idle_received_ EXCEPT ![run_loop_] = TRUE]
  /\ UNCHANGED <<keep_running_, quit_called_, quit_now>>
  /\ UNCHANGED unchangedByQuit

QuitNow ==
  /\ InClient /\ run_loop_ # NoLoop
  /\ keep_running_' = FALSE
  /\ quit_now' = quit_now \cup {run_loop_}
  /\ UNCHANGED <<quit_called_, quit_when_idle_received_>>
  /\ UNCHANGED unchangedByQuit
-----------------------------------------------------------------------------
\* The pump of the innermost loop, MessagePumpDefault::Run().

Pumping(l, place) == run_loop_ = l /\ at[l] = place

\* if (!keep_running_) break;
Next_(call) == IF keep_running_ THEN call ELSE "Leave"

Goto(l, call) == at' = [at EXCEPT ![l] = call]

\* RunTask(), up to the call of the closure.
RunTask(l, t, from) ==
  /\ nestable_tasks_allowed_' = FALSE
  /\ task' = [task EXCEPT ![l] = t]
  /\ caller' = [caller EXCEPT ![l] = from]
  /\ outcome' = [outcome EXCEPT ![t] = "running"]
  /\ Goto(l, "RunTask")

\* Mutant: the last task deferred is the first to run.
DeferredFirst(t) == <<t>> \o deferred_non_nestable_work_queue_

RunsNow(l, t) == nestable[t] \/ run_depth_[l] = 1
Deferred(t) == Append(deferred_non_nestable_work_queue_, t)

\* DeferOrRunPendingTask(), after which the pump makes the call "next" if the
\* task was deferred.
DeferOrRun(l, t, from, next) ==
  \/ /\ RunsNow(l, t)
     /\ RunTask(l, t, from)
     /\ UNCHANGED deferred_non_nestable_work_queue_
  \/ /\ ~RunsNow(l, t)
     /\ deferred_non_nestable_work_queue_' = Deferred(t)
     /\ Goto(l, next)
     /\ UNCHANGED <<nestable_tasks_allowed_, task, caller, outcome>>

\* What no step of the pump changes while the loop runs.
unchangedByPump == <<postVars, keep_running_, runVars, quitVars, allowVars,
                     lifeVars, now>>

\* DoWork() may not run a task, or finds none.
DoWorkNothing(l) ==
  /\ Pumping(l, "DoWork")
  /\ nestable_tasks_allowed_ => work_queue_ = <<>> /\ incoming_queue_ = <<>>
  /\ did_work' = [did_work EXCEPT ![l] = FALSE]
  /\ Goto(l, Next_("DoDelayedWork"))
  /\ UNCHANGED <<queueVars, loopVars, delayed_work_time_, event_, task, caller, outcome>>
  /\ UNCHANGED unchangedByPump

\* ReloadWorkQueue()
DoWorkReload(l) ==
  /\ Pumping(l, "DoWork")
  /\ nestable_tasks_allowed_
  /\ work_queue_ = <<>> /\ incoming_queue_ # <<>>
  /\ work_queue_' = incoming_queue_
  /\ incoming_queue_' = <<>>
  /\ UNCHANGED <<delayed_work_queue_, deferred_non_nestable_work_queue_, loopVars,
                 delayed_work_time_, event_, frameVars, outcome>>
  /\ UNCHANGED unchangedByPump

\* The next task of the work queue is delayed,
DoWorkDelayed(l) ==
  /\ Pumping(l, "DoWork")
  /\ nestable_tasks_allowed_
  /\ work_queue_ # <<>>
  /\ delayed_run_time[Head(work_queue_)] # 0
  /\ work_queue_' = Tail(work_queue_)
  /\ delayed_work_queue_' = delayed_work_queue_ \cup {Head(work_queue_)}
  /\ delayed_work_time_' = IF Top(delayed_work_queue_') = Head(work_queue_)
                           THEN delayed_run_time[Head(work_queue_)]
                           ELSE delayed_work_time_
  /\ UNCHANGED <<incoming_queue_, deferred_non_nestable_work_queue_, loopVars,
                 event_, frameVars, outcome>>
  /\ UNCHANGED unchangedByPump

\* or it is run or deferred, and after a deferral the next one is looked at.
DoWorkTask(l) ==
  /\ Pumping(l, "DoWork")
  /\ nestable_tasks_allowed_
  /\ work_queue_ # <<>>
  /\ delayed_run_time[Head(work_queue_)] = 0
  /\ work_queue_' = Tail(work_queue_)
  /\ DeferOrRun(l, Head(work_queue_), "DoWork", "DoWork")
  /\ UNCHANGED <<incoming_queue_, delayed_work_queue_, recent_time_,
                 delayed_work_time_, event_, did_work>>
  /\ UNCHANGED unchangedByPump

\* Mutant: the pump goes idle though it has worked.
AfterDelayedIdle(l) == Next_("DoIdleWork")

\* DoDelayedWork() returned false: continue, or go idle.
AfterDelayed(l) == Next_(IF did_work[l] THEN "DoWork" ELSE "DoIdleWork")

\* DoDelayedWork() has nothing it may run,
DoDelayedNothing(l) ==
  /\ Pumping(l, "DoDelayedWork")
  /\ ~nestable_tasks_allowed_ \/ delayed_work_queue_ = {}
  /\ recent_time_' = 0
  /\ delayed_work_time_' = 0
  /\ Goto(l, AfterDelayed(l))
  /\ UNCHANGED <<queueVars, nestable_tasks_allowed_, event_, did_work, task, caller,
                 outcome>>
  /\ UNCHANGED unchangedByPump

\* Mutants: the clock is not read, or the pump is not told when to wake up.
DueUnread(t) == TRUE
WakeTimeKept(t) == delayed_work_time_

WakeTime(t) == delayed_run_time[t]

\* The top task's time has come, by the last reading of the clock or a new one.
Due(t) == delayed_run_time[t] <= recent_time_ \/ delayed_run_time[t] <= now

\* or its first task is not due,
DoDelayedEarly(l) ==
  /\ Pumping(l, "DoDelayedWork")
  /\ nestable_tasks_allowed_ /\ delayed_work_queue_ # {}
  /\ ~Due(Top(delayed_work_queue_))
  /\ recent_time_' = now
  /\ delayed_work_time_' = WakeTime(Top(delayed_work_queue_))
  /\ Goto(l, AfterDelayed(l))
  /\ UNCHANGED <<queueVars, nestable_tasks_allowed_, event_, did_work, task, caller,
                 outcome>>
  /\ UNCHANGED unchangedByPump

\* or it runs or defers that task.
DoDelayedTask(l) ==
  /\ Pumping(l, "DoDelayedWork")
  /\ nestable_tasks_allowed_ /\ delayed_work_queue_ # {}
  /\ LET t    == Top(delayed_work_queue_)
         rest == delayed_work_queue_ \ {t}
     IN  /\ Due(t)
         /\ recent_time_' =
              IF delayed_run_time[t] <= recent_time_ THEN recent_time_ ELSE now
         /\ delayed_work_queue_' = rest
         /\ delayed_work_time_' = IF rest = {} THEN delayed_work_time_
                                  ELSE delayed_run_time[Top(rest)]
         /\ DeferOrRun(l, t, "DoDelayedWork", AfterDelayed(l))
  /\ UNCHANGED <<incoming_queue_, work_queue_, event_, did_work>>
  /\ UNCHANGED unchangedByPump

\* DoIdleWork() runs a deferred task in the outermost loop,
DoIdleTask(l) ==
  /\ Pumping(l, "DoIdleWork")
  /\ run_depth_[l] = 1 /\ deferred_non_nestable_work_queue_ # <<>>
  /\ deferred_non_nestable_work_queue_' = Tail(deferred_non_nestable_work_queue_)
  /\ RunTask(l, Head(deferred_non_nestable_work_queue_), "DoIdleWork")
  /\ UNCHANGED <<incoming_queue_, work_queue_, delayed_work_queue_, recent_time_,
                 delayed_work_time_, event_, did_work>>
  /\ UNCHANGED unchangedByPump

\* or quits if it is to quit when idle.
DoIdleNothing(l) ==
  /\ Pumping(l, "DoIdleWork")
  /\ run_depth_[l] # 1 \/ deferred_non_nestable_work_queue_ = <<>>
  /\ keep_running_' = (keep_running_ /\ ~quit_when_idle_received_[l])
  /\ Goto(l, IF keep_running_' THEN "Wait" ELSE "Leave")
  /\ UNCHANGED <<queueVars, postVars, loopVars, delayed_work_time_, event_, runVars,
                 quitVars, did_work, task, caller, allowVars, lifeVars, now, outcome>>

\* The task has run: the rest of RunTask() and of the function that called it.
EndTask(l) ==
  /\ InTask(l) /\ ~allowing[l]
  /\ nestable_tasks_allowed_' = TRUE
  /\ outcome' = [outcome EXCEPT ![task[l]] = "done"]
  /\ task' = [task EXCEPT ![l] = NoTask]
  /\ caller' = [caller EXCEPT ![l] = "DoWork"]
  /\ did_work' = [did_work EXCEPT ![l] = TRUE]
  /\ Goto(l, Next_(IF caller[l] = "DoWork" THEN "DoDelayedWork" ELSE "DoWork"))
  /\ UNCHANGED <<queueVars, recent_time_, delayed_work_time_, event_>>
  /\ UNCHANGED unchangedByPump
-----------------------------------------------------------------------------
\* The pump sleeps.

unchangedByWait == <<queueVars, loopVars, did_work, task, caller, outcome>>

Waiting(l) ==
  \/ Pumping(l, "TimedWait")
  \/ Pumping(l, "Wait") /\ delayed_work_time_ = 0

\* event_.Wait() or TimedWait() returns because the event was signalled,
Wake(l) ==
  /\ Waiting(l)
  /\ event_
  /\ event_' = FALSE
  /\ Goto(l, "DoWork")
  /\ UNCHANGED delayed_work_time_
  /\ UNCHANGED unchangedByWait /\ UNCHANGED unchangedByPump

\* TimedWait() is called,
StartTimedWait(l) ==
  /\ Pumping(l, "Wait")
  /\ delayed_work_time_ > now
  /\ Goto(l, "TimedWait")
  /\ UNCHANGED <<delayed_work_time_, event_>>
  /\ UNCHANGED unchangedByWait /\ UNCHANGED unchangedByPump

\* it times out,
TimeOut(l) ==
  /\ Pumping(l, "TimedWait")
  /\ delayed_work_time_ <= now
  /\ Goto(l, "DoWork")
  /\ UNCHANGED <<delayed_work_time_, event_>>
  /\ UNCHANGED unchangedByWait /\ UNCHANGED unchangedByPump

\* or delayed_work_time_ is past and the pump does not wait.
SkipWait(l) ==
  /\ Pumping(l, "Wait")
  /\ delayed_work_time_ # 0 /\ delayed_work_time_ <= now
  /\ delayed_work_time_' = 0
  /\ Goto(l, "DoWork")
  /\ UNCHANGED event_
  /\ UNCHANGED unchangedByWait /\ UNCHANGED unchangedByPump

\* Mutants: the quit of the outer loop is not executed; or every outer loop quits.
DeferredNever(l) == FALSE
DeferredAlways(l) == previous_run_loop_[l] # NoLoop

\* The loop that l was run from was told to quit meanwhile.
DeferredQuit(l) == previous_run_loop_[l] # NoLoop /\ quit_called_[previous_run_loop_[l]]

\* The pump's Run() returns, and AfterRun().
AfterRun(l) ==
  /\ Pumping(l, "Leave")
  /\ running_' = [running_ EXCEPT ![l] = FALSE]
  /\ run_loop_' = previous_run_loop_[l]
  /\ keep_running_' = ~DeferredQuit(l)
  /\ Goto(l, "Left")
  /\ did_work' = [did_work EXCEPT ![l] = FALSE]
  /\ quit_now' = quit_now \ {l}
  /\ UNCHANGED <<queueVars, postVars, loopVars, delayed_work_time_, event_,
                 previous_run_loop_, run_depth_, run_called_, quit_called_,
                 quit_when_idle_received_, task, caller, allowVars, lifeVars, now, outcome>>
-----------------------------------------------------------------------------
\* The destructor.

unchangedByDestructor == <<loopVars, pumpVars, runVars, quitVars, frameVars,
                           allowVars, now>>

Destroy ==
  /\ MayDestroy
  /\ life = "alive" /\ run_loop_ = NoLoop
  /\ life' = "deleting"
  /\ UNCHANGED <<queueVars, postVars, passes, outcome>>
  /\ UNCHANGED unchangedByDestructor

\* Tasks in the queues of the loop's thread.
Held == Range(work_queue_) \cup delayed_work_queue_
          \cup Range(deferred_non_nestable_work_queue_)

DeletePendingTasks ==
  /\ outcome' = [t \in Tasks |-> IF t \in Held THEN "deleted" ELSE outcome[t]]
  /\ work_queue_' = <<>>
  /\ delayed_work_queue_' = {}
  /\ deferred_non_nestable_work_queue_' = <<>>
  /\ UNCHANGED incoming_queue_

DeleteFirst ==
  /\ life = "deleting"
  /\ DeletePendingTasks
  /\ life' = "reloading"
  /\ UNCHANGED <<postVars, passes>>
  /\ UNCHANGED unchangedByDestructor

\* Mutant: the incoming queue is not emptied.
ReloadsNever == FALSE

\* ReloadWorkQueue() loads only into an empty work queue.
Reloads == work_queue_ = <<>>

DeleteReload ==
  /\ life = "reloading"
  /\ IF Reloads
     THEN work_queue_' = incoming_queue_ /\ incoming_queue_' = <<>>
     ELSE UNCHANGED <<work_queue_, incoming_queue_>>
  /\ life' = "redeleting"
  /\ UNCHANGED <<delayed_work_queue_, deferred_non_nestable_work_queue_, postVars,
                 passes, outcome>>
  /\ UNCHANGED unchangedByDestructor

\* The loop ends when there was nothing to delete, or after MaxPasses.
DeleteAgain ==
  /\ life = "redeleting"
  /\ DeletePendingTasks
  /\ passes' = passes + 1
  /\ life' = IF Held # {} /\ passes' < MaxPasses THEN "deleting" ELSE "observers"
  /\ UNCHANGED postVars
  /\ UNCHANGED unchangedByDestructor

\* IncomingTaskQueue::WillDestroyCurrentMessageLoop(), once the destruction
\* observers, who may post, have been told.
WillDestroy ==
  /\ life = "observers"
  /\ message_loop_' = FALSE
  /\ life' = "gone"
  /\ UNCHANGED <<next_sequence_num_, nestable, delayed_run_time, sequence_num, delay,
                 prior, late>>
  /\ UNCHANGED <<queueVars, passes, outcome>>
  /\ UNCHANGED unchangedByDestructor
-----------------------------------------------------------------------------
Tick ==
  /\ now < MaxTime
  /\ now' = now + 1
  /\ UNCHANGED <<queueVars, postVars, loopVars, pumpVars, runVars, quitVars, frameVars,
                 allowVars, lifeVars, outcome>>

Post == \E t \in Tasks :
  \/ \E nest \in BOOLEAN, d \in Delays[t] : PostTask(t, nest, d)
  \/ RefuseTask(t)

\* Steps of the code of tasks and of the thread that they may take or not.
Client ==
  \/ \E m \in RunLoops, until_idle, allow \in BOOLEAN : Run(m, until_idle, allow)
  \/ \E l \in RunLoops : Quit(l)
  \/ QuitWhenIdle \/ QuitNow

\* Steps of the loop's thread that only wait for their turn; tasks end.
Pump(l) ==
  \/ DoWorkNothing(l) \/ DoWorkReload(l) \/ DoWorkDelayed(l) \/ DoWorkTask(l)
  \/ DoDelayedNothing(l) \/ DoDelayedEarly(l) \/ DoDelayedTask(l)
  \/ DoIdleTask(l) \/ DoIdleNothing(l)
  \/ EndTask(l) \/ Disallow(l)
  \/ Wake(l) \/ StartTimedWait(l) \/ TimeOut(l) \/ SkipWait(l)
  \/ AfterRun(l)

Destructor == DeleteFirst \/ DeleteReload \/ DeleteAgain \/ WillDestroy

Next ==
  \/ Post \/ Client \/ Destroy \/ Destructor \/ Tick
  \/ \E l \in RunLoops : Pump(l)

Spec == Init /\ [][Next]_vars

\* The loop's thread is scheduled, its tasks end, and time passes.
FairSpec == Spec /\ WF_vars(\E l \in RunLoops : Pump(l)) /\ WF_vars(Destructor)
                 /\ WF_vars(Tick)
-----------------------------------------------------------------------------
(***************************************************************************)
(* Properties.                                                             *)
(***************************************************************************)

QueueTypes ==
  /\ incoming_queue_ \in Seq(Tasks) /\ work_queue_ \in Seq(Tasks)
  /\ deferred_non_nestable_work_queue_ \in Seq(Tasks)
  /\ delayed_work_queue_ \subseteq Tasks

PostTypes ==
  /\ message_loop_ \in BOOLEAN
  /\ next_sequence_num_ \in SequenceNumbers
  /\ nestable \in [Tasks -> BOOLEAN]
  /\ delayed_run_time \in [Tasks -> 0 .. MaxTime]
  /\ sequence_num \in [Tasks -> SequenceNumbers]
  /\ delay \in [Tasks -> Nat] /\ \A t \in Tasks : delay[t] \in Delays[t] \cup {0}
  /\ prior \in [Tasks -> SUBSET Tasks] /\ late \subseteq Tasks

PumpTypes ==
  /\ nestable_tasks_allowed_ \in BOOLEAN
  /\ keep_running_ \in BOOLEAN /\ event_ \in BOOLEAN
  /\ now \in 1 .. MaxTime /\ recent_time_ \in 0 .. now
  /\ delayed_work_time_ \in 0 .. MaxTime

RunTypes ==
  /\ run_loop_ \in RunLoops \cup {NoLoop}
  /\ previous_run_loop_ \in [RunLoops -> RunLoops \cup {NoLoop}]
  /\ run_depth_ \in [RunLoops -> Nat]
  /\ run_called_ \in [RunLoops -> BOOLEAN] /\ running_ \in [RunLoops -> BOOLEAN]
  /\ quit_called_ \in [RunLoops -> BOOLEAN]
  /\ quit_when_idle_received_ \in [RunLoops -> BOOLEAN]
  /\ quit_now \subseteq RunLoops

FrameTypes ==
  /\ at \in [RunLoops -> Places]
  /\ did_work \in [RunLoops -> BOOLEAN]
  /\ task \in [RunLoops -> Tasks \cup {NoTask}]
  /\ caller \in [RunLoops -> Calls]
  /\ allowing \in [RunLoops -> BOOLEAN] /\ old_state_ \in [RunLoops -> BOOLEAN]

LifeTypes ==
  /\ life \in Lives /\ passes \in 0 .. MaxPasses
  /\ outcome \in [Tasks -> Outcomes]

\* Every variable has its type.
TypeOK ==
  /\ QueueTypes /\ PostTypes /\ PumpTypes /\ RunTypes /\ FrameTypes /\ LifeTypes

Started(t) == outcome[t] \in {"running", "done"}

\* "Called after at least approximately delay_ms have elapsed" (message_loop.h): a
\* delayed task never starts early, though DoDelayedWork() reads the clock only
\* when the last reading does not do.
NeverEarly ==
  \A t \in Tasks : Started(t) => delayed_run_time[t] <= now

\* The loop's thread sleeps in event_.Wait() or TimedWait(), with no signal.
Asleep(l) == Waiting(l) /\ ~event_

\* No lost wake-up.  Only the first task of the incoming queue signals the pump;
\* still, when the pump sleeps and could run a task, no task waits in a queue it
\* should serve, the sleep is not longer than until the first delayed task, and
\* the loop has not been told to quit.
WakesForWork ==
  \A l \in RunLoops : Asleep(l) =>
    /\ keep_running_ /\ ~quit_called_[l] /\ ~quit_when_idle_received_[l]
    /\ nestable_tasks_allowed_ =>
         /\ incoming_queue_ = <<>> /\ work_queue_ = <<>>
         /\ run_depth_[l] = 1 => deferred_non_nestable_work_queue_ = <<>>
         /\ delayed_work_queue_ # {} =>
              /\ at[l] = "TimedWait"
              /\ delayed_work_time_ = delayed_run_time[Top(delayed_work_queue_)]

\* "This blocks until Quit is called" (run_loop.h): Run() returns only to a loop
\* that was told to quit, by RunLoop::Quit(), QuitNow() or QuitWhenIdle(); the quit
\* of another loop does not count.
RunReturnsOnlyWhenQuit ==
  [][\A l \in RunLoops : running_[l] /\ ~running_'[l] =>
       quit_called_[l] \/ quit_when_idle_received_[l] \/ l \in quit_now]_vars

\* keep_running_ is one flag for all loops of the stack; yet a loop that was told to
\* quit, while it was innermost or while others were nested in it, finds the flag
\* cleared when it is the innermost.
QuitNotLost ==
  run_loop_ # NoLoop /\ (quit_called_[run_loop_] \/ run_loop_ \in quit_now)
    => ~keep_running_

\* The pump of l finds nothing to do and quits for being idle.
QuitsIdle(l) ==
  at[l] = "DoIdleWork" /\ at'[l] = "Leave" /\ keep_running_ /\ nestable_tasks_allowed_

DueThen == {t \in delayed_work_queue_ : delayed_run_time[t] <= recent_time_}

\* A loop quits for being idle only when it has run or deferred all that it loaded
\* and, if it is the outermost one, has also run all that was deferred and all that
\* was due when it last read the clock.
IdleMeansIdle ==
  [][\A l \in RunLoops : QuitsIdle(l) =>
       /\ work_queue_ = <<>>
       /\ run_depth_[l] = 1 =>
            deferred_non_nestable_work_queue_ = <<>> /\ DueThen = {}]_vars

\* "Run the current MessageLoop until it doesn't find any tasks" (run_loop.h): nor
\* does a nested loop quit for being idle while a nestable delayed task is due.
IdleRunsAllDue ==
  [][\A l \in RunLoops : QuitsIdle(l) => \A t \in DueThen : ~nestable[t]]_vars

\* "Together with MessageLoop ensures clean shutdown" (incoming_task_queue.h): once
\* the loop is gone, a task is left in the incoming queue only if it was posted
\* while the destructor ran.
OnlyLateLeft ==
  life = "gone" =>
    /\ Held = {}
    /\ Range(incoming_queue_) \subseteq late

\* A nested loop that nobody told to quit.
Endless(l) ==
  running_[l] /\ run_depth_[l] > 1 /\ ~quit_called_[l] /\ ~quit_when_idle_received_[l]

\* A task that was accepted is eventually started or deleted, unless no loop runs,
\* or a nested loop runs for ever that may not run it.
TasksStart ==
  \A t \in Tasks : outcome[t] = "accepted" ~>
    \/ outcome[t] # "accepted"
    \/ run_loop_ = NoLoop
    \/ \E l \in RunLoops :
         Endless(l) /\ (~nestable[t] \/ (~nestable_tasks_allowed_ /\ ~InTask(run_loop_)))

\* A loop that was told to quit returns, unless a loop nested in it never does.
QuitReturns ==
  \A l \in RunLoops : running_[l] /\ (quit_called_[l] \/ quit_when_idle_received_[l]) ~>
    ~running_[l] \/ \E m \in RunLoops : Endless(m) /\ run_depth_[m] > run_depth_[l]
=============================================================================
