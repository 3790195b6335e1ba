----------------------- MODULE MessageLoopRunnerProofs -----------------------
(***************************************************************************)
(* A proof of which promises of sequenced_task_runner.h the message loop   *)
(* keeps: every step of MessageLoop is a step of SequencedTaskRunner, or   *)
(* changes nothing there, or overtakes tasks that a nested loop put off.   *)
(***************************************************************************)
EXTENDS MessageLoopRunner, MessageLoopProofs

-----------------------------------------------------------------------------
\* Which tasks may have others run within them.

\* A task that runs a loop allows it if that loop runs a task, or may; and what an
\* allower restores is that nested tasks are not allowed.
Allowed ==
  /\ \A l, m \in RunLoops :
       running_[l] /\ running_[m] /\ run_depth_[l] < run_depth_[m] /\ at[m] = "RunTask"
         => allowing[l]
  /\ run_loop_ # NoLoop /\ nestable_tasks_allowed_ =>
       \A l \in RunLoops : running_[l] =>
         (l = run_loop_ /\ at[l] # "RunTask") \/ allowing[l]
  /\ \A l \in RunLoops : ~ old_state_[l]

\* How the steps of the pump of l, but its return, change what is allowed.
LEMMA PumpAllows ==
  ASSUME TypeOK, NEW l \in RunLoops, Pump(l), ~ AfterRun(l)
  PROVE  /\ run_loop_ = l /\ UNCHANGED runVars
         /\ \A m \in RunLoops \ {l} : at'[m] = at[m]
         /\ \/ /\ UNCHANGED <<nestable_tasks_allowed_, allowVars>>
               /\ at[l] # "RunTask" /\ at'[l] # "RunTask"
            \/ /\ nestable_tasks_allowed_ \/ run_depth_[l] = 1
               /\ ~ nestable_tasks_allowed_' /\ UNCHANGED allowVars
               /\ at[l] # "RunTask" /\ at'[l] = "RunTask"
            \/ /\ at[l] = "RunTask" /\ at'[l] # "RunTask" /\ ~ allowing[l]
               /\ nestable_tasks_allowed_' /\ UNCHANGED allowVars
            \/ /\ at[l] = "RunTask" /\ at' = at
               /\ nestable_tasks_allowed_' = old_state_[l]
               /\ allowing' = [allowing EXCEPT ![l] = FALSE]
               /\ old_state_' = [old_state_ EXCEPT ![l] = FALSE]
<1> USE DEF Goto, Pumping, InTask, unchangedByPump, frameVars
<1>1. run_loop_ = l /\ UNCHANGED runVars /\ \A m \in RunLoops \ {l} : at'[m] = at[m]
  BY PumpPlaces DEF TypeOK, FrameTypes
<1>2. at \in [RunLoops -> Places]
  BY DEF TypeOK, FrameTypes
<1>3. CASE DoWorkNothing(l)
  <2>1. Next_("DoDelayedWork") # "RunTask"
    BY DEF Next_
  <2> QED
    BY <1>1, <1>2, <1>3, <2>1 DEF DoWorkNothing, loopVars
<1>4. CASE DoWorkReload(l) \/ DoWorkDelayed(l)
  BY <1>1, <1>2, <1>4 DEF DoWorkReload, DoWorkDelayed, loopVars
<1>5. CASE DoWorkTask(l)
  BY <1>1, <1>2, <1>5 DEF DoWorkTask, DeferOrRun, RunTask
<1>6. CASE DoDelayedNothing(l) \/ DoDelayedEarly(l) \/ DoDelayedTask(l)
  <2>1. AfterDelayed(l) # "RunTask"
    BY DEF AfterDelayed, Next_
  <2> QED
    BY <1>1, <1>2, <1>6, <2>1
       DEF DoDelayedNothing, DoDelayedEarly, DoDelayedTask, DeferOrRun, RunTask
<1>7. CASE DoIdleTask(l)
  BY <1>1, <1>2, <1>7 DEF DoIdleTask, RunTask
<1>8. CASE DoIdleNothing(l)
  BY <1>1, <1>2, <1>8 DEF DoIdleNothing, loopVars
<1>9. CASE EndTask(l)
  <2>1. Next_(IF caller[l] = "DoWork" THEN "DoDelayedWork" ELSE "DoWork") # "RunTask"
    BY DEF Next_
  <2> QED
    BY <1>1, <1>2, <1>9, <2>1 DEF EndTask
<1>10. CASE Disallow(l)
  BY <1>1, <1>2, <1>10 DEF Disallow
<1>11. CASE Wake(l) \/ StartTimedWait(l) \/ TimeOut(l) \/ SkipWait(l)
  BY <1>1, <1>2, <1>11
     DEF Wake, StartTimedWait, TimeOut, SkipWait, Waiting, unchangedByWait, loopVars
<1> QED
  BY <1>3, <1>4, <1>5, <1>6, <1>7, <1>8, <1>9, <1>10, <1>11 DEF Pump

\* Every step keeps this.
LEMMA AllowedStep ==
  ASSUME TypeOK, Stack, Allowed, [Next]_vars
  PROVE  Allowed'
<1> USE DEF TypeOK, RunTypes, FrameTypes, PumpTypes
<1>1. ASSUME UNCHANGED <<runVars, at, allowing, old_state_, nestable_tasks_allowed_>>
      PROVE  Allowed'
  BY <1>1 DEF Allowed, runVars
<1>2. CASE Post \/ Destroy \/ Tick \/ Destructor \/ UNCHANGED vars \/ QuitWhenIdle \/ QuitNow
           \/ \E l \in RunLoops : Quit(l)
  BY <1>1, <1>2 DEF Post, PostTask, RefuseTask, Destroy, Tick, Destructor, DeleteFirst,
     DeleteReload, DeleteAgain, WillDestroy, vars, unchangedByDestructor, frameVars,
     allowVars, loopVars, QuitWhenIdle, QuitNow, Quit, unchangedByQuit
<1>3. ASSUME NEW m \in RunLoops, NEW until_idle \in BOOLEAN, NEW allow \in BOOLEAN,
             Run(m, until_idle, allow)
      PROVE  Allowed'
  <2>1. /\ ~ run_called_[m]
        /\ run_loop_ # NoLoop => at[run_loop_] = "RunTask"
    BY <1>3 DEF Run, InClient, InTask
  <2>2. ~ running_[m] /\ m # run_loop_ /\ m # NoLoop
    BY <2>1, TaskAssumption DEF Stack
  <2>3. /\ \A l \in RunLoops : ~ old_state_'[l]
        /\ \A l \in RunLoops : allowing[l] => allowing'[l]
        /\ run_loop_ # NoLoop /\ nestable_tasks_allowed_' => allowing'[run_loop_]
    <3>1. CASE /\ run_loop_ # NoLoop /\ ~ allowing[run_loop_]
               /\ allowing' = [allowing EXCEPT ![run_loop_] = TRUE]
               /\ old_state_' = [old_state_ EXCEPT ![run_loop_] = nestable_tasks_allowed_]
      <4>1. run_loop_ \in RunLoops /\ running_[run_loop_]
        BY <3>1 DEF Stack
      <4>2. ~ nestable_tasks_allowed_
        BY <2>1, <3>1, <4>1 DEF Allowed
      <4> QED
        BY <3>1, <4>1, <4>2 DEF Allowed
    <3>2. CASE UNCHANGED <<allowVars, nestable_tasks_allowed_>>
      <4>1. run_loop_ # NoLoop => run_loop_ \in RunLoops /\ running_[run_loop_]
        BY DEF Stack
      <4> QED
        BY <2>1, <3>2, <4>1 DEF Allowed, allowVars
    <3> QED
      BY <1>3, <3>1, <3>2 DEF Run
  <2>4. CASE UNCHANGED <<run_loop_, run_depth_, running_, at>>
    <3>1. ASSUME run_loop_ # NoLoop, nestable_tasks_allowed_', NEW l \in RunLoops, running_[l]
          PROVE  allowing'[l]
      <4>1. CASE l = run_loop_
        BY <2>3, <3>1, <4>1
      <4>2. CASE l # run_loop_
        <5>1. run_depth_[l] < run_depth_[run_loop_] /\ running_[run_loop_]
          BY <3>1, <4>2 DEF Stack
        <5> QED
          BY <2>1, <2>3, <3>1, <5>1 DEF Allowed
      <4> QED
        BY <4>1, <4>2
    <3> QED
      BY <2>3, <2>4, <3>1 DEF Allowed
  <2>5. CASE /\ run_loop_' = m
             /\ run_depth_' = [run_depth_ EXCEPT ![m] =
                  IF run_loop_ = NoLoop THEN 1 ELSE run_depth_[run_loop_] + 1]
             /\ running_' = [running_ EXCEPT ![m] = TRUE]
             /\ at' = [at EXCEPT ![m] = "DoWork"]
    <3>1. /\ run_loop_ = NoLoop => run_depth_'[m] = 1
          /\ run_loop_ # NoLoop => run_depth_'[m] = run_depth_[run_loop_] + 1
          /\ running_'[m] /\ at'[m] = "DoWork"
      BY <2>5
    <3>2. \A l \in RunLoops \ {m} :
            /\ run_depth_'[l] = run_depth_[l]
            /\ running_'[l] = running_[l] /\ at'[l] = at[l]
      BY <2>5
    <3>3. ASSUME NEW l \in RunLoops, running_'[l], l # m
          PROVE  run_depth_'[l] < run_depth_'[m] /\ run_loop_ # NoLoop
      BY <3>1, <3>2, <3>3 DEF Stack
    <3>4. ASSUME NEW l \in RunLoops, NEW k \in RunLoops, running_'[l], running_'[k],
                 run_depth_'[l] < run_depth_'[k], at'[k] = "RunTask"
          PROVE  allowing'[l]
      <4>1. k # m
        BY <3>1, <3>4
      <4>2. l # m
        <5>1. SUFFICES ASSUME l = m PROVE FALSE
          OBVIOUS
        <5>2. run_depth_'[k] < run_depth_'[m] /\ run_loop_ # NoLoop
          BY <3>3, <3>4, <4>1
        <5>3. run_depth_'[m] \in Nat /\ run_depth_'[k] \in Nat
          BY <3>1, <3>2, <4>1, <5>2
        <5> QED
          BY <3>4, <5>1, <5>2, <5>3
      <4> QED
        BY <2>3, <3>2, <3>4, <4>1, <4>2 DEF Allowed
    <3>5. ASSUME nestable_tasks_allowed_', NEW l \in RunLoops, running_'[l]
          PROVE  (l = m /\ at'[l] # "RunTask") \/ allowing'[l]
      <4>1. CASE l = m
        BY <3>1, <4>1
      <4>2. CASE l = run_loop_
        BY <2>3, <3>5, <4>2, TaskAssumption
      <4>3. CASE l # m /\ l # run_loop_
        <5>1. run_loop_ # NoLoop /\ running_[l]
          BY <3>2, <3>3, <3>5, <4>3
        <5>2. run_depth_[l] < run_depth_[run_loop_] /\ running_[run_loop_]
          BY <4>3, <5>1 DEF Stack
        <5> QED
          BY <2>1, <2>3, <5>1, <5>2 DEF Allowed
      <4> QED
        BY <4>1, <4>2, <4>3
    <3> QED
      BY <2>3, <2>5, <3>4, <3>5 DEF Allowed
  <2> QED
    BY <1>3, <2>4, <2>5 DEF Run
<1>4. ASSUME NEW l \in RunLoops, Pump(l), ~ AfterRun(l)
      PROVE  Allowed'
  <2>1. /\ run_loop_ = l /\ UNCHANGED runVars /\ l # NoLoop
        /\ \A m \in RunLoops \ {l} : at'[m] = at[m]
    BY <1>4, PumpAllows, TaskAssumption
  <2>2. running_[l]
    BY <2>1 DEF Stack
  <2>3. \A m \in RunLoops \ {l} : running_[m] => run_depth_[m] < run_depth_[l]
    BY <2>1 DEF Stack
  <2>4. CASE /\ UNCHANGED <<nestable_tasks_allowed_, allowVars>>
             /\ at[l] # "RunTask" /\ at'[l] # "RunTask"
    <3>1. \A m \in RunLoops : at'[m] = "RunTask" <=> at[m] = "RunTask"
      BY <2>1, <2>4
    <3> QED
      BY <2>1, <2>4, <3>1 DEF Allowed, runVars, allowVars
  <2>5. CASE /\ nestable_tasks_allowed_ \/ run_depth_[l] = 1
             /\ ~ nestable_tasks_allowed_' /\ UNCHANGED allowVars
             /\ at[l] # "RunTask" /\ at'[l] = "RunTask"
    <3>1. \A m \in RunLoops \ {l} : running_[m] => allowing[m]
      <4>1. CASE nestable_tasks_allowed_
        BY <2>1, <4>1 DEF Allowed
      <4>2. CASE run_depth_[l] = 1
        <5>1. \A m \in RunLoops : running_[m] => run_depth_[m] >= 1
          BY SMTT(30) DEF Stack
        <5> QED
          BY <2>3, <4>2, <5>1
      <4> QED
        BY <2>5, <4>1, <4>2
    <3>2. ASSUME NEW k \in RunLoops, NEW m \in RunLoops, running_[k], running_[m],
                 run_depth_[k] < run_depth_[m], at'[m] = "RunTask"
          PROVE  allowing[k]
      <4>1. CASE m = l
        BY <3>1, <3>2, <4>1
      <4>2. CASE m # l
        BY <2>1, <3>2, <4>2 DEF Allowed
      <4> QED
        BY <4>1, <4>2
    <3> QED
      BY <2>1, <2>5, <3>2 DEF Allowed, runVars, allowVars
  <2>6. CASE /\ at[l] = "RunTask" /\ at'[l] # "RunTask" /\ ~ allowing[l]
             /\ nestable_tasks_allowed_' /\ UNCHANGED allowVars
    <3>1. \A m \in RunLoops \ {l} : running_[m] => allowing[m]
      BY <2>2, <2>3, <2>6 DEF Allowed
    <3>2. \A m \in RunLoops : at'[m] = "RunTask" => at[m] = "RunTask"
      BY <2>1, <2>6
    <3> QED
      BY <2>1, <2>6, <3>1, <3>2 DEF Allowed, runVars, allowVars
  <2>7. CASE /\ at[l] = "RunTask" /\ at' = at
             /\ nestable_tasks_allowed_' = old_state_[l]
             /\ allowing' = [allowing EXCEPT ![l] = FALSE]
             /\ old_state_' = [old_state_ EXCEPT ![l] = FALSE]
    <3>1. ~ nestable_tasks_allowed_' /\ \A m \in RunLoops : ~ old_state_'[m]
      BY <2>7 DEF Allowed
    <3>2. \A m \in RunLoops \ {l} : allowing'[m] = allowing[m]
      BY <2>7
    <3>3. ASSUME NEW k \in RunLoops, NEW m \in RunLoops, running_[k], running_[m],
                 run_depth_[k] < run_depth_[m], at[m] = "RunTask"
          PROVE  allowing'[k]
      <4>1. k # l
        BY <2>3, <3>3
      <4> QED
        BY <3>2, <3>3, <4>1 DEF Allowed
    <3> QED
      BY <2>1, <2>7, <3>1, <3>3 DEF Allowed, runVars
  <2> QED
    BY <1>4, <2>4, <2>5, <2>6, <2>7, PumpAllows
<1>5. ASSUME NEW l \in RunLoops, AfterRun(l)
      PROVE  Allowed'
  <2> DEFINE p == previous_run_loop_[l]
  <2>1. /\ run_loop_ = l /\ l # NoLoop /\ running_' = [running_ EXCEPT ![l] = FALSE]
        /\ run_loop_' = p /\ at' = [at EXCEPT ![l] = "Left"] /\ at[l] = "Leave"
        /\ UNCHANGED <<run_depth_, allowing, old_state_, nestable_tasks_allowed_>>
    BY <1>5, TaskAssumption DEF AfterRun, Pumping, Goto, allowVars, loopVars
  <2>2. \A m \in RunLoops : /\ running_'[m] <=> running_[m] /\ m # l
                            /\ at'[m] = "RunTask" <=> at[m] = "RunTask"
    BY <2>1
  <2>3. ASSUME nestable_tasks_allowed_, NEW m \in RunLoops, running_[m], m # l
        PROVE  allowing[m]
    BY <2>1, <2>3 DEF Allowed
  <2> QED
    BY <2>1, <2>2, <2>3 DEF Allowed
<1> QED
  BY <1>2, <1>3, <1>4, <1>5 DEF Next, Client
-----------------------------------------------------------------------------
\* How the pump moves one task.

\* t leaves the queue that it is the first of.
TakenFromWork(t) ==
  /\ work_queue_ # <<>> /\ t = Head(work_queue_) /\ work_queue_' = Tail(work_queue_)
  /\ UNCHANGED incoming_queue_

TakenFromDelayed(t) ==
  /\ delayed_work_queue_ # {} /\ t = Top(delayed_work_queue_)
  /\ delayed_work_queue_' = delayed_work_queue_ \ {t}
  /\ UNCHANGED <<incoming_queue_, work_queue_>>

TakenFromDeferred(t) ==
  /\ deferred_non_nestable_work_queue_ # <<>>
  /\ t = Head(deferred_non_nestable_work_queue_)
  /\ deferred_non_nestable_work_queue_' = Tail(deferred_non_nestable_work_queue_)
  /\ UNCHANGED <<incoming_queue_, work_queue_, delayed_work_queue_>>

\* It is started in loop l,
Starts(l, t) ==
  /\ at[l] # "RunTask" /\ at'[l] = "RunTask"
  /\ task' = [task EXCEPT ![l] = t]
  /\ outcome' = [outcome EXCEPT ![t] = "running"]

\* or deferred.
Defers(t) ==
  /\ ~ nestable[t]
  /\ deferred_non_nestable_work_queue_' = Append(deferred_non_nestable_work_queue_, t)
  /\ UNCHANGED <<task, outcome>>

SameFrames == \A m \in RunLoops : at'[m] = "RunTask" <=> at[m] = "RunTask"

\* What DoWork(), DoDelayedWork(), DoIdleWork() and the end of a task do to the tasks.
ReloadMove ==
  /\ work_queue_ = <<>> /\ work_queue_' = incoming_queue_ /\ incoming_queue_' = <<>>
  /\ UNCHANGED <<delayed_work_queue_, deferred_non_nestable_work_queue_, task, outcome>>
  /\ SameFrames

DelayMove(t) ==
  /\ TakenFromWork(t) /\ delayed_run_time[t] # 0
  /\ delayed_work_queue_' = delayed_work_queue_ \cup {t}
  /\ UNCHANGED <<deferred_non_nestable_work_queue_, task, outcome>>
  /\ SameFrames

TurnMove(l, t) ==
  /\ \/ TakenFromWork(t) /\ delayed_run_time[t] = 0 /\ UNCHANGED delayed_work_queue_
     \/ TakenFromDelayed(t)
  /\ nestable_tasks_allowed_ /\ at[l] # "RunTask"
  /\ \/ /\ Starts(l, t)
        /\ nestable[t] \/ run_depth_[l] = 1
        /\ UNCHANGED deferred_non_nestable_work_queue_
     \/ Defers(t) /\ SameFrames

IdleMove(l, t) ==
  /\ TakenFromDeferred(t) /\ Starts(l, t) /\ run_depth_[l] = 1

EndMove(l) ==
  /\ at[l] = "RunTask" /\ at'[l] # "RunTask"
  /\ task' = [task EXCEPT ![l] = NoTask]
  /\ outcome' = [outcome EXCEPT ![task[l]] = "done"]
  /\ UNCHANGED queueVars

NoMove == UNCHANGED <<queueVars, task, outcome>> /\ SameFrames

\* Every step of the pump is one of these.
LEMMA PumpTasks ==
  ASSUME Sound, Stack, NEW l \in RunLoops, Pump(l)
  PROVE  /\ run_loop_ = l /\ running_[l] /\ life = "alive" /\ UNCHANGED <<postVars, life>>
         /\ \A m \in RunLoops \ {l} : at'[m] = at[m]
         /\ \/ NoMove \/ ReloadMove \/ EndMove(l)
            \/ \E t \in Tasks : DelayMove(t) \/ TurnMove(l, t) \/ IdleMove(l, t)
<1> USE DEF Goto, Pumping, InTask, unchangedByPump, frameVars, lifeVars, Sound
<1>1. at \in [RunLoops -> Places]
  BY DEF TypeOK, FrameTypes
<1>2. /\ UNCHANGED <<postVars, life>>
      /\ run_loop_ = l
  BY DEF Pump, DoDelayedNothing, DoWorkNothing, DoDelayedEarly, DoIdleNothing,
         Disallow, Wake, StartTimedWait, TimeOut, SkipWait, AfterRun, DoWorkReload,
         DoWorkDelayed, DoWorkTask, DoDelayedTask, DoIdleTask, EndTask, Waiting
<1>3. running_[l] /\ life = "alive"
  BY <1>2, TaskAssumption DEF Stack, Dying
<1>4. \A m \in RunLoops \ {l} : at'[m] = at[m]
  <2>1. CASE AfterRun(l)
    BY <1>1, <2>1 DEF AfterRun
  <2>2. CASE ~ AfterRun(l)
    BY <2>2, PumpAllows
  <2> QED
    BY <2>1, <2>2
<1>5. ASSUME at[l] # "RunTask", at'[l] # "RunTask"
      PROVE  SameFrames
  BY <1>4, <1>5 DEF SameFrames
<1>6. \A call : call # "RunTask" => Next_(call) # "RunTask"
  BY DEF Next_
<1>7. AfterDelayed(l) # "RunTask"
  BY <1>6 DEF AfterDelayed
<1>8. CASE DoWorkNothing(l) \/ DoDelayedNothing(l) \/ DoDelayedEarly(l) \/ DoIdleNothing(l)
  <2>1. UNCHANGED <<queueVars, task, outcome>> /\ at[l] # "RunTask"
    BY <1>8 DEF DoWorkNothing, DoDelayedNothing, DoDelayedEarly, DoIdleNothing
  <2>2. at'[l] # "RunTask"
    BY <1>1, <1>6, <1>7, <1>8
       DEF DoWorkNothing, DoDelayedNothing, DoDelayedEarly, DoIdleNothing
  <2> QED
    BY <1>2, <1>3, <1>4, <1>5, <2>1, <2>2 DEF NoMove
<1>9. CASE Wake(l) \/ StartTimedWait(l) \/ TimeOut(l) \/ SkipWait(l) \/ AfterRun(l)
           \/ Disallow(l)
  <2>1. UNCHANGED <<queueVars, task, outcome>>
    BY <1>9 DEF Wake, StartTimedWait, TimeOut, SkipWait, AfterRun, Disallow, unchangedByWait
  <2>2. (at[l] # "RunTask" /\ at'[l] # "RunTask") \/ at' = at
    BY <1>1, <1>9 DEF Wake, StartTimedWait, TimeOut, SkipWait, AfterRun, Disallow, Waiting
  <2>3. SameFrames
    BY <1>5, <2>2 DEF SameFrames
  <2> QED
    BY <1>2, <1>3, <1>4, <2>1, <2>3 DEF NoMove
<1>10. CASE DoWorkReload(l)
  <2>1. ReloadMove
    BY <1>10 DEF DoWorkReload, ReloadMove, SameFrames
  <2> QED
    BY <1>2, <1>3, <1>4, <2>1
<1>11. CASE DoWorkDelayed(l)
  <2>1. Head(work_queue_) \in Tasks
    BY <1>11, Elements DEF DoWorkDelayed, TypeOK, QueueTypes
  <2>2. DelayMove(Head(work_queue_))
    BY <1>11 DEF DoWorkDelayed, DelayMove, TakenFromWork, SameFrames
  <2> QED
    BY <1>2, <1>3, <1>4, <2>1, <2>2
<1>12. ASSUME NEW t \in Tasks, NEW from \in Calls, NEW next, next # "RunTask",
              DeferOrRun(l, t, from, next), at[l] # "RunTask"
       PROVE  \/ /\ Starts(l, t)
                 /\ nestable[t] \/ run_depth_[l] = 1
                 /\ UNCHANGED deferred_non_nestable_work_queue_
              \/ Defers(t) /\ SameFrames
  <2>1. CASE RunsNow(l, t) /\ RunTask(l, t, from) /\ UNCHANGED deferred_non_nestable_work_queue_
    <3>1. at'[l] = "RunTask"
      BY <1>1, <2>1 DEF RunTask
    <3> QED
      BY <1>12, <2>1, <3>1 DEF RunTask, RunsNow, Starts
  <2>2. CASE /\ ~RunsNow(l, t)
             /\ deferred_non_nestable_work_queue_' = Deferred(t)
             /\ Goto(l, next)
             /\ UNCHANGED <<nestable_tasks_allowed_, task, caller, outcome>>
    <3>1. at'[l] # "RunTask"
      BY <1>1, <1>12, <2>2
    <3> QED
      BY <1>5, <1>12, <2>2, <3>1 DEF RunsNow, Defers, Deferred
  <2> QED
    BY <1>12, <2>1, <2>2 DEF DeferOrRun
<1>13. CASE DoWorkTask(l)
  <2> DEFINE t == Head(work_queue_)
  <2>1. t \in Tasks
    BY <1>13, Elements DEF DoWorkTask, TypeOK, QueueTypes
  <2>2. /\ TakenFromWork(t) /\ delayed_run_time[t] = 0 /\ UNCHANGED delayed_work_queue_
        /\ nestable_tasks_allowed_ /\ at[l] # "RunTask"
        /\ DeferOrRun(l, t, "DoWork", "DoWork")
    BY <1>13 DEF DoWorkTask, TakenFromWork
  <2> HIDE DEF t
  <2>3. \/ /\ Starts(l, t)
           /\ nestable[t] \/ run_depth_[l] = 1
           /\ UNCHANGED deferred_non_nestable_work_queue_
        \/ Defers(t) /\ SameFrames
    BY <1>12, <2>1, <2>2 DEF Calls
  <2> QED
    BY <1>2, <1>3, <1>4, <2>1, <2>2, <2>3 DEF TurnMove
<1>14. CASE DoDelayedTask(l)
  <2> DEFINE t == Top(delayed_work_queue_)
  <2>1. t \in Tasks
    <3>1. delayed_work_queue_ \in SUBSET Known /\ delayed_work_queue_ # {}
      BY <1>14 DEF DoDelayedTask, Met, Held
    <3> QED
      BY <3>1, TopIs DEF TypeOK, Known
  <2>2. /\ TakenFromDelayed(t)
        /\ nestable_tasks_allowed_ /\ at[l] # "RunTask"
        /\ DeferOrRun(l, t, "DoDelayedWork", AfterDelayed(l))
    BY <1>14 DEF DoDelayedTask, TakenFromDelayed
  <2> HIDE DEF t
  <2>3. \/ /\ Starts(l, t)
           /\ nestable[t] \/ run_depth_[l] = 1
           /\ UNCHANGED deferred_non_nestable_work_queue_
        \/ Defers(t) /\ SameFrames
    BY <1>7, <1>12, <2>1, <2>2 DEF Calls
  <2> QED
    BY <1>2, <1>3, <1>4, <2>1, <2>2, <2>3 DEF TurnMove
<1>15. CASE DoIdleTask(l)
  <2> DEFINE t == Head(deferred_non_nestable_work_queue_)
  <2>1. t \in Tasks
    BY <1>15, Elements DEF DoIdleTask, TypeOK, QueueTypes
  <2>2. RunTask(l, t, "DoIdleWork") /\ at[l] # "RunTask" /\ run_depth_[l] = 1
        /\ TakenFromDeferred(t)
    BY <1>15 DEF DoIdleTask, TakenFromDeferred
  <2> HIDE DEF t
  <2>3. IdleMove(l, t)
    BY <1>1, <2>2 DEF RunTask, Starts, IdleMove
  <2> QED
    BY <1>2, <1>3, <1>4, <2>1, <2>3
<1>16. CASE EndTask(l)
  <2>1. at'[l] # "RunTask"
    BY <1>1, <1>6, <1>16 DEF EndTask
  <2>2. EndMove(l)
    BY <1>16, <2>1 DEF EndTask, EndMove
  <2> QED
    BY <1>2, <1>3, <1>4, <2>2
<1> QED
  BY <1>8, <1>9, <1>10, <1>11, <1>13, <1>14, <1>15, <1>16 DEF Pump

\* What a post keeps of the tasks that were accepted before.
Keeps == UNCHANGED <<nestable, delayed_run_time, delay, prior>>

\* What one step does to the tasks.
DropMove == DeletePendingTasks /\ UNCHANGED task /\ SameFrames

PumpMove(l) ==
  \/ EndMove(l)
  \/ \E t \in Tasks : DelayMove(t) \/ TurnMove(l, t) \/ IdleMove(l, t)

\* Every step is a post or moves the tasks in one of these ways.
LEMMA StepTasks ==
  ASSUME Sound, Stack, [Next]_vars
  PROVE  /\ now' >= now
         /\ \/ \E t \in Tasks, nest \in BOOLEAN : \E d \in Delays[t] : PostTask(t, nest, d)
            \/ /\ Keeps
               /\ \/ NoMove \/ ReloadMove
                  \/ \E t \in Tasks : RefuseTask(t)
                  \/ \E l \in RunLoops : /\ run_loop_ = l /\ running_[l] /\ life = "alive"
                                         /\ PumpMove(l)
                                         /\ \A m \in RunLoops \ {l} : at'[m] = at[m]
                  \/ life # "alive" /\ DropMove
<1> DEFINE Rest ==
      \/ NoMove \/ ReloadMove
      \/ \E t \in Tasks : RefuseTask(t)
      \/ \E l \in RunLoops : /\ run_loop_ = l /\ running_[l] /\ life = "alive"
                             /\ PumpMove(l)
                             /\ \A m \in RunLoops \ {l} : at'[m] = at[m]
      \/ life # "alive" /\ DropMove
<1>1. now \in Nat
  BY MaxTimeIs DEF Sound, TypeOK, PumpTypes
<1>2. now' >= now
  <2>1. now' = now \/ now' = now + 1
    BY DEF Next, Post, PostTask, RefuseTask, Client, Run, Quit, QuitWhenIdle, QuitNow,
           unchangedByQuit, Destroy, Tick, Destructor, DeleteFirst, DeleteReload,
           DeleteAgain, WillDestroy, unchangedByDestructor, Pump, DoDelayedNothing,
           DoWorkNothing, DoDelayedEarly, DoIdleNothing, Disallow, Wake, StartTimedWait,
           TimeOut, SkipWait, AfterRun, DoWorkReload, DoWorkDelayed, DoWorkTask,
           DoDelayedTask, DoIdleTask, EndTask, unchangedByPump, vars
  <2> QED
    BY <1>1, <2>1
<1>3. ASSUME UNCHANGED <<queueVars, task, outcome, at, nestable, delayed_run_time, delay,
                         prior>>
      PROVE  Keeps /\ Rest
  BY <1>3 DEF Keeps, NoMove, SameFrames, queueVars
<1>4. ASSUME \E t \in Tasks : RefuseTask(t)
      PROVE  Keeps /\ Rest
  BY <1>4 DEF RefuseTask, Keeps, postVars
<1>5. ASSUME NEW l \in RunLoops, Pump(l)
      PROVE  Keeps /\ Rest
  <2>1. /\ run_loop_ = l /\ running_[l] /\ life = "alive" /\ UNCHANGED <<postVars, life>>
        /\ \A m \in RunLoops \ {l} : at'[m] = at[m]
        /\ \/ NoMove \/ ReloadMove \/ EndMove(l)
           \/ \E t \in Tasks : DelayMove(t) \/ TurnMove(l, t) \/ IdleMove(l, t)
    BY <1>5, PumpTasks
  <2>2. Keeps
    BY <2>1 DEF Keeps, postVars
  <2>3. PumpMove(l) \/ NoMove \/ ReloadMove
    BY <2>1 DEF PumpMove
  <2> QED
    BY <2>1, <2>2, <2>3
<1>6. ASSUME NEW m \in RunLoops, NEW until_idle \in BOOLEAN, NEW allow \in BOOLEAN,
             Run(m, until_idle, allow)
      PROVE  Keeps /\ Rest
  <2>1. UNCHANGED <<queueVars, task, outcome>> /\ Keeps
    BY <1>6 DEF Run, Keeps, postVars
  <2>2. ~ run_called_[m]
    BY <1>6 DEF Run
  <2>3. ~ running_[m]
    BY <2>2 DEF Stack
  <2>4. at[m] # "RunTask"
    BY <2>3 DEF Stack, Running
  <2>5. at' = [at EXCEPT ![m] = "DoWork"] \/ at' = at
    BY <1>6 DEF Run
  <2>6. SameFrames
    BY <2>4, <2>5 DEF SameFrames, Sound, TypeOK, FrameTypes
  <2> QED
    BY <2>1, <2>6 DEF NoMove
<1>7. ASSUME \/ Tick \/ Destroy \/ UNCHANGED vars \/ QuitWhenIdle \/ QuitNow \/ WillDestroy
             \/ \E l \in RunLoops : Quit(l)
      PROVE  Keeps /\ Rest
  BY <1>3, <1>7 DEF Tick, Destroy, vars, QuitWhenIdle, QuitNow, WillDestroy, Quit,
     unchangedByQuit, unchangedByDestructor, frameVars, postVars
<1>8. ASSUME DeleteFirst \/ DeleteAgain
      PROVE  Keeps /\ Rest
  <2>1. DropMove /\ life # "alive" /\ Keeps
    BY <1>8 DEF DeleteFirst, DeleteAgain, DropMove, SameFrames, unchangedByDestructor,
       frameVars, Keeps, postVars
  <2> QED
    BY <2>1
<1>9. ASSUME DeleteReload
      PROVE  Keeps /\ Rest
  <2>1. /\ Keeps /\ SameFrames
        /\ UNCHANGED <<delayed_work_queue_, deferred_non_nestable_work_queue_, task, outcome>>
    BY <1>9 DEF DeleteReload, SameFrames, unchangedByDestructor, frameVars, Keeps, postVars
  <2>2. \/ work_queue_ = <<>> /\ work_queue_' = incoming_queue_ /\ incoming_queue_' = <<>>
        \/ UNCHANGED <<work_queue_, incoming_queue_>>
    BY <1>9 DEF DeleteReload, Reloads
  <2> QED
    BY <2>1, <2>2 DEF NoMove, ReloadMove, queueVars
<1> HIDE DEF Rest
<1>10. \/ \E t \in Tasks, nest \in BOOLEAN : \E d \in Delays[t] : PostTask(t, nest, d)
       \/ Keeps /\ Rest
  BY <1>4, <1>5, <1>6, <1>7, <1>8, <1>9 DEF Next, Post, Client, Destructor
<1> QED
  BY <1>2, <1>10 DEF Rest
-----------------------------------------------------------------------------
\* The order of the queues.

\* A queue of which each task was accepted before those behind it.
Sorted(q, p) == \A i, j \in DOMAIN q : i < j => q[i] \in p[q[j]]

\* Of such a queue the head comes before the rest, which is one too.
LEMMA SortedTail ==
  ASSUME NEW q \in Seq(Tasks), q # <<>>, NEW p, Sorted(q, p)
  PROVE  /\ Sorted(Tail(q), p)
         /\ \A s \in Range(Tail(q)) : Head(q) \in p[s]
<1>1. /\ Len(q) \in Nat \ {0} /\ DOMAIN q = 1 .. Len(q)
      /\ Tail(q) \in Seq(Tasks) /\ DOMAIN Tail(q) = 1 .. Len(q) - 1
      /\ \A i \in 1 .. Len(q) - 1 : Tail(q)[i] = q[i + 1]
      /\ Head(q) = q[1]
  BY EmptySeq, HeadTailProperties, LenProperties
<1>2. ASSUME NEW i \in DOMAIN Tail(q), NEW j \in DOMAIN Tail(q), i < j
      PROVE  Tail(q)[i] \in p[Tail(q)[j]]
  <2>1. i + 1 \in DOMAIN q /\ j + 1 \in DOMAIN q /\ i + 1 < j + 1
    BY <1>1, <1>2
  <2>2. q[i + 1] \in p[q[j + 1]]
    BY <2>1 DEF Sorted
  <2> QED
    BY <1>1, <2>2
<1>3. ASSUME NEW i \in DOMAIN Tail(q)
      PROVE  Head(q) \in p[Tail(q)[i]]
  <2>1. 1 \in DOMAIN q /\ i + 1 \in DOMAIN q /\ 1 < i + 1
    BY <1>1
  <2>2. q[1] \in p[q[i + 1]]
    BY <2>1 DEF Sorted
  <2> QED
    BY <1>1, <2>2
<1> QED
  BY <1>2, <1>3 DEF Sorted, Range

\* A task that all of them came before may join at its end.
LEMMA SortedAppend ==
  ASSUME NEW q \in Seq(Tasks), NEW t \in Tasks, NEW p, NEW r, Sorted(q, p),
         \A s \in Range(q) : r[s] = p[s],
         Range(q) \subseteq r[t]
  PROVE  Sorted(Append(q, t), r)
<1> DEFINE a == Append(q, t)
<1>1. /\ Len(q) \in Nat /\ DOMAIN q = 1 .. Len(q) /\ DOMAIN a = 1 .. Len(q) + 1
      /\ \A i \in 1 .. Len(q) : a[i] = q[i]
      /\ a[Len(q) + 1] = t
  BY AppendProperties, LenProperties
<1>2. \A i \in DOMAIN q : q[i] \in Range(q)
  BY DEF Range
<1> HIDE DEF a
<1>3. ASSUME NEW i \in DOMAIN a, NEW j \in DOMAIN a, i < j
      PROVE  a[i] \in r[a[j]]
  <2>1. i \in DOMAIN q /\ a[i] = q[i]
    BY <1>1, <1>3
  <2>2. CASE j = Len(q) + 1
    BY <1>1, <1>2, <2>1, <2>2
  <2>3. CASE j # Len(q) + 1
    <3>1. j \in DOMAIN q /\ a[j] = q[j]
      BY <1>1, <2>3
    <3>2. q[i] \in p[q[j]]
      BY <1>3, <2>1, <3>1 DEF Sorted
    <3> QED
      BY <1>2, <2>1, <3>1, <3>2
  <2> QED
    BY <2>2, <2>3
<1> QED
  BY <1>3 DEF Sorted, a

\* No task is in it twice.
LEMMA SortedOnce ==
  ASSUME NEW q \in Seq(Tasks), NEW p, Sorted(q, p), \A s \in Range(q) : s \notin p[s]
  PROVE  IsInjective(q)
<1>1. DOMAIN q = 1 .. Len(q) /\ Len(q) \in Nat
  BY LenProperties
<1>2. ASSUME NEW i \in DOMAIN q, NEW j \in DOMAIN q, i < j
      PROVE  q[i] # q[j]
  BY <1>2 DEF Sorted, Range
<1>3. ASSUME NEW i \in DOMAIN q, NEW j \in DOMAIN q, q[i] = q[j]
      PROVE  i = j
  BY <1>1, <1>2, <1>3
<1> QED
  BY <1>3 DEF IsInjective

\* The queues are in the order of posting, and what is delayed or deferred was posted
\* before what waits in the work queue, and that before the incoming queue.
Fifo ==
  /\ Sorted(work_queue_, prior) /\ Sorted(incoming_queue_, prior)
  /\ \A t \in Range(work_queue_), u \in Range(incoming_queue_) : t \in prior[u]
  /\ \A t \in delayed_work_queue_ \cup Range(deferred_non_nestable_work_queue_),
        u \in Range(work_queue_) \cup Range(incoming_queue_) : t \in prior[u]

\* What the pump moves behind the queues it takes from.
LEMMA MovedBehind ==
  ASSUME Sound, Stack, NEW l \in RunLoops, PumpMove(l)
  PROVE  \/ UNCHANGED queueVars
         \/ \E t \in Tasks :
              /\ t \in Known
              /\ TakenFromWork(t)
              /\ delayed_work_queue_' \cup Range(deferred_non_nestable_work_queue_')
                   \subseteq delayed_work_queue_
                               \cup Range(deferred_non_nestable_work_queue_) \cup {t}
         \/ /\ UNCHANGED <<work_queue_, incoming_queue_>>
            /\ delayed_work_queue_' \cup Range(deferred_non_nestable_work_queue_')
                 \subseteq delayed_work_queue_ \cup Range(deferred_non_nestable_work_queue_)
<1> USE DEF Sound, TypeOK, QueueTypes
<1>1. CASE EndMove(l)
  BY <1>1 DEF EndMove
<1>2. ASSUME NEW t \in Tasks, TakenFromWork(t)
      PROVE  t \in Known
  <2>1. t \in Range(work_queue_)
    BY <1>2, Elements DEF TakenFromWork
  <2> QED
    BY <2>1 DEF Met, Held
<1>3. ASSUME NEW t \in Tasks, TakenFromDelayed(t)
      PROVE  t \in delayed_work_queue_
  <2>1. delayed_work_queue_ \in SUBSET Known
    BY DEF Met, Held
  <2> QED
    BY <1>3, <2>1, TopIs DEF TakenFromDelayed
<1>4. ASSUME NEW t \in Tasks, DelayMove(t)
      PROVE  delayed_work_queue_' \cup Range(deferred_non_nestable_work_queue_')
               \subseteq delayed_work_queue_
                           \cup Range(deferred_non_nestable_work_queue_) \cup {t}
  BY <1>4 DEF DelayMove
<1>5. ASSUME NEW t \in Tasks, TurnMove(l, t)
      PROVE  Range(deferred_non_nestable_work_queue_')
               \subseteq Range(deferred_non_nestable_work_queue_) \cup {t}
  BY <1>5, Elements DEF TurnMove, Defers
<1>6. ASSUME NEW t \in Tasks, IdleMove(l, t)
      PROVE  /\ UNCHANGED <<work_queue_, incoming_queue_, delayed_work_queue_>>
             /\ Range(deferred_non_nestable_work_queue_')
                  \subseteq Range(deferred_non_nestable_work_queue_)
  BY <1>6, Elements DEF IdleMove, TakenFromDeferred
<1>7. CASE \E t \in Tasks : DelayMove(t)
  BY <1>2, <1>4, <1>7 DEF DelayMove
<1>8. ASSUME NEW t \in Tasks, TurnMove(l, t)
      PROVE  \/ /\ TakenFromWork(t) /\ t \in Known
                /\ delayed_work_queue_' \cup Range(deferred_non_nestable_work_queue_')
                     \subseteq delayed_work_queue_
                                 \cup Range(deferred_non_nestable_work_queue_) \cup {t}
             \/ /\ UNCHANGED <<work_queue_, incoming_queue_>>
                /\ delayed_work_queue_' \cup Range(deferred_non_nestable_work_queue_')
                     \subseteq delayed_work_queue_
                                 \cup Range(deferred_non_nestable_work_queue_)
  <2>1. CASE TakenFromWork(t) /\ UNCHANGED delayed_work_queue_
    BY <1>2, <1>5, <1>8, <2>1
  <2>2. CASE TakenFromDelayed(t)
    BY <1>3, <1>5, <1>8, <2>2 DEF TakenFromDelayed
  <2> QED
    BY <1>8, <2>1, <2>2 DEF TurnMove
<1>9. CASE \E t \in Tasks : TurnMove(l, t)
  BY <1>8, <1>9
<1>10. CASE \E t \in Tasks : IdleMove(l, t)
  BY <1>6, <1>10
<1> QED
  BY <1>1, <1>7, <1>9, <1>10 DEF PumpMove

\* Every step keeps the order of the queues.
LEMMA FifoStep ==
  ASSUME Sound, Stack, Fifo, [Next]_vars
  PROVE  Fifo'
<1> USE DEF Sound, TypeOK, QueueTypes
<1>1. ASSUME NEW t \in Tasks, NEW nest \in BOOLEAN, NEW d \in Delays[t], PostTask(t, nest, d)
      PROVE  Fifo'
  <2>1. /\ incoming_queue_' = Append(incoming_queue_, t)
        /\ UNCHANGED <<work_queue_, delayed_work_queue_, deferred_non_nestable_work_queue_>>
        /\ prior' = [prior EXCEPT ![t] = Known]
    BY <1>1 DEF PostTask
  <2>2. t \notin Known
    BY <1>1, KnownPosted
  <2>3. prior'[t] = Known /\ \A s \in Known : prior'[s] = prior[s]
    BY <2>1, <2>2 DEF PostTypes, Known
  <2>4. Range(incoming_queue_) \cup Held \subseteq Known
    BY DEF Met
  <2>5. Range(incoming_queue_') = Range(incoming_queue_) \cup {t}
    BY <2>1, Elements
  <2>6. Sorted(incoming_queue_', prior')
    <3>1. Sorted(incoming_queue_, prior) /\ Range(incoming_queue_) \subseteq prior'[t]
          /\ \A s \in Range(incoming_queue_) : prior'[s] = prior[s]
      BY <2>3, <2>4 DEF Fifo
    <3> QED
      BY <2>1, <3>1, SortedAppend
  <2>7. Sorted(work_queue_, prior')
    <3>1. \A i \in DOMAIN work_queue_ : work_queue_[i] \in Known
      BY <2>4 DEF Held, Range
    <3> QED
      BY <2>3, <3>1 DEF Fifo, Sorted
  <2> QED
    BY <2>1, <2>3, <2>4, <2>5, <2>6, <2>7 DEF Fifo, Held
<1>2. ASSUME UNCHANGED queueVars, Keeps
      PROVE  Fifo'
  BY <1>2 DEF Fifo, queueVars, Keeps
<1>3. CASE ReloadMove /\ Keeps
  <2>1. Sorted(<<>>, prior)
    BY DEF Sorted
  <2> QED
    BY <1>3, <2>1, Elements DEF ReloadMove, Keeps, Fifo
<1>4. CASE DropMove /\ Keeps
  <2>1. Sorted(<<>>, prior)
    BY DEF Sorted
  <2> QED
    BY <1>4, <2>1, Elements DEF DropMove, DeletePendingTasks, Keeps, Fifo
<1>5. ASSUME NEW t \in Tasks, Keeps, TakenFromWork(t),
             delayed_work_queue_' \cup Range(deferred_non_nestable_work_queue_')
               \subseteq delayed_work_queue_
                           \cup Range(deferred_non_nestable_work_queue_) \cup {t}
      PROVE  Fifo'
  <2>1. /\ work_queue_ # <<>> /\ t = Head(work_queue_) /\ work_queue_' = Tail(work_queue_)
        /\ UNCHANGED <<incoming_queue_, prior>>
    BY <1>5 DEF TakenFromWork, Keeps
  <2>2. Range(work_queue_) = {t} \cup Range(work_queue_')
    BY <2>1, Elements
  <2>3. Sorted(work_queue_', prior) /\ \A s \in Range(work_queue_') : t \in prior[s]
    BY <2>1, SortedTail DEF Fifo
  <2> QED
    BY <1>5, <2>1, <2>2, <2>3 DEF Fifo
<1>6. ASSUME Keeps, UNCHANGED <<work_queue_, incoming_queue_>>,
             delayed_work_queue_' \cup Range(deferred_non_nestable_work_queue_')
               \subseteq delayed_work_queue_ \cup Range(deferred_non_nestable_work_queue_)
      PROVE  Fifo'
  BY <1>6 DEF Keeps, Fifo
<1>7. ASSUME NEW l \in RunLoops, PumpMove(l), Keeps
      PROVE  Fifo'
  BY <1>2, <1>5, <1>6, <1>7, MovedBehind
<1>8. CASE Keeps /\ (NoMove \/ \E t \in Tasks : RefuseTask(t))
  BY <1>2, <1>8 DEF NoMove, RefuseTask
<1> QED
  BY <1>1, <1>3, <1>4, <1>7, <1>8, StepTasks
-----------------------------------------------------------------------------
\* No task overtakes another.

\* The time a delayed task may run is its delay after that of its posting, and postings
\* are in the order of the clock.
Times ==
  /\ \A t \in Known : /\ delay[t] = 0 => delayed_run_time[t] = 0
                      /\ delay[t] > 0 => delayed_run_time[t] - delay[t] \in 1 .. now
  /\ \A t, u \in Known : t \in prior[u] /\ delay[t] > 0 /\ delay[u] > 0 =>
       delayed_run_time[t] - delay[t] <= delayed_run_time[u] - delay[u]

\* Every step keeps this.
LEMMA TimesStep ==
  ASSUME Sound, Stack, Times, [Next]_vars
  PROVE  Times'
<1> USE DEF Sound, TypeOK, PostTypes, PumpTypes
<1>0. MaxTime \in Nat
  BY MaxTimeIs
<1>1. ASSUME NEW t \in Tasks, NEW nest \in BOOLEAN, NEW d \in Delays[t], PostTask(t, nest, d)
      PROVE  Times'
  <2>1. d \in Nat /\ now' = now /\ now \in Nat /\ now >= 1
    <3>1. d \in Nat
      BY NumberAssumption
    <3> QED
      BY <1>0, <1>1, <3>1 DEF PostTask
  <2>2. /\ delay' = [delay EXCEPT ![t] = d]
        /\ delayed_run_time' = [delayed_run_time EXCEPT ![t] = IF d > 0 THEN now + d ELSE 0]
        /\ prior' = [prior EXCEPT ![t] = Known]
    BY <1>1 DEF PostTask
  <2>3. t \notin Known /\ Known' = Known \cup {t}
    BY <1>1, KnownPosted
  <2>4. /\ delay'[t] = d /\ delayed_run_time'[t] = IF d > 0 THEN now + d ELSE 0
        /\ prior'[t] = Known
    BY <2>2
  <2>5. \A u \in Known : /\ delay'[u] = delay[u] /\ prior'[u] = prior[u]
                         /\ delayed_run_time'[u] = delayed_run_time[u]
                         /\ delay[u] \in Nat /\ delayed_run_time[u] \in Nat
    BY <1>0, <2>2, <2>3 DEF Known
  <2>6. \A u \in Known : t \notin prior[u]
    BY <2>3 DEF Ordered, Ranked
  <2>7. ASSUME d > 0
        PROVE  delayed_run_time'[t] - delay'[t] = now
    BY <2>1, <2>4, <2>7
  <2>8. \A u \in Known' : /\ delay'[u] = 0 => delayed_run_time'[u] = 0
                          /\ delay'[u] > 0 => delayed_run_time'[u] - delay'[u] \in 1 .. now'
    BY <2>1, <2>3, <2>4, <2>5, <2>7 DEF Times
  <2>9. ASSUME NEW u \in Known', NEW v \in Known', u \in prior'[v], delay'[u] > 0, delay'[v] > 0
        PROVE  delayed_run_time'[u] - delay'[u] <= delayed_run_time'[v] - delay'[v]
    <3>1. CASE v = t
      <4>1. u \in Known /\ delayed_run_time'[v] - delay'[v] = now
        BY <2>4, <2>7, <2>9, <3>1
      <4>2. delayed_run_time'[u] - delay'[u] \in 1 .. now
        BY <2>1, <2>8, <2>9
      <4> QED
        BY <2>1, <4>1, <4>2
    <3>2. CASE v # t
      <4>1. v \in Known /\ u \in Known /\ u \in prior[v]
        BY <2>3, <2>5, <2>6, <2>9, <3>2
      <4> QED
        BY <2>5, <2>9, <4>1 DEF Times
    <3> QED
      BY <3>1, <3>2
  <2> QED
    BY <2>8, <2>9 DEF Times
<1>2. CASE Known' = Known /\ Keeps
  <2>1. now' >= now /\ now \in Nat /\ now' \in Nat
    <3>1. TypeOK'
      BY SoundStep
    <3> QED
      BY <1>0, <3>1, StepTasks
  <2>2. \A t \in Known : delay[t] \in Nat /\ delayed_run_time[t] \in Nat
    BY <1>0 DEF Known
  <2> QED
    BY <1>2, <2>1, <2>2 DEF Times, Keeps
<1> QED
  BY <1>1, <1>2, KnownKept DEF Keeps

\* Tasks that may not run nested are put off, and only behind those that were posted
\* before and have no longer delay; each is so once.
Backlog ==
  /\ \A t \in PutOff : ~ nestable[t]
  /\ delayed_work_queue_ \cap Range(deferred_non_nestable_work_queue_) = {}
  /\ IsInjective(deferred_non_nestable_work_queue_)
  /\ \A j \in DOMAIN deferred_non_nestable_work_queue_ :
       \A s \in prior[deferred_non_nestable_work_queue_[j]] :
         outcome[s] = "accepted" /\ delay[s] <= delay[deferred_non_nestable_work_queue_[j]]
           => \E i \in DOMAIN deferred_non_nestable_work_queue_ :
                i < j /\ deferred_non_nestable_work_queue_[i] = s

\* The tasks in the queues.
Queued == Range(incoming_queue_) \cup Held

\* They are those that were accepted and have not been started or deleted.
Placed == \A t \in Tasks : outcome[t] = "accepted" <=> t \in Queued

\* A running task is that of one frame.
Framed ==
  /\ \A l \in RunLoops : at[l] = "RunTask" <=> task[l] # NoTask
  /\ \A l \in RunLoops : task[l] # NoTask => outcome[task[l]] = "running"
  /\ \A l, m \in RunLoops : task[l] # NoTask /\ task[l] = task[m] => l = m
  /\ \A t \in Tasks : outcome[t] = "running" => \E l \in RunLoops : task[l] = t

\* The next task of the work queue or of the delayed ones overtakes no task but those
\* that are put off.
LEMMA NotOvertaken ==
  ASSUME Sound, Watching, Fifo, Times, Placed, NEW t \in Tasks,
         \/ TakenFromWork(t) /\ delayed_run_time[t] = 0
         \/ TakenFromDelayed(t)
  PROVE  \A s \in prior[t] : outcome[s] = "accepted" /\ delay[s] <= delay[t]
           => s \in Range(deferred_non_nestable_work_queue_)
<1> USE DEF Sound, TypeOK, QueueTypes, PostTypes
<1> SUFFICES ASSUME NEW s \in prior[t], outcome[s] = "accepted", delay[s] <= delay[t],
                    s \notin Range(deferred_non_nestable_work_queue_)
             PROVE  FALSE
  OBVIOUS
<1>0. Queued \subseteq Known
  BY DEF Queued, Met
<1>1. t \in Queued
  <2>1. CASE TakenFromWork(t)
    BY <2>1, Elements DEF TakenFromWork, Queued, Held
  <2>2. CASE TakenFromDelayed(t)
    <3>1. delayed_work_queue_ \in SUBSET Known /\ delayed_work_queue_ # {}
      BY <2>2 DEF TakenFromDelayed, Met, Held
    <3> QED
      BY <2>2, <3>1, TopIs DEF TakenFromDelayed, Queued, Held
  <2> QED
    BY <2>1, <2>2
<1>2. t \in Known /\ s \in Known /\ t \notin prior[s] /\ s # t
  BY <1>0, <1>1 DEF Ordered, Ranked
<1>3. s \in Queued
  BY <1>2 DEF Placed, Known
<1>4. /\ delay[s] \in Nat /\ delay[t] \in Nat
      /\ delayed_run_time[s] \in Nat /\ delayed_run_time[t] \in Nat
  BY <1>2, MaxTimeIs DEF Known
<1>5. CASE TakenFromWork(t) /\ delayed_run_time[t] = 0
  <2>1. /\ work_queue_ # <<>> /\ t = Head(work_queue_)
        /\ Range(work_queue_) = {t} \cup Range(Tail(work_queue_)) /\ t \in Range(work_queue_)
    BY <1>5, Elements DEF TakenFromWork
  <2>2. s \notin Range(incoming_queue_)
    BY <1>2, <2>1 DEF Fifo
  <2>3. s \notin Range(work_queue_)
    <3>1. \A u \in Range(Tail(work_queue_)) : t \in prior[u]
      BY <2>1, SortedTail DEF Fifo
    <3> QED
      BY <1>2, <2>1, <3>1
  <2>4. delay[t] = 0
    <3>1. delay[t] > 0 => delayed_run_time[t] - delay[t] \in 1 .. now
      BY <1>2 DEF Times
    <3> QED
      BY <1>4, <1>5, <3>1
  <2>5. delayed_run_time[s] = 0
    BY <1>2, <1>4, <2>4 DEF Times
  <2>6. s \notin delayed_work_queue_
    BY <2>5 DEF Watching
  <2> QED
    BY <1>3, <2>2, <2>3, <2>6 DEF Queued, Held
<1>6. CASE TakenFromDelayed(t)
  <2> DEFINE Q == delayed_work_queue_
  <2>1. Q \in SUBSET Known /\ Q # {} /\ t = Top(Q)
    BY <1>6 DEF TakenFromDelayed, Met, Held
  <2>2. t \in Q /\ \A u \in Q \ {t} : Before(t, u)
    BY <2>1, TopIs
  <2>3. s \notin Range(work_queue_) \cup Range(incoming_queue_)
    BY <1>2, <2>2 DEF Fifo
  <2>4. s \in Q
    BY <1>3, <2>3 DEF Queued, Held
  <2>5. delayed_run_time[s] # 0 /\ delayed_run_time[t] # 0
    BY <2>2, <2>4 DEF Watching
  <2>6. delay[s] > 0 /\ delay[t] > 0
    BY <1>2, <1>4, <2>5 DEF Times
  <2>7. delayed_run_time[s] - delay[s] <= delayed_run_time[t] - delay[t]
    BY <1>2, <2>6 DEF Times
  <2>8. delayed_run_time[s] <= delayed_run_time[t]
    BY <1>4, <2>7
  <2>9. Before(t, s)
    BY <1>2, <2>2, <2>4
  <2> QED
    BY <1>2, <1>4, <2>8, <2>9, BeforeIs
<1> QED
  BY <1>5, <1>6

\* A step of the pump starts one task of the queues, ends one or moves them.
LEMMA MovedOnce ==
  ASSUME Sound, Fifo, Backlog, NEW l \in RunLoops, PumpMove(l)
  PROVE  \/ EndMove(l) /\ Queued' = Queued
         \/ Queued' = Queued /\ UNCHANGED <<task, outcome>> /\ SameFrames
         \/ \E t \in Queued : Starts(l, t) /\ Queued' = Queued \ {t}
<1> USE DEF Sound, TypeOK, QueueTypes
<1> DEFINE D == Range(deferred_non_nestable_work_queue_)
           D1 == Range(deferred_non_nestable_work_queue_')
           W == Range(work_queue_)
           W1 == Range(work_queue_')
<1>0. /\ Queued \subseteq Known
      /\ \A t \in Known : t \notin prior[t]
  BY DEF Queued, Met, Ordered, Ranked
<1>1. CASE EndMove(l)
  BY <1>1 DEF EndMove, Queued, Held, queueVars
<1>2. ASSUME NEW t \in Tasks, TakenFromWork(t)
      PROVE  /\ W = {t} \cup W1 /\ t \in W /\ t \notin W1 /\ t \in Queued
             /\ UNCHANGED incoming_queue_
             /\ t \notin Range(incoming_queue_) /\ t \notin delayed_work_queue_ /\ t \notin D
  <2>1. /\ work_queue_ # <<>> /\ t = Head(work_queue_) /\ work_queue_' = Tail(work_queue_)
        /\ UNCHANGED incoming_queue_
    BY <1>2 DEF TakenFromWork
  <2>2. W = {t} \cup W1
    BY <2>1, Elements
  <2>3. t \in Known /\ t \in W /\ t \in Queued
    BY <1>0, <2>2 DEF Queued, Held
  <2>4. \A s \in W1 : t \in prior[s]
    BY <2>1, SortedTail DEF Fifo
  <2>5. \A s \in delayed_work_queue_ \cup D : s \in prior[t]
    BY <2>3 DEF Fifo
  <2>6. \A s \in Range(incoming_queue_) : t \in prior[s]
    BY <2>3 DEF Fifo
  <2> QED
    BY <1>0, <2>1, <2>2, <2>3, <2>4, <2>5, <2>6
<1>3. ASSUME NEW t \in Tasks, TakenFromDelayed(t)
      PROVE  /\ UNCHANGED <<incoming_queue_, work_queue_>> /\ t \in Queued
             /\ delayed_work_queue_' = delayed_work_queue_ \ {t} /\ t \in delayed_work_queue_
             /\ t \notin Range(incoming_queue_) /\ t \notin W /\ t \notin D
  <2>1. delayed_work_queue_ \in SUBSET Known /\ delayed_work_queue_ # {}
    BY <1>3 DEF TakenFromDelayed, Met, Held
  <2>2. t \in delayed_work_queue_ /\ t \in Queued
    BY <1>3, <2>1, TopIs DEF TakenFromDelayed, Queued, Held
  <2>3. \A s \in W \cup Range(incoming_queue_) : t \in prior[s]
    BY <2>2 DEF Fifo
  <2>4. t \notin D
    BY <2>2 DEF Backlog
  <2> QED
    BY <1>0, <1>3, <2>2, <2>3, <2>4 DEF TakenFromDelayed
<1>4. CASE \E t \in Tasks : DelayMove(t)
  <2>1. PICK t \in Tasks : DelayMove(t)
    BY <1>4
  <2>2. /\ TakenFromWork(t) /\ delayed_work_queue_' = delayed_work_queue_ \cup {t}
        /\ UNCHANGED <<deferred_non_nestable_work_queue_, task, outcome>> /\ SameFrames
    BY <2>1 DEF DelayMove
  <2>3. Queued' = Queued
    BY <1>2, <2>2 DEF Queued, Held
  <2> QED
    BY <2>2, <2>3
<1>5. CASE \E t \in Tasks : TurnMove(l, t)
  <2>1. PICK t \in Tasks : TurnMove(l, t)
    BY <1>5
  <2>2. /\ W \cup delayed_work_queue_ = {t} \cup (W1 \cup delayed_work_queue_')
        /\ UNCHANGED incoming_queue_ /\ t \in Queued
        /\ t \notin W1 /\ t \notin delayed_work_queue_' /\ t \notin D
        /\ t \notin Range(incoming_queue_)
    <3>1. CASE TakenFromWork(t) /\ UNCHANGED delayed_work_queue_
      BY <1>2, <3>1
    <3>2. CASE TakenFromDelayed(t)
      BY <1>3, <3>2
    <3> QED
      BY <2>1, <3>1, <3>2 DEF TurnMove
  <2>3. CASE Starts(l, t) /\ UNCHANGED deferred_non_nestable_work_queue_
    <3>1. Queued' = Queued \ {t}
      BY <2>2, <2>3 DEF Queued, Held
    <3> QED
      BY <2>2, <2>3, <3>1
  <2>4. CASE Defers(t) /\ SameFrames
    <3>1. D1 = D \cup {t}
      BY <2>4, Elements DEF Defers
    <3>2. Queued' = Queued
      BY <2>2, <3>1 DEF Queued, Held
    <3> QED
      BY <2>4, <3>2 DEF Defers
  <2> QED
    BY <2>1, <2>3, <2>4 DEF TurnMove
<1>6. CASE \E t \in Tasks : IdleMove(l, t)
  <2> DEFINE q == deferred_non_nestable_work_queue_
  <2>1. PICK t \in Tasks : IdleMove(l, t)
    BY <1>6
  <2>2. /\ q # <<>> /\ t = Head(q) /\ deferred_non_nestable_work_queue_' = Tail(q)
        /\ UNCHANGED <<incoming_queue_, work_queue_, delayed_work_queue_>>
        /\ Starts(l, t)
    BY <2>1 DEF IdleMove, TakenFromDeferred
  <2>3. /\ Len(q) \in Nat \ {0} /\ DOMAIN q = 1 .. Len(q)
        /\ DOMAIN Tail(q) = 1 .. Len(q) - 1
        /\ \A i \in 1 .. Len(q) - 1 : Tail(q)[i] = q[i + 1]
        /\ Head(q) = q[1]
    BY <2>2, EmptySeq, HeadTailProperties, LenProperties
  <2>4. t \notin D1
    <3>1. ASSUME NEW i \in 1 .. Len(q) - 1, q[i + 1] = q[1]
          PROVE  FALSE
      <4>1. i + 1 \in DOMAIN q /\ 1 \in DOMAIN q /\ i + 1 # 1
        BY <2>3
      <4> QED
        BY <3>1, <4>1 DEF Backlog, IsInjective
    <3> QED
      BY <2>2, <2>3, <3>1 DEF Range
  <2>5. D = {t} \cup D1
    BY <2>2, Elements
  <2>6. t \notin delayed_work_queue_
    BY <2>5 DEF Backlog
  <2>7. t \notin W \cup Range(incoming_queue_) /\ t \in Queued
    <3>1. \A s \in W \cup Range(incoming_queue_) : t \in prior[s]
      BY <2>5 DEF Fifo
    <3> QED
      BY <1>0, <2>5, <3>1 DEF Queued, Held
  <2>8. Queued' = Queued \ {t}
    BY <2>2, <2>4, <2>5, <2>6, <2>7 DEF Queued, Held
  <2> QED
    BY <2>2, <2>7, <2>8
<1> QED
  BY <1>1, <1>4, <1>5, <1>6 DEF PumpMove

\* Every step keeps the accepted tasks in the queues.
LEMMA PlacedStep ==
  ASSUME Sound, Stack, Fifo, Backlog, Framed, Placed, [Next]_vars
  PROVE  Placed'
<1> USE DEF Sound, TypeOK, QueueTypes, LifeTypes
<1>1. ASSUME NEW t \in Tasks, NEW nest \in BOOLEAN, NEW d \in Delays[t], PostTask(t, nest, d)
      PROVE  Placed'
  <2>1. /\ Range(incoming_queue_') = Range(incoming_queue_) \cup {t} /\ Held' = Held
        /\ outcome' = [outcome EXCEPT ![t] = "accepted"]
    BY <1>1, Elements DEF PostTask, Held
  <2> QED
    BY <2>1 DEF Placed, Queued
<1>2. CASE NoMove
  BY <1>2 DEF NoMove, queueVars, Placed, Queued, Held
<1>3. CASE ReloadMove
  BY <1>3, Elements DEF ReloadMove, Placed, Queued, Held
<1>4. CASE \E t \in Tasks : RefuseTask(t)
  BY <1>4 DEF RefuseTask, queueVars, Placed, Queued, Held
<1>5. CASE DropMove
  <2>1. /\ Queued' = Range(incoming_queue_)
        /\ outcome' = [t \in Tasks |-> IF t \in Held THEN "deleted" ELSE outcome[t]]
    BY <1>5, Elements DEF DropMove, DeletePendingTasks, Queued, Held
  <2>2. Queued = Range(incoming_queue_) \cup Held /\ Range(incoming_queue_) \cap Held = {}
    <3>1. \A t \in Held, u \in Range(incoming_queue_) : t \in prior[u]
      BY DEF Fifo, Held
    <3>2. \A t \in Held : t \notin prior[t]
      BY DEF Ordered, Ranked, Met
    <3> QED
      BY <3>1, <3>2 DEF Queued
  <2>3. \A t \in Tasks : outcome'[t] = IF t \in Held THEN "deleted" ELSE outcome[t]
    BY <2>1
  <2> QED
    BY <2>1, <2>2, <2>3 DEF Placed
<1>6. ASSUME NEW l \in RunLoops, PumpMove(l)
      PROVE  Placed'
  <2>1. CASE EndMove(l) /\ Queued' = Queued
    <3>1. outcome' = [outcome EXCEPT ![task[l]] = "done"] /\ outcome[task[l]] = "running"
      BY <2>1 DEF EndMove, Framed
    <3> QED
      BY <2>1, <3>1 DEF Placed
  <2>2. CASE Queued' = Queued /\ UNCHANGED outcome
    BY <2>2 DEF Placed
  <2>3. ASSUME NEW t \in Queued, Starts(l, t), Queued' = Queued \ {t}
        PROVE  Placed'
    BY <2>3 DEF Starts, Placed
  <2> QED
    BY <1>6, <2>1, <2>2, <2>3, MovedOnce
<1> QED
  BY <1>1, <1>2, <1>3, <1>4, <1>5, <1>6, StepTasks

\* Every step keeps the running tasks in their frames.
LEMMA FramedStep ==
  ASSUME Sound, Stack, Fifo, Backlog, Framed, Placed, [Next]_vars
  PROVE  Framed'
<1> USE DEF Sound, TypeOK, FrameTypes, LifeTypes
<1>0. Known \subseteq Tasks /\ NoTask \notin Tasks
  BY TaskAssumption DEF Known
<1>1. ASSUME UNCHANGED task, SameFrames,
             \A t \in Tasks : outcome'[t] = "running" <=> outcome[t] = "running"
      PROVE  Framed'
  <2>1. \A l \in RunLoops : task[l] \in Tasks \/ task[l] = NoTask
    OBVIOUS
  <2> QED
    BY <1>0, <1>1, <2>1 DEF Framed, SameFrames
<1>2. ASSUME NEW t \in Tasks, NEW nest \in BOOLEAN, NEW d \in Delays[t], PostTask(t, nest, d)
      PROVE  Framed'
  <2>1. /\ outcome' = [outcome EXCEPT ![t] = "accepted"] /\ outcome[t] = "new"
        /\ UNCHANGED <<at, task>>
    BY <1>2 DEF PostTask, frameVars
  <2> QED
    BY <1>1, <2>1 DEF SameFrames
<1>3. CASE NoMove \/ ReloadMove
  BY <1>1, <1>3 DEF NoMove, ReloadMove
<1>4. CASE \E t \in Tasks : RefuseTask(t)
  <2>1. PICK t \in Tasks : RefuseTask(t)
    BY <1>4
  <2>2. /\ outcome' = [outcome EXCEPT ![t] = "refused"] /\ outcome[t] = "new"
        /\ UNCHANGED <<at, task>>
    BY <2>1 DEF RefuseTask, frameVars
  <2> QED
    BY <1>1, <2>2 DEF SameFrames
<1>5. CASE DropMove
  <2>1. /\ UNCHANGED task /\ SameFrames
        /\ \A t \in Tasks : outcome'[t] = IF t \in Held THEN "deleted" ELSE outcome[t]
    BY <1>5 DEF DropMove, DeletePendingTasks
  <2>2. \A t \in Held : outcome[t] # "running"
    BY <1>0 DEF Placed, Queued, Met
  <2> QED
    BY <1>1, <2>1, <2>2
<1>6. ASSUME NEW l \in RunLoops, PumpMove(l), \A m \in RunLoops \ {l} : at'[m] = at[m]
      PROVE  Framed'
  <2>1. CASE EndMove(l)
    <3> DEFINE t == task[l]
    <3>1. t \in Tasks /\ outcome[t] = "running"
      BY <1>0, <2>1 DEF EndMove, Framed
    <3>2. \A m \in RunLoops \ {l} : task[m] # t
      BY <1>0, <3>1 DEF Framed
    <3>3. /\ outcome'[t] = "done" /\ \A u \in Tasks \ {t} : outcome'[u] = outcome[u]
          /\ task'[l] = NoTask /\ \A m \in RunLoops \ {l} : task'[m] = task[m]
          /\ at'[l] # "RunTask"
      BY <2>1, <3>1 DEF EndMove
    <3> HIDE DEF t
    <3>4. \A m \in RunLoops : at'[m] = "RunTask" <=> task'[m] # NoTask
      BY <1>6, <3>3 DEF Framed
    <3>5. \A m \in RunLoops : task'[m] # NoTask => outcome'[task'[m]] = "running"
      BY <3>2, <3>3 DEF Framed
    <3>6. \A m, n \in RunLoops : task'[m] # NoTask /\ task'[m] = task'[n] => m = n
      BY <3>3 DEF Framed
    <3>7. \A u \in Tasks : outcome'[u] = "running" => \E m \in RunLoops : task'[m] = u
      BY <3>3 DEF Framed, t
    <3> QED
      BY <3>4, <3>5, <3>6, <3>7 DEF Framed
  <2>2. CASE UNCHANGED <<task, outcome>> /\ SameFrames
    BY <1>1, <2>2
  <2>3. ASSUME NEW t \in Queued, Starts(l, t)
        PROVE  Framed'
    <3>1. t \in Tasks /\ outcome[t] = "accepted"
      BY <1>0 DEF Placed, Queued, Met
    <3>2. /\ outcome'[t] = "running" /\ \A u \in Tasks \ {t} : outcome'[u] = outcome[u]
          /\ task'[l] = t /\ \A m \in RunLoops \ {l} : task'[m] = task[m]
          /\ at'[l] = "RunTask" /\ task[l] = NoTask
      BY <2>3, <3>1 DEF Starts, Framed
    <3>3. \A m \in RunLoops : task[m] # t
      BY <1>0, <3>1 DEF Framed
    <3>4. \A m \in RunLoops : at'[m] = "RunTask" <=> task'[m] # NoTask
      BY <1>0, <1>6, <3>1, <3>2 DEF Framed
    <3>5. \A m \in RunLoops : task'[m] # NoTask => outcome'[task'[m]] = "running"
      BY <3>2, <3>3 DEF Framed
    <3>6. \A m, n \in RunLoops : task'[m] # NoTask /\ task'[m] = task'[n] => m = n
      BY <3>2, <3>3 DEF Framed
    <3>7. \A u \in Tasks : outcome'[u] = "running" => \E m \in RunLoops : task'[m] = u
      <4> SUFFICES ASSUME NEW u \in Tasks, outcome'[u] = "running"
                   PROVE  \E m \in RunLoops : task'[m] = u
        OBVIOUS
      <4>1. CASE u = t
        BY <3>2, <4>1
      <4>2. CASE u # t
        <5>1. PICK m \in RunLoops : task[m] = u
          BY <3>2, <4>2 DEF Framed
        <5>2. m # l
          BY <1>0, <3>2, <5>1
        <5> QED
          BY <3>2, <5>1, <5>2
      <4> QED
        BY <4>1, <4>2
    <3> QED
      BY <3>4, <3>5, <3>6, <3>7 DEF Framed
  <2> QED
    BY <1>6, <2>1, <2>2, <2>3, MovedOnce
<1> QED
  BY <1>2, <1>3, <1>4, <1>5, <1>6, StepTasks

\* Every step puts off only tasks that overtake none.
LEMMA BacklogStep ==
  ASSUME Sound, Stack, Watching, Fifo, Times, Placed, Framed, Backlog, [Next]_vars
  PROVE  Backlog'
<1> USE DEF Sound, TypeOK, QueueTypes, LifeTypes
<1> DEFINE q == deferred_non_nestable_work_queue_
           q1 == deferred_non_nestable_work_queue_'
<1>0. /\ Range(q) \subseteq Known /\ \A i \in DOMAIN q : q[i] \in Known
      /\ \A t \in Known : prior[t] \subseteq Known
  BY DEF Met, Held, Range, Ordered, Ranked
<1>1. ASSUME NEW t \in Tasks, NEW nest \in BOOLEAN, NEW d \in Delays[t], PostTask(t, nest, d)
      PROVE  Backlog'
  <2>1. /\ UNCHANGED <<deferred_non_nestable_work_queue_, delayed_work_queue_>>
        /\ delay' = [delay EXCEPT ![t] = d] /\ nestable' = [nestable EXCEPT ![t] = nest]
        /\ prior' = [prior EXCEPT ![t] = Known]
        /\ outcome' = [outcome EXCEPT ![t] = "accepted"]
    BY <1>1 DEF PostTask
  <2>2. t \notin Known
    BY <1>1, KnownPosted
  <2>3. \A u \in Known : delay'[u] = delay[u] /\ prior'[u] = prior[u] /\ outcome'[u] = outcome[u]
    BY <2>1, <2>2 DEF PostTypes, Known
  <2>4. ASSUME NEW j \in DOMAIN q, NEW s \in prior'[q[j]],
               outcome'[s] = "accepted", delay'[s] <= delay'[q[j]]
        PROVE  \E i \in DOMAIN q : i < j /\ q[i] = s
    <3>1. q[j] \in Known /\ s \in prior[q[j]] /\ s \in Known
      BY <1>0, <2>3, <2>4
    <3>2. outcome[s] = "accepted" /\ delay[s] <= delay[q[j]]
      BY <2>3, <2>4, <3>1
    <3> QED
      BY <3>1, <3>2 DEF Backlog
  <2>5. q1 = q
    BY <2>1
  <2>6. \A u \in Range(q) : ~ nestable'[u]
    <3>1. \A u \in Range(q) : u # t /\ u \in Tasks /\ ~ nestable[u]
      BY <1>0, <2>2 DEF Backlog, PutOff, Known
    <3> QED
      BY <2>1, <3>1 DEF PostTypes
  <2> QED
    BY <2>1, <2>4, <2>5, <2>6 DEF Backlog, PutOff
<1>2. ASSUME Keeps, q1 = q, delayed_work_queue_' \cap Range(q) = {},
             \A s \in Tasks : outcome'[s] = "accepted" => outcome[s] = "accepted"
      PROVE  Backlog'
  <2>1. \A s \in Known : s \in Tasks
    BY DEF Known
  <2> QED
    BY <1>0, <1>2, <2>1 DEF Backlog, Keeps, PutOff
<1>3. CASE Keeps /\ (NoMove \/ ReloadMove)
  BY <1>2, <1>3 DEF NoMove, ReloadMove, queueVars, Backlog
<1>4. CASE Keeps /\ \E t \in Tasks : RefuseTask(t)
  <2>1. PICK t \in Tasks : RefuseTask(t)
    BY <1>4
  <2>2. UNCHANGED queueVars /\ outcome' = [outcome EXCEPT ![t] = "refused"]
    BY <2>1 DEF RefuseTask
  <2> QED
    BY <1>2, <1>4, <2>2 DEF queueVars, Backlog
<1>5. CASE DropMove
  BY <1>5, Elements DEF DropMove, DeletePendingTasks, Backlog, IsInjective, PutOff
<1>6. ASSUME NEW l \in RunLoops, Keeps, PumpMove(l)
      PROVE  Backlog'
  <2>1. \A s \in Tasks : outcome'[s] = "accepted" => outcome[s] = "accepted"
    <3>1. CASE EndMove(l)
      BY <3>1 DEF EndMove
    <3>2. CASE UNCHANGED outcome
      BY <3>2
    <3>3. CASE \E t \in Queued : Starts(l, t)
      BY <3>3 DEF Starts
    <3> QED
      BY <1>6, <3>1, <3>2, <3>3, MovedOnce
  <2>2. CASE EndMove(l)
    BY <1>2, <1>6, <2>1, <2>2 DEF EndMove, queueVars, Backlog
  <2>3. ASSUME NEW t \in Tasks, TakenFromWork(t) \/ TakenFromDelayed(t)
        PROVE  t \notin Range(q) /\ t \in Known
    <3>1. CASE TakenFromWork(t)
      <4>1. t \in Range(work_queue_)
        BY <3>1, Elements DEF TakenFromWork
      <4>2. \A s \in Range(q) : s \in prior[t]
        BY <4>1 DEF Fifo
      <4>3. t \in Known
        BY <4>1 DEF Met, Held
      <4> QED
        BY <4>2, <4>3 DEF Ordered, Ranked
    <3>2. CASE TakenFromDelayed(t)
      <4>1. delayed_work_queue_ \in SUBSET Known /\ delayed_work_queue_ # {}
        BY <3>2 DEF TakenFromDelayed, Met, Held
      <4>2. t \in delayed_work_queue_ /\ t \in Known
        BY <3>2, <4>1, TopIs DEF TakenFromDelayed
      <4> QED
        BY <4>2 DEF Backlog
    <3> QED
      BY <2>3, <3>1, <3>2
  <2>4. CASE \E t \in Tasks : DelayMove(t)
    <3>1. PICK t \in Tasks : DelayMove(t)
      BY <2>4
    <3>2. /\ q1 = q /\ delayed_work_queue_' = delayed_work_queue_ \cup {t}
          /\ t \notin Range(q)
      BY <2>3, <3>1 DEF DelayMove
    <3> QED
      BY <1>2, <1>6, <2>1, <3>2 DEF Backlog
  <2>5. CASE \E t \in Tasks : TurnMove(l, t)
    <3>1. PICK t \in Tasks : TurnMove(l, t)
      BY <2>5
    <3>2. t \notin Range(q) /\ t \in Known
      BY <2>3, <3>1 DEF TurnMove
    <3>3. \A s \in prior[t] : outcome[s] = "accepted" /\ delay[s] <= delay[t] => s \in Range(q)
      BY <3>1, NotOvertaken DEF TurnMove
    <3>4. delayed_work_queue_' \subseteq delayed_work_queue_ /\ t \notin delayed_work_queue_'
      <4>1. CASE TakenFromDelayed(t)
        BY <4>1 DEF TakenFromDelayed
      <4>2. CASE TakenFromWork(t) /\ UNCHANGED delayed_work_queue_
        <5>1. t \in Range(work_queue_)
          BY <4>2, Elements DEF TakenFromWork
        <5>2. \A s \in delayed_work_queue_ : s \in prior[t]
          BY <5>1 DEF Fifo
        <5> QED
          BY <3>2, <4>2, <5>2 DEF Ordered, Ranked
      <4> QED
        BY <3>1, <4>1, <4>2 DEF TurnMove
    <3>5. CASE q1 = q
      BY <1>2, <1>6, <2>1, <3>4, <3>5 DEF Backlog
    <3>6. CASE q1 = Append(q, t) /\ ~ nestable[t]
      <4>1. /\ Len(q) \in Nat /\ DOMAIN q = 1 .. Len(q) /\ DOMAIN q1 = 1 .. Len(q) + 1
            /\ \A i \in 1 .. Len(q) : q1[i] = q[i]
            /\ q1[Len(q) + 1] = t
        BY <3>6, AppendProperties, LenProperties
      <4>2. Range(q1) = Range(q) \cup {t}
        BY <3>6, Elements
      <4>3. \A i \in 1 .. Len(q) : q[i] # t /\ q[i] \in Range(q)
        BY <3>2, <4>1 DEF Range
      <4>4. IsInjective(q1)
        <5>1. ASSUME NEW i \in DOMAIN q1, NEW j \in DOMAIN q1, q1[i] = q1[j]
              PROVE  i = j
          <6>1. CASE i = Len(q) + 1 \/ j = Len(q) + 1
            BY <4>1, <4>3, <5>1, <6>1, SMTT(30)
          <6>2. CASE i # Len(q) + 1 /\ j # Len(q) + 1
            <7>1. i \in DOMAIN q /\ j \in DOMAIN q /\ q[i] = q[j]
              BY <4>1, <5>1, <6>2
            <7> QED
              BY <7>1 DEF Backlog, IsInjective
          <6> QED
            BY <6>1, <6>2
        <5> QED
          BY <5>1 DEF IsInjective
      <4>5. ASSUME NEW j \in DOMAIN q1, NEW s \in prior[q1[j]],
                   outcome'[s] = "accepted", delay[s] <= delay[q1[j]]
            PROVE  \E i \in DOMAIN q1 : i < j /\ q1[i] = s
        <5>0. s \in Known /\ outcome[s] = "accepted"
          <6>1. q1[j] \in Known
            BY <1>0, <3>2, <4>1
          <6> QED
            BY <1>0, <2>1, <4>5, <6>1 DEF Known
        <5>1. CASE j = Len(q) + 1
          <6>1. s \in Range(q)
            BY <3>3, <4>1, <4>5, <5>0, <5>1
          <6>2. PICK i \in DOMAIN q : q[i] = s
            BY <6>1 DEF Range
          <6>3. i \in DOMAIN q1 /\ i < j /\ q1[i] = s
            BY <4>1, <5>1, <6>2
          <6> QED
            BY <6>3
        <5>2. CASE j # Len(q) + 1
          <6>1. j \in DOMAIN q /\ q1[j] = q[j]
            BY <4>1, <5>2
          <6>2. PICK i \in DOMAIN q : i < j /\ q[i] = s
            BY <4>5, <5>0, <6>1 DEF Backlog
          <6>3. i \in DOMAIN q1 /\ q1[i] = s
            BY <4>1, <6>2
          <6> QED
            BY <6>2, <6>3
        <5> QED
          BY <5>1, <5>2
      <4>6. delayed_work_queue_' \cap Range(q1) = {}
        BY <3>4, <4>2 DEF Backlog
      <4>7. \A u \in Range(q1) : ~ nestable'[u]
        BY <1>6, <3>6, <4>2 DEF Backlog, Keeps, PutOff
      <4> QED
        BY <1>6, <4>4, <4>5, <4>6, <4>7 DEF Backlog, Keeps, PutOff
    <3> QED
      BY <3>1, <3>5, <3>6 DEF TurnMove, Defers
  <2>6. CASE \E t \in Tasks : IdleMove(l, t)
    <3>1. PICK t \in Tasks : IdleMove(l, t)
      BY <2>6
    <3>2. /\ q # <<>> /\ t = Head(q) /\ q1 = Tail(q) /\ UNCHANGED delayed_work_queue_
          /\ Starts(l, t)
      BY <3>1 DEF IdleMove, TakenFromDeferred
    <3>3. /\ Len(q) \in Nat \ {0} /\ DOMAIN q = 1 .. Len(q) /\ DOMAIN q1 = 1 .. Len(q) - 1
          /\ \A i \in 1 .. Len(q) - 1 : q1[i] = q[i + 1]
          /\ q[1] = t
      BY <3>2, EmptySeq, HeadTailProperties, LenProperties
    <3>4. Range(q1) \subseteq Range(q)
      BY <3>2, Elements
    <3>5. IsInjective(q1)
      <4>1. ASSUME NEW i \in DOMAIN q1, NEW j \in DOMAIN q1, q1[i] = q1[j]
            PROVE  i = j
        <5>1. i + 1 \in DOMAIN q /\ j + 1 \in DOMAIN q /\ q[i + 1] = q[j + 1]
          BY <3>3, <4>1
        <5>2. i + 1 = j + 1
          BY <5>1 DEF Backlog, IsInjective
        <5> QED
          BY <3>3, <5>2
      <4> QED
        BY <4>1 DEF IsInjective
    <3>6. ASSUME NEW j \in DOMAIN q1, NEW s \in prior[q1[j]],
                 outcome'[s] = "accepted", delay[s] <= delay[q1[j]]
          PROVE  \E i \in DOMAIN q1 : i < j /\ q1[i] = s
      <4>1. j + 1 \in DOMAIN q /\ q1[j] = q[j + 1] /\ j \in Nat
        BY <3>3
      <4>2. s \in Tasks /\ outcome[s] = "accepted" /\ s # t
        <5>1. s \in Known
          BY <1>0, <3>6, <4>1
        <5>2. s \in Tasks
          BY <5>1 DEF Known
        <5>3. outcome' = [outcome EXCEPT ![t] = "running"]
          BY <3>2 DEF Starts
        <5> QED
          BY <2>1, <3>6, <5>2, <5>3
      <4>3. PICK i \in DOMAIN q : i < j + 1 /\ q[i] = s
        BY <3>6, <4>1, <4>2 DEF Backlog
      <4>4. i # 1 /\ i \in Nat
        BY <3>3, <4>2, <4>3
      <4>5. i - 1 \in DOMAIN q1 /\ i - 1 < j /\ q1[i - 1] = s
        BY <3>3, <4>1, <4>3, <4>4
      <4> QED
        BY <4>5
    <3> QED
      BY <1>6, <3>2, <3>4, <3>5, <3>6 DEF Backlog, Keeps, PutOff
  <2> QED
    BY <1>6, <2>2, <2>4, <2>5, <2>6 DEF PumpMove
<1> QED
  BY <1>1, <1>3, <1>4, <1>5, <1>6, StepTasks

\* All of this together.
Orderly ==
  Sound /\ Stack /\ Watching /\ Allowed /\ Fifo /\ Times /\ Placed /\ Framed /\ Backlog

\* Initially there is nothing to order.
LEMMA OrderlyInit ==
  ASSUME Init
  PROVE  Allowed /\ Fifo /\ Times /\ Placed /\ Framed /\ Backlog
<1>1. Known = {}
  BY DEF Init, Known
<1>2. Range(<<>>) = {} /\ DOMAIN <<>> = {}
  BY Elements
<1>3. Allowed
  BY DEF Init, Allowed
<1>4. Fifo
  BY <1>2 DEF Init, Fifo, Sorted
<1>5. Times
  BY <1>1 DEF Times
<1>6. Placed
  BY <1>2 DEF Init, Placed, Queued, Held
<1>7. Framed
  BY TaskAssumption DEF Init, Framed
<1>8. Backlog
  BY <1>2 DEF Init, Backlog, IsInjective, PutOff
<1> QED
  BY <1>3, <1>4, <1>5, <1>6, <1>7, <1>8

\* The queues of the loop, its frames and its clock are in this order in every state.
THEOREM InOrder == Spec => []Orderly
<1>1. Init => Allowed /\ Fifo /\ Times /\ Placed /\ Framed /\ Backlog
  BY OrderlyInit
<1>2. Orderly /\ [Next]_vars => (Allowed /\ Fifo /\ Times /\ Placed /\ Framed /\ Backlog)'
  BY AllowedStep, FifoStep, TimesStep, PlacedStep, FramedStep, BacklogStep DEF Orderly, Sound
<1> QED
  BY <1>1, <1>2, Soundness, Stacked, Watched, PTL DEF Spec, Orderly
-----------------------------------------------------------------------------
\* The loop is a sequenced task runner.

\* An accepted task is queued, in one place.
LEMMA WaitsOnce ==
  ASSUME Orderly, NEW t \in Tasks, outcome[t] = "accepted"
  PROVE  Waits(t)
<1> USE DEF Orderly, Sound, TypeOK, QueueTypes
<1> DEFINE I == Range(incoming_queue_)
           W == Range(work_queue_)
           D == delayed_work_queue_
           R == Range(deferred_non_nestable_work_queue_)
<1>1. \A s \in Known : s \notin prior[s]
  BY DEF Ordered, Ranked
<1>2. I \cup W \cup D \cup R \subseteq Known
  BY DEF Met, Held
<1>3. /\ IsInjective(incoming_queue_) /\ IsInjective(work_queue_)
      /\ IsInjective(deferred_non_nestable_work_queue_)
  BY <1>1, <1>2, SortedOnce DEF Fifo, Backlog
<1>4. t \in I \cup W \cup D \cup R
  BY DEF Placed, Queued, Held
<1>5. /\ \A s \in W : s \notin I
      /\ \A s \in D \cup R : s \notin W \cup I
      /\ \A s \in D : s \notin R
  BY <1>1, <1>2 DEF Fifo, Backlog
<1>6. DOMAIN Queues = 1 .. 4 /\ Queues[1] = I /\ Queues[2] = W /\ Queues[3] = D
      /\ Queues[4] = R
  BY DEF Queues
<1>7. PICK k \in 1 .. 4 : {i \in DOMAIN Queues : t \in Queues[i]} = {k}
  <2>1. CASE t \in I
    <3>1. {i \in DOMAIN Queues : t \in Queues[i]} = {1}
      BY <1>5, <1>6, <2>1
    <3> QED
      BY <3>1
  <2>2. CASE t \in W
    <3>1. {i \in DOMAIN Queues : t \in Queues[i]} = {2}
      BY <1>5, <1>6, <2>2
    <3> QED
      BY <3>1
  <2>3. CASE t \in D
    <3>1. {i \in DOMAIN Queues : t \in Queues[i]} = {3}
      BY <1>5, <1>6, <2>3
    <3> QED
      BY <3>1
  <2>4. CASE t \in R
    <3>1. {i \in DOMAIN Queues : t \in Queues[i]} = {4}
      BY <1>5, <1>6, <2>4
    <3> QED
      BY <3>1
  <2> QED
    BY <1>4, <2>1, <2>2, <2>3, <2>4
<1>8. Cardinality({k}) = 1
  BY FS_Singleton
<1> QED
  BY <1>3, <1>7, <1>8 DEF Waits

\* What the runner reports of each task.
Mapped ==
  \A t \in Tasks : Status(t) = IF outcome[t] = "accepted" THEN "queued" ELSE outcome[t]

\* An ordered loop reports it so.
LEMMA OrderlyMapped ==
  ASSUME Orderly
  PROVE  Mapped
BY WaitsOnce DEF Mapped, Status

\* While the loop may start a task, those that run are nesting it.
LEMMA RunsWithin ==
  ASSUME Orderly, NEW l \in RunLoops, running_[l], run_loop_ = l, at[l] # "RunTask",
         nestable_tasks_allowed_ \/ run_depth_[l] = 1,
         NEW s \in Tasks, outcome[s] = "running"
  PROVE  /\ \E m \in RunLoops : running_[m] /\ allowing[m] /\ task[m] = s
         /\ run_depth_[l] # 1
<1> USE DEF Orderly
<1>1. PICK m \in RunLoops : task[m] = s
  BY DEF Framed
<1>2. at[m] = "RunTask"
  BY <1>1, TaskAssumption DEF Framed
<1>3. running_[m] /\ m # l
  BY <1>2 DEF Stack, Running
<1>4. run_depth_[m] < run_depth_[l] /\ run_depth_[m] >= 1
  BY <1>3, TaskAssumption DEF Stack, Sound, TypeOK, RunTypes
<1>5. run_depth_[l] # 1
  BY <1>4 DEF Sound, TypeOK, RunTypes
<1>6. allowing[m]
  BY <1>3, <1>5, TaskAssumption DEF Allowed
<1> QED
  BY <1>1, <1>3, <1>5, <1>6

\* Every step of the loop is one of the runner, or changes nothing that it promises; but
\* a task that may not run nested starts before those that were put off.
LEMMA RunnerStep ==
  ASSUME Orderly, Mapped, Mapped', [Next]_vars
  PROVE  Runner!Step \/ Overtake
<1> USE DEF Orderly, Sound, TypeOK, LifeTypes
<1> DEFINE st == [t \in Tasks |-> Status(t)]
           st1 == [t \in Tasks |-> Status(t)]'
           Seen(o) == IF o = "accepted" THEN "queued" ELSE o
<1>1. /\ st = [t \in Tasks |-> Seen(outcome[t])]
      /\ st1 = [t \in Tasks |-> Seen(outcome'[t])]
  BY DEF Mapped
<1>2. \A t \in Tasks : st[t] = Seen(outcome[t]) /\ outcome[t] \in Outcomes
  BY <1>1
<1>3. Known = Runner!Accepted
  <2>1. Runner!Accepted = {t \in Tasks : st[t] \in {"queued", "running", "done", "deleted"}}
    BY DEF Runner!Accepted
  <2> QED
    BY <1>2, <2>1 DEF Known, Outcomes
<1> HIDE DEF st, st1
<1>4. ASSUME UNCHANGED prior, \A t \in Tasks : outcome'[t] = outcome[t]
      PROVE  Runner!Step
  <2>1. st1 = st
    BY <1>1, <1>4
  <2> QED
    BY <1>4, <2>1 DEF Runner!Step, Runner!promised, st, st1
<1>5. ASSUME NEW t \in Tasks, NEW nest \in BOOLEAN, NEW d \in Delays[t], PostTask(t, nest, d)
      PROVE  Runner!Step
  <2>1. outcome[t] = "new" /\ outcome' = [outcome EXCEPT ![t] = "accepted"]
        /\ prior' = [prior EXCEPT ![t] = Known]
    BY <1>5 DEF PostTask
  <2>2. st[t] = "new" /\ st1 = [st EXCEPT ![t] = "queued"]
    BY <1>1, <2>1
  <2>3. Runner!Accept(t)
    BY <1>3, <2>1, <2>2 DEF Runner!Accept, Runner!Becomes, st, st1
  <2> QED
    BY <2>3 DEF Runner!Step, Runner!Next
<1>6. ASSUME NEW t \in Tasks, RefuseTask(t), Keeps
      PROVE  Runner!Step
  <2>1. outcome[t] = "new" /\ outcome' = [outcome EXCEPT ![t] = "refused"] /\ prior' = prior
    BY <1>6 DEF RefuseTask, Keeps
  <2>2. st[t] = "new" /\ st1 = [st EXCEPT ![t] = "refused"]
    BY <1>1, <2>1
  <2>3. Runner!Refuse(t)
    BY <2>1, <2>2 DEF Runner!Refuse, Runner!Becomes, st, st1
  <2> QED
    BY <2>3 DEF Runner!Step, Runner!Next
<1>7. ASSUME NEW l \in RunLoops, EndMove(l), Keeps
      PROVE  Runner!Step
  <2> DEFINE t == task[l]
  <2>1. t \in Tasks /\ outcome[t] = "running"
    BY <1>7, TaskAssumption DEF EndMove, Framed, FrameTypes
  <2>2. outcome' = [outcome EXCEPT ![t] = "done"] /\ prior' = prior
    BY <1>7 DEF EndMove, Keeps
  <2>3. st[t] = "running" /\ st1 = [st EXCEPT ![t] = "done"]
    BY <1>1, <2>1, <2>2
  <2> HIDE DEF t
  <2>4. Runner!Finish(t)
    BY <2>2, <2>3 DEF Runner!Finish, Runner!Becomes, st, st1
  <2> QED
    BY <2>1, <2>4 DEF Runner!Step, Runner!Next
<1>8. ASSUME life # "alive", DropMove, Keeps
      PROVE  Runner!Step
  <2>1. /\ outcome' = [t \in Tasks |-> IF t \in Held THEN "deleted" ELSE outcome[t]]
        /\ prior' = prior
    BY <1>8 DEF DropMove, DeletePendingTasks, Keeps
  <2>2. Held \in SUBSET Tasks /\ \A s \in Held : outcome[s] = "accepted"
    BY DEF Placed, Queued, Met, Known
  <2>3. \A s \in Held : st[s] = "queued"
    BY <1>2, <2>2
  <2>4. st1 = [s \in Tasks |-> IF s \in Held THEN "deleted" ELSE st[s]]
    <3>1. \A s \in Tasks : Seen(outcome'[s]) = IF s \in Held THEN "deleted" ELSE st[s]
      BY <1>2, <2>1
    <3> QED
      BY <1>1, <3>1
  <2>5. Held \in Runner!Droppable
    BY <1>8, <2>2, <2>3 DEF Runner!Droppable, st
  <2>6. Runner!Delete
    BY <2>1, <2>4, <2>5 DEF Runner!Delete, Runner!Drop, st, st1
  <2> QED
    BY <2>6 DEF Runner!Step, Runner!Next
<1>9. ASSUME NEW l \in RunLoops, run_loop_ = l, running_[l], life = "alive", Keeps,
             NEW t \in Tasks, Starts(l, t), outcome[t] = "accepted",
             nestable_tasks_allowed_ \/ run_depth_[l] = 1,
             nestable[t] \/ run_depth_[l] = 1,
             \A s \in prior[t] : outcome[s] = "accepted" /\ delay[s] <= delay[t]
               => s \in PutOff /\ t \notin PutOff
      PROVE  Runner!Step \/ Overtake
  <2>1. outcome' = [outcome EXCEPT ![t] = "running"] /\ prior' = prior /\ at[l] # "RunTask"
    BY <1>9 DEF Starts, Keeps
  <2>2. st[t] = "queued" /\ st1 = [st EXCEPT ![t] = "running"]
    BY <1>1, <1>9, <2>1
  <2>3. \A s \in Tasks : st[s] = "running" =>
          nestable[t] /\ s \in {task[m] : m \in {k \in RunLoops : running_[k] /\ allowing[k]}}
    <3>1. ASSUME NEW s \in Tasks, st[s] = "running"
          PROVE  nestable[t] /\ \E m \in RunLoops : running_[m] /\ allowing[m] /\ task[m] = s
      <4>1. outcome[s] = "running"
        BY <1>2, <3>1
      <4> QED
        BY <1>9, <2>1, <4>1, RunsWithin
    <3> QED
      BY <3>1
  <2>4. \A s \in Tasks : st[s] = "queued" => outcome[s] = "accepted"
    BY <1>2 DEF Outcomes
  <2>5. st = [s \in Tasks |-> IF s \in {} THEN "deleted" ELSE st[s]]
    BY <1>1
  <2>6. ASSUME NEW overtaken, \A s \in Tasks \ overtaken : Runner!Follows(t, s) =>
                                st[s] # "queued"
        PROVE  Runner!StartBefore(t, overtaken)
    <3>1. {} \in Runner!Droppable
      BY DEF Runner!Droppable
    <3>2. Runner!Drop({}) = st
      BY <2>5 DEF Runner!Drop, st
    <3>3. \A s \in Tasks \ ({} \cup overtaken) : Runner!Follows(t, s) => st[s] # "queued"
      BY <2>6
    <3> QED
      BY <1>9, <2>1, <2>2, <2>3, <3>1, <3>2, <3>3 DEF Runner!StartBefore, st, st1
  <2>7. ASSUME NEW s \in Tasks, Runner!Follows(t, s), st[s] = "queued"
        PROVE  s \in PutOff /\ t \notin PutOff /\ ~ nestable[s] /\ ~ nestable[t]
    <3>1. s \in prior[t] /\ delay[s] <= delay[t] /\ (~ nestable[t] \/ nestable[s])
      BY <2>7 DEF Runner!Follows
    <3>2. s \in PutOff /\ t \notin PutOff
      BY <1>9, <2>4, <2>7, <3>1
    <3> QED
      BY <3>1, <3>2 DEF Backlog
  <2>8. CASE t \in PutOff \/ nestable[t]
    <3>1. Runner!Start(t)
      BY <2>6, <2>7, <2>8 DEF Runner!Start
    <3> QED
      BY <3>1 DEF Runner!Step, Runner!Next
  <2>9. CASE t \notin PutOff /\ ~ nestable[t]
    <3>1. Runner!StartBefore(t, PutOff)
      BY <2>6, <2>7
    <3> QED
      BY <2>9, <3>1 DEF Overtake
  <2> QED
    BY <2>8, <2>9
<1>10. ASSUME NEW l \in RunLoops, run_loop_ = l, running_[l], life = "alive", Keeps,
              PumpMove(l)
       PROVE  Runner!Step \/ Overtake
  <2>1. ASSUME NEW t \in Tasks, Starts(l, t)
        PROVE  outcome[t] = "accepted"
    <3>1. outcome'[t] = "running" /\ at[l] # "RunTask" /\ at'[l] = "RunTask"
      BY <2>1 DEF Starts
    <3>2. CASE EndMove(l)
      BY <3>1, <3>2 DEF EndMove
    <3>3. CASE SameFrames
      BY <3>1, <3>3 DEF SameFrames
    <3>4. ASSUME NEW u \in Queued, Starts(l, u)
          PROVE  outcome[t] = "accepted"
      <4>1. task'[l] = t /\ task'[l] = u
        BY <2>1, <3>4 DEF Starts, FrameTypes
      <4> QED
        BY <3>4, <4>1 DEF Placed
    <3> QED
      BY <1>10, <3>2, <3>3, <3>4, MovedOnce
  <2>2. CASE \E t \in Tasks : DelayMove(t)
    BY <1>4, <1>10, <2>2 DEF DelayMove, Keeps
  <2>3. CASE \E t \in Tasks : TurnMove(l, t)
    <3>1. PICK t \in Tasks : TurnMove(l, t)
      BY <2>3
    <3>2. CASE Defers(t)
      BY <1>4, <1>10, <3>2 DEF Defers, Keeps
    <3>3. CASE Starts(l, t) /\ (nestable[t] \/ run_depth_[l] = 1)
      <4>1. t \notin PutOff
        <5>1. CASE TakenFromWork(t)
          <6>1. t \in Range(work_queue_)
            BY <5>1, Elements DEF TakenFromWork, QueueTypes
          <6> QED
            BY <6>1 DEF Fifo, Ordered, Ranked, Met, Held, PutOff
        <5>2. CASE TakenFromDelayed(t)
          <6>1. delayed_work_queue_ \in SUBSET Known /\ delayed_work_queue_ # {}
            BY <5>2 DEF TakenFromDelayed, Met, Held
          <6> QED
            BY <5>2, <6>1, TopIs DEF TakenFromDelayed, Backlog, PutOff
        <5> QED
          BY <3>1, <5>1, <5>2 DEF TurnMove
      <4>2. \A s \in prior[t] : outcome[s] = "accepted" /\ delay[s] <= delay[t]
              => s \in PutOff
        BY <3>1, NotOvertaken DEF TurnMove, PutOff
      <4>3. nestable_tasks_allowed_
        BY <3>1 DEF TurnMove
      <4> QED
        BY <1>9, <1>10, <2>1, <3>3, <4>1, <4>2, <4>3
    <3> QED
      BY <3>1, <3>2, <3>3 DEF TurnMove
  <2>4. CASE \E t \in Tasks : IdleMove(l, t)
    <3> DEFINE q == deferred_non_nestable_work_queue_
    <3>1. PICK t \in Tasks : IdleMove(l, t)
      BY <2>4
    <3>2. /\ q # <<>> /\ t = Head(q) /\ Starts(l, t) /\ run_depth_[l] = 1
      BY <3>1 DEF IdleMove, TakenFromDeferred
    <3>3. Len(q) \in Nat \ {0} /\ DOMAIN q = 1 .. Len(q) /\ q[1] = t
      BY <3>2, EmptySeq, HeadTailProperties, LenProperties DEF QueueTypes
    <3>4. \A s \in prior[t] : ~(outcome[s] = "accepted" /\ delay[s] <= delay[t])
      <4>1. 1 \in DOMAIN q /\ \A i \in DOMAIN q : ~(i < 1)
        BY <3>3
      <4> QED
        BY <3>3, <4>1 DEF Backlog
    <3> QED
      BY <1>9, <1>10, <2>1, <3>2, <3>4
  <2> QED
    BY <1>7, <1>10, <2>2, <2>3, <2>4 DEF PumpMove
<1>11. ASSUME Keeps, NoMove \/ ReloadMove
       PROVE  Runner!Step
  BY <1>4, <1>11 DEF NoMove, ReloadMove, Keeps
<1> QED
  BY <1>5, <1>6, <1>8, <1>10, <1>11, StepTasks

\* MessageLoopProxyImpl keeps what sequenced_task_runner.h promises, nested loops
\* included, in all steps but one kind: tasks start in the order of posting and of their
\* delays, one at a time unless one allows others within it, and each is run once, or
\* deleted by the destructor; only those put off may be overtaken, in the outermost
\* loop by one that may not run nested either.
THEOREM RunsInSequence == Spec => InSequenceButPutOff
<1>1. Init => Runner!Init
  <2>1. ASSUME Init
        PROVE  [t \in Tasks |-> Status(t)] = [t \in Tasks |-> "new"]
    <3>1. \A t \in Tasks : outcome[t] = "new"
      BY <2>1 DEF Init
    <3> QED
      BY <3>1 DEF Status
  <2> QED
    BY <2>1 DEF Init, Runner!Init
<1>2. Orderly => Mapped
  BY OrderlyMapped
<1>3. Orderly /\ Mapped /\ Mapped' /\ [Next]_vars => [Runner!Step \/ Overtake]_vars
  BY RunnerStep
<1> QED
  BY <1>1, <1>2, <1>3, InOrder, PTL DEF Spec, InSequenceButPutOff
=============================================================================
