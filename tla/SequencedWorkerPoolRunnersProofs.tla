------------------ MODULE SequencedWorkerPoolRunnersProofs ------------------
(***************************************************************************)
(* The pool keeps, for the tasks of each sequence token, the promises of   *)
(* base/sequenced_task_runner.h: the proof of TaskRunnersImplemented. It   *)
(* rests on the invariant FlushInv of the pool and on Ranked, what the     *)
(* numbers and the times of tasks say of the order of posting. A step of   *)
(* the pool is first put as what it does to the statuses of tasks (Moves), *)
(* then, for one runner, as a step of SequencedTaskRunner.                 *)
(***************************************************************************)
EXTENDS SequencedWorkerPoolRunners, SequencedWorkerPoolProofs

-----------------------------------------------------------------------------
\* The order of posting.

\* The tasks that PostTask() has taken.
Taken == {t \in Tasks : outcome[t] \in {"accepted", "done", "deleted"}}

\* Numbers are given in the order of acceptance, each once; a task accepted before
\* another of its sequence was posted, with no longer delay, is due no later.
Ranked ==
  /\ \A t \in Taken : sequence_task_number[t] < next_sequence_task_number_
  /\ \A s, t \in Taken : s # t => sequence_task_number[s] # sequence_task_number[t]
  /\ \A t \in Tasks : \A s \in prior[t] :
       /\ s \in Taken
       /\ TokenOf[s] = TokenOf[t] /\ TokenOf[t] # NoToken
       /\ DelayOf[s] <= DelayOf[t] => time_to_run[s] <= time_to_run[t]
       /\ t \in Taken => sequence_task_number[s] < sequence_task_number[t]

\* A new pool has taken nothing.
LEMMA RankedInit == Init => Ranked
  BY DEF Init, Ranked, Taken

\* Only PostTask() gives times and numbers, and only to the task it is called with.
LEMMA RankedStep ==
  BaseTypes /\ Places /\ Times /\ Ranked /\ [Next]_vars => Ranked'
  <1> SUFFICES ASSUME BaseTypes, Places, Times, Ranked, [Next]_vars
               PROVE  Ranked'
    OBVIOUS
  <1> USE TaskAssumption, BoundAssumption DEF BaseTypes, PoolTypes, TaskTypes,
     ThreadTypes, Threads,
     innerVars, threadVars, countVars, queueVars, shutdownVars,
     cleanupVars, cvVars, localVars, callVars, historyVars, unchangedByCleanup
  <1>1. ASSUME NEW th \in Threads, NEW t \in Tasks, PostTaskStamp(th, t)
        PROVE  Ranked'
    <2>1. /\ outcome[t] = "new" /\ outcome' = [outcome EXCEPT ![t] = "posting"]
          /\ time_to_run' = [time_to_run EXCEPT ![t] = now + DelayOf[t]]
          /\ prior' = [prior EXCEPT ![t] =
               {s \in Tasks : /\ TokenOf[s] = TokenOf[t] /\ TokenOf[t] # NoToken
                              /\ outcome[s] \in {"accepted", "done", "deleted"}}]
          /\ UNCHANGED <<sequence_task_number, next_sequence_task_number_>>
      BY <1>1 DEF PostTaskStamp
    <2>2. Taken' = Taken /\ t \notin Taken
      BY <2>1 DEF Taken
    <2>3. ASSUME NEW u \in Tasks, NEW s \in prior'[u]
          PROVE  /\ s \in Taken
                 /\ TokenOf[s] = TokenOf[u] /\ TokenOf[u] # NoToken
                 /\ DelayOf[s] <= DelayOf[u] => time_to_run'[s] <= time_to_run'[u]
                 /\ u \in Taken => sequence_task_number[s] < sequence_task_number[u]
      <3>1. CASE u = t
        <4>1. s \in Taken /\ TokenOf[s] = TokenOf[t] /\ TokenOf[t] # NoToken
          BY <2>1, <2>3, <3>1 DEF Taken
        <4>2. time_to_run[s] <= now + DelayOf[s]
          BY <4>1 DEF Times, Taken
        <4>3. time_to_run'[s] = time_to_run[s] /\ time_to_run'[t] = now + DelayOf[t]
          BY <2>1, <2>2, <4>1
        <4>4. /\ DelayOf[s] \in Nat /\ DelayOf[t] \in Nat /\ now \in Nat
              /\ time_to_run[s] \in Nat
          BY <4>1 DEF Taken
        <4> QED
          BY <2>2, <3>1, <4>1, <4>2, <4>3, <4>4
      <3>2. CASE u # t
        <4>1. s \in prior[u]
          BY <2>1, <2>3, <3>2
        <4>2. s # t /\ s \in Tasks
          BY <2>2, <4>1 DEF Ranked, Taken
        <4> QED
          BY <2>1, <3>2, <4>1, <4>2 DEF Ranked
      <3> QED
        BY <3>1, <3>2
    <2> QED
      BY <2>1, <2>2, <2>3 DEF Ranked
  <1>2. ASSUME NEW th \in Threads, PostTaskInsert(th) PROVE Ranked'
    <2> DEFINE p == posting[th]
               n == next_sequence_task_number_
    <2>1. /\ p \in Tasks /\ outcome[p] = "posting" /\ n \in Nat
          /\ outcome' = [outcome EXCEPT ![p] = "accepted"]
          /\ sequence_task_number' = [sequence_task_number EXCEPT ![p] = n]
          /\ next_sequence_task_number_' = n + 1
          /\ UNCHANGED <<time_to_run, prior>>
      BY <1>2 DEF PostTaskInsert, Places
    <2> HIDE DEF p, n
    <2>2. Taken' = Taken \cup {p} /\ p \notin Taken
      BY <2>1 DEF Taken
    <2>3. \A s \in Taken : /\ s \in Tasks
                           /\ sequence_task_number[s] \in Nat /\ sequence_task_number[s] < n
                           /\ sequence_task_number'[s] = sequence_task_number[s]
      BY <2>1, <2>2 DEF Ranked, Taken, n
    <2>4. sequence_task_number'[p] = n
      BY <2>1
    <2>5. \A u \in Tasks : \A s \in prior[u] : s \in Taken
      BY DEF Ranked
    <2>6. ASSUME NEW u \in Tasks, NEW s \in prior[u], u \in Taken \cup {p}
          PROVE  sequence_task_number'[s] < sequence_task_number'[u]
      BY <2>3, <2>4, <2>5, <2>6 DEF Ranked
    <2>7. \A t \in Taken \cup {p} : sequence_task_number'[t] < n + 1
      BY <2>1, <2>3, <2>4
    <2>8. \A s, t \in Taken \cup {p} :
            s # t => sequence_task_number'[s] # sequence_task_number'[t]
      BY <2>1, <2>3, <2>4 DEF Ranked
    <2> QED
      BY <2>1, <2>2, <2>5, <2>6, <2>7, <2>8 DEF Ranked
  <1>3. ASSUME NEW th \in Threads,
                PostTaskRefuse(th) \/ PostTaskStartThread(th) \/
             PostTaskSignal(th) \/ SpuriousWakeup(th)
        PROVE  /\ UNCHANGED <<time_to_run, sequence_task_number,
                              next_sequence_task_number_, prior>>
               /\ Taken' = Taken
    BY <1>3 DEF PostTaskRefuse, PostTaskStartThread, PostTaskSignal,
       SpuriousWakeup, Places, Taken
  <1>4. ASSUME NEW w \in Workers,
                ThreadLoopEnter(w) \/ GetWorkFound(w) \/ RunSignal(w) \/
             RunSpawn(w) \/ DidRunWorkerTask(w) \/ CleanupDelayed(w) \/
             CleanupDrained(w) \/ WaitForWork(w) \/ WakeUp(w) \/ TimeOut(w) \/
             LeaveLoop(w) \/ ExitSignal(w) \/ ExitSignalShutdown(w) \/
             LeadCleanup(w) \/ LeadWait(w) \/ LeadRun(w) \/ IdleEnter(w) \/
             IdleWait(w) \/ IdleLeave(w) \/ FinishWait(w) \/ FinishCleanup(w)
        PROVE  /\ UNCHANGED <<time_to_run, sequence_task_number,
                              next_sequence_task_number_, prior>>
               /\ Taken' = Taken
    BY <1>4 DEF ThreadLoopEnter, GetWorkFound, RunSignal, RunSpawn,
       DidRunWorkerTask, CleanupDelayed, CleanupDrained, WaitForWork, WakeUp,
       TimeOut, LeaveLoop, ExitSignal, ExitSignalShutdown, LeadCleanup,
       LeadWait, LeadRun, IdleEnter, IdleWait, IdleLeave, FinishWait,
       FinishCleanup, Taken
  <1>5. ASSUME
                CleanupForTesting \/ CleanupWoken \/ Shutdown \/ ShutdownCheck \/
             Tick
        PROVE  /\ UNCHANGED <<time_to_run, sequence_task_number,
                              next_sequence_task_number_, prior>>
               /\ Taken' = Taken
    BY <1>5 DEF CleanupForTesting, CleanupWoken, Shutdown, ShutdownCheck,
       Tick, Taken
  <1>6. ASSUME NEW w \in Workers, RunFinish(w)
        PROVE  /\ UNCHANGED <<time_to_run, sequence_task_number,
                              next_sequence_task_number_, prior>>
               /\ Taken' = Taken
    <2>1. task[w] \in Tasks /\ outcome[task[w]] = "accepted"
      BY <1>6 DEF RunFinish, Places, HasTask, RunningPcs
    <2> QED
      BY <1>6, <2>1 DEF RunFinish, Taken
  <1>7. ASSUME NEW w \in Workers, RunPurge(w) \/ CleanupPurge(w) \/ PurgeUnderLock(w)
        PROVE  /\ UNCHANGED <<time_to_run, sequence_task_number,
                              next_sequence_task_number_, prior>>
               /\ Taken' = Taken
    <2>1. \A t \in delete_these[w] : outcome[t] = "accepted"
      BY DEF Places
    <2>2. outcome' = [t \in Tasks |-> IF t \in delete_these[w] THEN "deleted" ELSE outcome[t]]
      BY <1>7 DEF RunPurge, CleanupPurge, PurgeUnderLock, Destroy
    <2>3. Taken' = Taken
      BY <2>1, <2>2 DEF Taken
    <2> QED
      BY <1>7, <2>3 DEF RunPurge, CleanupPurge, PurgeUnderLock
  <1>8. CASE UNCHANGED vars
    BY <1>8 DEF vars, Ranked, Taken
  <1>9. ASSUME UNCHANGED <<time_to_run, sequence_task_number,
                         next_sequence_task_number_, prior>>,
               Taken' = Taken
        PROVE  Ranked'
    BY <1>9 DEF Ranked
  <1> QED
    BY <1>1, <1>2, <1>3, <1>4, <1>5, <1>6, <1>7, <1>8, <1>9
    DEF Next, PostProgress, ThreadLoop, HandleCleanup

-----------------------------------------------------------------------------
\* What a step does to the statuses of tasks.

\* A worker has t and its closure is not yet destroyed.
Busy(t) == \E w \in Workers : task[w] = t /\ pc[w] # "ran"

\* The status of t, where the invariant holds.
Fate(t) ==
  IF outcome[t] # "accepted" THEN outcome[t]
  ELSE IF Busy(t) THEN "running"
  ELSE IF t \in pending_tasks_ THEN "queued"
  ELSE "deleted"

\* It is the status: a task is in one place only, and an accepted one is somewhere.
LEMMA StatusIsFate ==
  ASSUME BaseTypes, Places, Located, NEW t \in Tasks
  PROVE  Status(t) = Fate(t)
  <1> USE TaskAssumption DEF BaseTypes, PoolTypes, TaskTypes, ThreadTypes, Places, HasTask
  <1>1. /\ Busy(t) => outcome[t] = "accepted" /\ t \notin pending_tasks_
        /\ t \in pending_tasks_ => outcome[t] = "accepted"
        /\ (\E w \in Workers : t \in delete_these[w]) =>
              outcome[t] = "accepted" /\ t \notin pending_tasks_ /\ ~Busy(t)
    BY DEF Busy
  <1>2. outcome[t] = "accepted" =>
          Busy(t) \/ t \in pending_tasks_ \/ \E w \in Workers : t \in delete_these[w]
    <2>1. ASSUME NEW w \in Workers, task[w] = t, outcome[t] = "accepted"
          PROVE  pc[w] # "ran"
      BY <2>1
    <2> HIDE DEF BaseTypes, Places
    <2> QED
      BY <2>1 DEF Located, Busy
  <1>3. outcome[t] \in {"new", "posting", "refused", "accepted", "done", "deleted"}
    BY DEF Outcomes
  <1> DEFINE busy == Busy(t)
             pend == t \in pending_tasks_
             swept == \E w \in Workers : t \in delete_these[w]
             out == outcome[t]
  <1>4. Status(t) = CASE out \in {"new", "posting", "refused"} -> out
                      [] busy -> "running"
                      [] pend -> "queued"
                      [] swept -> "deleted"
                      [] OTHER -> out
    BY DEF Status, Busy
  <1>5. Fate(t) = IF out # "accepted" THEN out
                  ELSE IF busy THEN "running"
                  ELSE IF pend THEN "queued"
                  ELSE "deleted"
    BY DEF Fate
  <1> HIDE DEF busy, pend, swept, out
  <1>6. /\ busy => out = "accepted" /\ ~pend
        /\ pend => out = "accepted"
        /\ swept => out = "accepted" /\ ~pend /\ ~busy
        /\ out = "accepted" => busy \/ pend \/ swept
        /\ out \in {"new", "posting", "refused", "accepted", "done", "deleted"}
    BY <1>1, <1>2, <1>3 DEF busy, pend, swept, out
  <1> QED
    BY <1>4, <1>5, <1>6

\* Of the tasks s, those in D are dropped.
Drops(D) ==
  \A s \in Tasks : Fate(s)' = IF s \in D THEN "deleted" ELSE Fate(s)

Becoming(t, from, to) ==
  Fate(t) = from /\ \A s \in Tasks : Fate(s)' = IF s = t THEN to ELSE Fate(s)

\* A step of the pool for the tasks in it.
Moves ==
  \/ (\A s \in Tasks : Fate(s)' = Fate(s)) /\ prior' = prior
  \/ \E t \in Tasks :
       /\ Becoming(t, "new", "posting")
       /\ prior' = [prior EXCEPT ![t] =
            {s \in Taken : TokenOf[s] = TokenOf[t] /\ TokenOf[t] # NoToken}]
  \/ \E t \in Tasks : Becoming(t, "posting", "refused") /\ prior' = prior
  \/ \E t \in Tasks : Becoming(t, "posting", "queued") /\ prior' = prior
  \/ \E t \in Tasks : Becoming(t, "running", "done") /\ prior' = prior
  \/ \E t \in pending_tasks_ :
       /\ Found(t)
       /\ \A s \in Tasks : Fate(s)' = IF s = t THEN "running"
                                      ELSE IF s \in Swept THEN "deleted" ELSE Fate(s)
       /\ prior' = prior
  \/ Drops(Swept) /\ prior' = prior
  \/ /\ cleanup_state_ = "RUNNING"
     /\ \E t \in pending_tasks_ : Future(t) /\ Drops(Swept \cup {t})
     /\ prior' = prior

\* Which of them each section of code is.
LEMMA StepMoves ==
  BaseTypes /\ Places /\ [Next]_vars => Moves
  <1> SUFFICES ASSUME BaseTypes, Places, [Next]_vars PROVE Moves
    OBVIOUS
  <1> USE TaskAssumption DEF BaseTypes, PoolTypes, TaskTypes, ThreadTypes, Threads,
     innerVars, threadVars, countVars, queueVars, shutdownVars,
     cleanupVars, cvVars, localVars, callVars, historyVars, unchangedByCleanup
  <1>1. ASSUME UNCHANGED <<outcome, pending_tasks_, task, prior>>,
               \A w \in Workers : HasTask(w) => (pc'[w] = "ran" <=> pc[w] = "ran")
        PROVE  Moves
    <2>1. \A t \in Tasks : Busy(t)' <=> Busy(t)
      BY <1>1 DEF Busy, HasTask
    <2>2. \A t \in Tasks : Fate(t)' = Fate(t)
      BY <1>1, <2>1 DEF Fate
    <2> QED
      BY <1>1, <2>2 DEF Moves
  <1>2. ASSUME NEW th \in Threads, NEW t \in Tasks, PostTaskStamp(th, t)
        PROVE  Moves
    <2>1. /\ outcome[t] = "new" /\ outcome' = [outcome EXCEPT ![t] = "posting"]
          /\ UNCHANGED <<pending_tasks_, task, pc>>
          /\ prior' = [prior EXCEPT ![t] =
               {s \in Tasks : /\ TokenOf[s] = TokenOf[t] /\ TokenOf[t] # NoToken
                              /\ outcome[s] \in {"accepted", "done", "deleted"}}]
      BY <1>2 DEF PostTaskStamp
    <2>2. Becoming(t, "new", "posting")
      BY <2>1 DEF Becoming, Fate, Busy
    <2>3. {s \in Tasks : /\ TokenOf[s] = TokenOf[t] /\ TokenOf[t] # NoToken
                         /\ outcome[s] \in {"accepted", "done", "deleted"}}
            = {s \in Taken : TokenOf[s] = TokenOf[t] /\ TokenOf[t] # NoToken}
      BY DEF Taken
    <2> QED
      BY <2>1, <2>2, <2>3 DEF Moves
  <1>3. ASSUME NEW th \in Threads, PostTaskRefuse(th) PROVE Moves
    <2>1. /\ posting[th] \in Tasks /\ outcome[posting[th]] = "posting"
          /\ outcome' = [outcome EXCEPT ![posting[th]] = "refused"]
          /\ UNCHANGED <<pending_tasks_, task, pc, prior>>
      BY <1>3 DEF PostTaskRefuse, Places
    <2>2. Becoming(posting[th], "posting", "refused")
      BY <2>1 DEF Becoming, Fate, Busy
    <2> QED
      BY <2>1, <2>2 DEF Moves
  <1>4. ASSUME NEW th \in Threads, PostTaskInsert(th) PROVE Moves
    <2> DEFINE t == posting[th]
    <2>1. /\ t \in Tasks /\ outcome[t] = "posting"
          /\ outcome' = [outcome EXCEPT ![t] = "accepted"]
          /\ pending_tasks_' = pending_tasks_ \cup {t}
          /\ UNCHANGED <<task, pc, prior>>
      BY <1>4 DEF PostTaskInsert, Places
    <2> HIDE DEF t
    <2>2. ~Busy(t)
      BY <2>1 DEF Busy, Places, HasTask
    <2>3. \A s \in Tasks : Busy(s)' <=> Busy(s)
      BY <2>1 DEF Busy
    <2>4. Becoming(t, "posting", "queued")
      BY <2>1, <2>2, <2>3 DEF Becoming, Fate
    <2> QED
      BY <2>1, <2>4 DEF Moves
  <1>5. ASSUME NEW th \in Threads,
               PostTaskStartThread(th) \/ PostTaskSignal(th) \/ SpuriousWakeup(th)
        PROVE  Moves
    BY <1>1, <1>5 DEF PostTaskStartThread, PostTaskSignal, SpuriousWakeup, Places, RunningPcs
  <1>6. ASSUME NEW w \in Workers, GetWorkFound(w) PROVE Moves
    <2>1. PICK t \in pending_tasks_ :
            /\ Found(t)
            /\ pending_tasks_' = pending_tasks_ \ (Swept \cup {t})
            /\ task' = [task EXCEPT ![w] = t]
      BY <1>6 DEF GetWorkFound, Erased
    <2>2. /\ pc' = [pc EXCEPT ![w] = "picked"] /\ UNCHANGED <<outcome, prior>>
          /\ task[w] = NoTask
      BY <1>6 DEF GetWorkFound, AtGetWork, Places, HasTask, RunningPcs
    <2>3. Swept \subseteq pending_tasks_
      BY DEF Swept, Dropped, Runnable
    <2>4. \A s \in pending_tasks_ : outcome[s] = "accepted" /\ ~Busy(s)
      BY DEF Places, Busy, HasTask
    <2>5. \A s \in Tasks : Busy(s)' <=> (s = t \/ Busy(s))
      BY <2>1, <2>2 DEF Busy
    <2>6. \A s \in Tasks : Fate(s)' = IF s = t THEN "running"
                                      ELSE IF s \in Swept THEN "deleted" ELSE Fate(s)
      BY <2>1, <2>2, <2>3, <2>4, <2>5 DEF Fate
    <2> QED
      BY <2>1, <2>2, <2>6 DEF Moves
  <1>7. ASSUME NEW w \in Workers, RunFinish(w) PROVE Moves
    <2> DEFINE t == task[w]
    <2>1. /\ pc[w] = "run" /\ pc' = [pc EXCEPT ![w] = "ran"]
          /\ outcome' = [outcome EXCEPT ![t] = "done"]
          /\ UNCHANGED <<pending_tasks_, task, prior>>
      BY <1>7 DEF RunFinish
    <2>2. t \in Tasks /\ outcome[t] = "accepted" /\ t \notin pending_tasks_
      BY <2>1 DEF Places, HasTask, RunningPcs
    <2>3. \A v \in Workers : v # w => task[v] # t
      BY <2>1 DEF Places, HasTask, RunningPcs
    <2>4. Busy(t) /\ \A s \in Tasks : s # t => (Busy(s)' <=> Busy(s))
      BY <2>1, <2>3 DEF Busy
    <2> HIDE DEF t
    <2>5. Becoming(t, "running", "done")
      BY <2>1, <2>2, <2>4 DEF Becoming, Fate
    <2> QED
      BY <2>1, <2>2, <2>5 DEF Moves
  <1>8. ASSUME NEW w \in Workers, DidRunWorkerTask(w) PROVE Moves
    <2>1. /\ pc[w] = "ran" /\ pc' = [pc EXCEPT ![w] = "loop"]
          /\ task' = [task EXCEPT ![w] = NoTask]
          /\ UNCHANGED <<outcome, pending_tasks_, prior>>
      BY <1>8 DEF DidRunWorkerTask
    <2>2. \A s \in Tasks : Busy(s)' <=> Busy(s)
      BY <2>1 DEF Busy
    <2>3. \A s \in Tasks : Fate(s)' = Fate(s)
      BY <2>1, <2>2 DEF Fate
    <2> QED
      BY <2>1, <2>3 DEF Moves
  <1>9. ASSUME NEW w \in Workers, RunPurge(w) \/ CleanupPurge(w) \/ PurgeUnderLock(w)
        PROVE  Moves
    <2>1. /\ outcome' = [t \in Tasks |-> IF t \in delete_these[w] THEN "deleted"
                                                               ELSE outcome[t]]
          /\ UNCHANGED <<task, pending_tasks_, prior>>
          /\ \A v \in Workers : pc'[v] = "ran" <=> pc[v] = "ran"
      BY <1>9 DEF RunPurge, CleanupPurge, PurgeUnderLock, Destroy, AfterPurge
    <2>2. \A t \in delete_these[w] :
            outcome[t] = "accepted" /\ t \notin pending_tasks_ /\ ~Busy(t)
      BY DEF Places, Busy
    <2>3. \A s \in Tasks : Busy(s)' <=> Busy(s)
      BY <2>1 DEF Busy
    <2>4. \A s \in Tasks : Fate(s)' = Fate(s)
      BY <2>1, <2>2, <2>3 DEF Fate
    <2> QED
      BY <2>1, <2>4 DEF Moves
  <1>10. ASSUME NEW D, D \subseteq pending_tasks_, pending_tasks_' = pending_tasks_ \ D,
                UNCHANGED <<outcome, task, prior>>,
                \A w \in Workers : pc'[w] = "ran" <=> pc[w] = "ran"
         PROVE  Drops(D)
    <2>1. \A s \in pending_tasks_ : outcome[s] = "accepted" /\ ~Busy(s)
      BY DEF Places, Busy, HasTask
    <2>2. \A s \in Tasks : Busy(s)' <=> Busy(s)
      BY <1>10 DEF Busy
    <2> QED
      BY <1>10, <2>1, <2>2 DEF Drops, Fate
  <1>11. Swept \subseteq pending_tasks_
    BY DEF Swept, Dropped, Runnable
  <1>12. ASSUME NEW w \in Workers, CleanupDelayed(w) PROVE Moves
    <2>1. PICK t \in pending_tasks_ :
            Future(t) /\ pending_tasks_' = pending_tasks_ \ (Swept \cup {t})
      BY <1>12 DEF CleanupDelayed, Erased
    <2>2. /\ cleanup_state_ = "RUNNING" /\ UNCHANGED <<outcome, task, prior>>
          /\ \A v \in Workers : pc'[v] = "ran" <=> pc[v] = "ran"
      BY <1>12 DEF CleanupDelayed, AtGetWork
    <2>3. Drops(Swept \cup {t})
      BY <1>10, <1>11, <2>1, <2>2
    <2> QED
      BY <2>1, <2>2, <2>3 DEF Moves
  <1>13. ASSUME NEW w \in Workers, WaitForWork(w) \/ LeaveLoop(w) PROVE Moves
    <2>1. /\ pending_tasks_' = pending_tasks_ \ Swept
          /\ UNCHANGED <<outcome, task, prior>>
          /\ \A v \in Workers : pc'[v] = "ran" <=> pc[v] = "ran"
      BY <1>13 DEF WaitForWork, LeaveLoop, AtGetWork
    <2>2. Drops(Swept)
      BY <1>10, <1>11, <2>1
    <2> QED
      BY <2>1, <2>2 DEF Moves
  <1>14. ASSUME NEW w \in Workers,
                ThreadLoopEnter(w) \/ RunSignal(w) \/ RunSpawn(w) \/
             CleanupDrained(w) \/ WakeUp(w) \/ TimeOut(w) \/ ExitSignal(w) \/
             ExitSignalShutdown(w) \/ LeadCleanup(w) \/ LeadWait(w) \/
             LeadRun(w) \/ IdleEnter(w) \/ IdleWait(w) \/ IdleLeave(w) \/
             FinishWait(w) \/ FinishCleanup(w)
        PROVE  /\ UNCHANGED <<outcome, pending_tasks_, task, prior>>
               /\ \A v \in Workers : pc'[v] = "ran" <=> pc[v] = "ran"
    BY <1>14 DEF ThreadLoopEnter, RunSignal, RunSpawn, CleanupDrained, WakeUp,
       TimeOut, ExitSignal, ExitSignalShutdown, LeadCleanup, LeadWait,
       LeadRun, IdleEnter, IdleWait, IdleLeave, FinishWait, FinishCleanup,
       AtGetWork, AfterPurge, AtFinish, Return, WaitAs
  <1>15. ASSUME
                CleanupForTesting \/ CleanupWoken \/ Shutdown \/ ShutdownCheck \/
             Tick
        PROVE  /\ UNCHANGED <<outcome, pending_tasks_, task, prior>>
               /\ \A v \in Workers : pc'[v] = "ran" <=> pc[v] = "ran"
    BY <1>15, ThreadAssumption DEF CleanupForTesting, CleanupWoken, Shutdown,
       ShutdownCheck, Tick
  <1>16. CASE UNCHANGED vars
    BY <1>1, <1>16 DEF vars
  <1> QED
    BY <1>1, <1>2, <1>3, <1>4, <1>5, <1>6, <1>7, <1>8, <1>9, <1>10, <1>11,
    <1>12, <1>13, <1>14, <1>15, <1>16
    DEF Next, PostProgress, ThreadLoop, HandleCleanup

-----------------------------------------------------------------------------
\* One runner.

\* The tasks of a runner share their token, unless it has but one.
LEMMA RunnerTokens ==
  ASSUME NEW S \in Runners
  PROVE  /\ S \subseteq Tasks
         /\ \A s, t \in S : s # t => TokenOf[s] = TokenOf[t] /\ TokenOf[t] # NoToken
         /\ \A t \in S : \A s \in Tasks :
              TokenOf[s] = TokenOf[t] /\ TokenOf[t] # NoToken => s \in S
  <1>1. PICK u \in Tasks :
          S = {s \in Tasks : s = u \/ (TokenOf[s] = TokenOf[u] /\ TokenOf[u] # NoToken)}
    BY DEF Runners
  <1> QED
    BY <1>1

\* GetWork() does not take a task before one that is to start first, unless it
\* drops that one on the way.
LEMMA NotOvertaken ==
  ASSUME BaseTypes, Ranked, Places, NEW t \in pending_tasks_, Found(t),
         NEW s \in prior[t], DelayOf[s] <= DelayOf[t], s \in pending_tasks_
  PROVE  s \in Swept
  <1>1. t \in Tasks /\ s \in Tasks /\ t \in Taken
    BY DEF BaseTypes, PoolTypes, Places, Taken
  <1>2. /\ TokenOf[s] = TokenOf[t]
        /\ time_to_run[s] <= time_to_run[t]
        /\ sequence_task_number[s] < sequence_task_number[t]
    BY <1>1 DEF Ranked
  <1>3. \A k \in Tasks : time_to_run[k] \in Int /\ sequence_task_number[k] \in Int
    BY BoundAssumption DEF BaseTypes, TaskTypes
  <1>4. t \in Kept /\ \A k \in Kept \ {t} : Before(t, k)
    BY DEF Found, StopsAt
  <1>5. Kept \subseteq Tasks /\ s \in Runnable
    BY <1>1, <1>2, <1>4 DEF Kept, Runnable, IsSequenceTokenRunnable, BaseTypes, PoolTypes
  <1>6. s \notin Kept
    <2>1. ~Before(t, s) /\ s # t
      BY <1>1, <1>2, <1>3 DEF Before
    <2> QED
      BY <1>4, <2>1
  <1>7. ASSUME NEW k \in Kept PROVE Before(s, k)
    <2>1. k = t \/ Before(t, k)
      BY <1>4
    <2> QED
      BY <1>1, <1>2, <1>3, <1>5, <2>1 DEF Before
  <1> QED
    BY <1>5, <1>6, <1>7 DEF Kept, Swept

\* Nor while another task of its sequence is with a worker.
LEMMA AloneInSequence ==
  ASSUME BaseTypes, Sequences, NEW t \in pending_tasks_, Found(t), NEW s \in Tasks,
         TokenOf[s] = TokenOf[t], TokenOf[t] # NoToken
  PROVE  ~Busy(s)
  <1>1. TokenOf[t] \notin current_sequences_
    BY DEF Found, StopsAt, Kept, Runnable, IsSequenceTokenRunnable
  <1> QED
    BY <1>1, TaskAssumption DEF Busy, Sequences, HasTask

\* Statuses are read off as above.
Shown == \A t \in Tasks : Status(t) = Fate(t)

\* What the tasks of one runner see of a step of the pool is a step of the runner.
LEMMA RunnerMoves ==
  ASSUME BaseTypes, Places, Sequences, Ranked, Moves,
         Shown, Shown', NEW S \in Runners
  PROVE  Runner(S)!Step
  <1> DEFINE st == [t \in S |-> Status(t)]
             st1 == [t \in S |-> Status(t)]'
             pr == [t \in S |-> prior[t]]
             pr1 == [t \in S |-> prior[t]]'
  <1>1. S \subseteq Tasks
    BY RunnerTokens
  <1>2. /\ st = [t \in S |-> Fate(t)]
        /\ st1 = [t \in S |-> Fate(t)']
        /\ pr = [t \in S |-> prior[t]]
        /\ pr1 = [t \in S |-> prior'[t]]
    BY <1>1 DEF Shown
  <1> HIDE DEF st, st1, pr, pr1
  <1>3. ASSUME \A s \in S : Fate(s)' = Fate(s), \A s \in S : prior'[s] = prior[s]
        PROVE  Runner(S)!Step
    <2>1. st1 = st /\ pr1 = pr
      BY <1>2, <1>3
    <2> QED
      BY <2>1 DEF Runner!Step, Runner!promised, st, st1, pr, pr1
  <1>4. ASSUME prior' = prior PROVE pr1 = pr
    BY <1>2, <1>4
  <1>5. \A s \in Tasks : Fate(s) \in {"queued", "running", "done", "deleted"} <=> s \in Taken
    BY DEF Fate, Taken, BaseTypes, TaskTypes, Outcomes
  <1>6. \A s \in pending_tasks_ : s \in Tasks /\ Fate(s) = "queued"
    BY TaskAssumption DEF Fate, Busy, Places, HasTask, BaseTypes, PoolTypes
  <1>7. ASSUME NEW t \in Tasks, NEW from, NEW to, Becoming(t, from, to)
        PROVE  /\ t \in S => st[t] = from /\ st1 = [st EXCEPT ![t] = to]
               /\ t \notin S => \A s \in S : Fate(s)' = Fate(s)
    <2>1. Fate(t) = from /\ \A s \in Tasks : Fate(s)' = IF s = t THEN to ELSE Fate(s)
      BY <1>7 DEF Becoming
    <2> QED
      BY <1>1, <1>2, <2>1
  <1>8. CASE \E t \in Tasks :
               /\ Becoming(t, "new", "posting")
               /\ prior' = [prior EXCEPT ![t] =
                    {s \in Taken : TokenOf[s] = TokenOf[t] /\ TokenOf[t] # NoToken}]
    <2> DEFINE Before1(t) == {s \in Taken : TokenOf[s] = TokenOf[t] /\ TokenOf[t] # NoToken}
    <2>1. PICK t \in Tasks :
            /\ Becoming(t, "new", "posting")
            /\ prior' = [prior EXCEPT ![t] = Before1(t)]
      BY <1>8
    <2> HIDE DEF Before1
    <2>2. prior \in [Tasks -> SUBSET Tasks]
      BY DEF BaseTypes, TaskTypes
    <2>3. CASE t \notin S
      <3>1. \A s \in S : prior'[s] = prior[s]
        BY <1>1, <2>1, <2>2, <2>3
      <3> QED
        BY <1>3, <1>7, <2>1, <2>3, <3>1
    <2>4. CASE t \in S
      <3>1. st[t] = "new" /\ st1 = [st EXCEPT ![t] = "posting"]
        BY <1>7, <2>1, <2>4
      <3>2. pr1 = [pr EXCEPT ![t] = Before1(t)]
        BY <1>1, <1>2, <2>1, <2>2, <2>4
      <3>3. Runner(S)!Accepted
              = {s \in S : st[s] \in {"queued", "running", "done", "deleted"}}
        BY DEF Runner!Accepted, st
      <3>4. \A s \in S : st[s] = Fate(s)
        BY <1>2
      <3>5. t \notin Taken
        BY <1>5, <2>4, <3>1, <3>4
      <3>6. Runner(S)!Accepted = Before1(t)
        <4>1. \A s \in Before1(t) : s \in S /\ s \in Taken
          BY <2>4, RunnerTokens DEF Before1, Taken
        <4>2. \A s \in S : s \in Taken => s \in Before1(t)
          BY <2>4, <3>5, RunnerTokens DEF Before1
        <4> QED
          BY <1>1, <1>5, <3>3, <3>4, <4>1, <4>2
      <3>7. Runner(S)!Call(t)
        BY <3>1, <3>2, <3>6 DEF Runner!Call, Runner!Becomes, st, st1, pr, pr1
      <3> QED
        BY <2>4, <3>7 DEF Runner!Step, Runner!Next
    <2> QED
      BY <2>3, <2>4
  <1>9. CASE \E t \in Tasks : Becoming(t, "posting", "refused") /\ prior' = prior
    <2>1. PICK t \in Tasks : Becoming(t, "posting", "refused")
      BY <1>9
    <2>2. t \in S => Runner(S)!Refuse(t)
      BY <1>4, <1>7, <1>9, <2>1 DEF Runner!Refuse, Runner!Becomes, st, st1, pr, pr1
    <2>3. t \in S => Runner(S)!Step
      BY <2>2 DEF Runner!Step, Runner!Next
    <2> QED
      BY <1>3, <1>7, <1>9, <2>1, <2>3
  <1>10. CASE \E t \in Tasks : Becoming(t, "posting", "queued") /\ prior' = prior
    <2>1. PICK t \in Tasks : Becoming(t, "posting", "queued")
      BY <1>10
    <2>2. t \in S => Runner(S)!Accept(t)
      BY <1>4, <1>7, <1>10, <2>1 DEF Runner!Accept, Runner!Becomes, st, st1, pr, pr1
    <2>3. t \in S => Runner(S)!Step
      BY <2>2 DEF Runner!Step, Runner!Next
    <2> QED
      BY <1>3, <1>7, <1>10, <2>1, <2>3
  <1>11. CASE \E t \in Tasks : Becoming(t, "running", "done") /\ prior' = prior
    <2>1. PICK t \in Tasks : Becoming(t, "running", "done")
      BY <1>11
    <2>2. t \in S => Runner(S)!Finish(t)
      BY <1>4, <1>7, <1>11, <2>1 DEF Runner!Finish, Runner!Becomes, st, st1, pr, pr1
    <2>3. t \in S => Runner(S)!Step
      BY <2>2 DEF Runner!Step, Runner!Next
    <2> QED
      BY <1>3, <1>7, <1>11, <2>1, <2>3
  <1>12. Swept \subseteq pending_tasks_ \cap Dropping
    BY DEF Swept, Dropped, Runnable, Dropping, BaseTypes, PoolTypes
  <1>13. ASSUME NEW D, D \subseteq pending_tasks_ \cap Dropping
         PROVE  /\ D \cap S \in Runner(S)!Droppable
                /\ Runner(S)!Drop(D \cap S)
                     = [s \in S |-> IF s \in D THEN "deleted" ELSE Fate(s)]
    <2>1. \A s \in S : st[s] = Fate(s)
      BY <1>2
    <2>2. \A s \in D \cap S : st[s] = "queued"
      BY <1>6, <1>13, <2>1
    <2>3. D \cap S \in Runner(S)!Droppable
      BY <1>13, <2>2 DEF Runner!Droppable, st
    <2>4. Runner(S)!Drop(D \cap S) = [s \in S |-> IF s \in D \cap S THEN "deleted" ELSE st[s]]
      BY DEF Runner!Drop, st
    <2> QED
      BY <2>1, <2>3, <2>4
  <1>14. ASSUME NEW D, D \subseteq pending_tasks_ \cap Dropping, prior' = prior,
                \A s \in S : Fate(s)' = IF s \in D THEN "deleted" ELSE Fate(s)
         PROVE  Runner(S)!Step
    <2>1. st1 = Runner(S)!Drop(D \cap S)
      <3>1. Runner(S)!Drop(D \cap S) = [s \in S |-> IF s \in D THEN "deleted" ELSE Fate(s)]
        BY <1>13, <1>14
      <3> QED
        BY <1>2, <1>14, <3>1
    <2>2. Runner(S)!Delete
      BY <1>4, <1>13, <1>14, <2>1 DEF Runner!Delete, st1, pr, pr1
    <2> QED
      BY <2>2 DEF Runner!Step, Runner!Next
  <1>15. CASE \E t \in pending_tasks_ :
                /\ Found(t)
                /\ \A s \in Tasks : Fate(s)' = IF s = t THEN "running"
                                      ELSE IF s \in Swept THEN "deleted" ELSE Fate(s)
                /\ prior' = prior
    <2>1. PICK t \in pending_tasks_ :
            /\ Found(t)
            /\ \A s \in Tasks : Fate(s)' = IF s = t THEN "running"
                                  ELSE IF s \in Swept THEN "deleted" ELSE Fate(s)
            /\ prior' = prior
      BY <1>15
    <2>2. CASE t \notin S
      <3>1. \A s \in S : Fate(s)' = IF s \in Swept THEN "deleted" ELSE Fate(s)
        BY <1>1, <2>1, <2>2
      <3> QED
        BY <1>12, <1>14, <2>1, <3>1
    <2>3. CASE t \in S
      <3>1. \A s \in S : st[s] = Fate(s)
        BY <1>2
      <3>2. st[t] = "queued" /\ t \notin Dropping \cap S
        <4>1. ~(shutdown_called_ /\ BehaviorOf[t] # "BLOCK") /\ ~(time_to_run[t] > now)
          <5>1. t \in Kept /\ time_to_run[t] <= now
            BY <2>1 DEF Found, StopsAt
          <5>2. ~(shutdown_called_ /\ BehaviorOf[t] # "BLOCK")
            BY <5>1 DEF Kept, Dropped
          <5>3. time_to_run[t] \in Int /\ now \in Int
            BY <1>6, BoundAssumption DEF BaseTypes, TaskTypes
          <5> QED
            BY <5>1, <5>2, <5>3
        <4> QED
          BY <1>6, <2>3, <3>1, <4>1 DEF Dropping
      <3>3. ASSUME NEW s \in S PROVE st[s] # "running"
        <4>1. CASE s = t
          BY <3>2, <4>1
        <4>2. CASE s # t
          <5>1. ~Busy(s)
            BY <1>1, <2>1, <2>3, <4>2, RunnerTokens, AloneInSequence
          <5>2. Fate(s) # "running"
            BY <1>1, <5>1 DEF Fate, BaseTypes, TaskTypes, Outcomes
          <5> QED
            BY <3>1, <5>2
        <4> QED
          BY <4>1, <4>2
      <3>4. ASSUME NEW s \in S \ (Swept \cap S), s \in pr[t], DelayOf[t] >= DelayOf[s]
            PROVE  st[s] # "queued"
        <4>1. s \in prior[t] /\ t \in Tasks /\ s \in Tasks
          BY <1>1, <1>2, <2>3, <3>4
        <4>2. DelayOf[s] <= DelayOf[t]
          BY <3>4, <4>1, TaskAssumption
        <4>3. s \notin pending_tasks_
          BY <2>1, <3>4, <4>1, <4>2, NotOvertaken
        <4>4. Fate(s) # "queued"
          BY <4>1, <4>3 DEF Fate, BaseTypes, TaskTypes, Outcomes
        <4> QED
          BY <3>1, <3>4, <4>4
      <3>5. st1 = [Runner(S)!Drop(Swept \cap S) EXCEPT ![t] = "running"]
        <4>1. Runner(S)!Drop(Swept \cap S)
                = [s \in S |-> IF s \in Swept THEN "deleted" ELSE Fate(s)]
          BY <1>12, <1>13
        <4> QED
          BY <1>1, <1>2, <2>1, <2>3, <4>1
      <3>6. Swept \cap S \in Runner(S)!Droppable
        BY <1>12, <1>13
      <3>7. Runner(S)!Start(t)
        <4>1. \A s \in S \ ((Swept \cap S) \cup {}) :
                Runner(S)!Follows(t, s) => st[s] # "queued"
          BY <2>3, <3>4 DEF Runner!Follows, pr
        <4>2. pr1 = pr
          BY <1>4, <2>1
        <4> QED
          BY <3>2, <3>3, <3>5, <3>6, <4>1, <4>2
             DEF Runner!Start, Runner!StartBefore, st, st1, pr, pr1
      <3> QED
        BY <2>3, <3>7 DEF Runner!Step, Runner!Next
    <2> QED
      BY <2>2, <2>3
  <1>16. CASE Drops(Swept) /\ prior' = prior
    BY <1>1, <1>12, <1>14, <1>16 DEF Drops
  <1>17. CASE /\ cleanup_state_ = "RUNNING"
              /\ \E t \in pending_tasks_ : Future(t) /\ Drops(Swept \cup {t})
              /\ prior' = prior
    <2>1. PICK t \in pending_tasks_ : Future(t) /\ Drops(Swept \cup {t})
      BY <1>17
    <2>2. t \in Dropping
      BY <1>6, <1>17, <2>1 DEF Future, Dropping
    <2>3. Swept \cup {t} \subseteq pending_tasks_ \cap Dropping
      BY <1>12, <2>2
    <2>4. \A s \in S : Fate(s)' = IF s \in Swept \cup {t} THEN "deleted" ELSE Fate(s)
      BY <1>1, <2>1 DEF Drops
    <2> QED
      BY <1>14, <1>17, <2>3, <2>4
  <1>18. CASE (\A s \in Tasks : Fate(s)' = Fate(s)) /\ prior' = prior
    BY <1>1, <1>3, <1>18
  <1> QED
    BY <1>8, <1>9, <1>10, <1>11, <1>15, <1>16, <1>17, <1>18 DEF Moves

-----------------------------------------------------------------------------
\* Every sequence of the pool implements SequencedTaskRunner, one task at a time and in
\* the order of posting unless an earlier one has a longer delay
\* (SequencedWorkerPoolSequencedTaskRunner, GetWork()).
THEOREM RunnersHold == Spec => TaskRunnersImplemented
  <1>1. Init => \A S \in Runners : Runner(S)!Init
    <2>1. ASSUME Init, NEW S \in Runners
          PROVE  /\ [t \in S |-> Status(t)] = [t \in S |-> "new"]
                 /\ [t \in S |-> prior[t]] = [t \in S |-> {}]
      <3>1. \A t \in S : t \in Tasks /\ outcome[t] = "new" /\ prior[t] = {}
        BY <2>1, RunnerTokens DEF Init
      <3>2. BaseTypes /\ Places /\ Located
        BY <2>1, BaseTypesInit, PlacesInit, LocatedInit
      <3>3. \A t \in S : Status(t) = "new"
        BY <3>1, <3>2, StatusIsFate DEF Fate
      <3> QED
        BY <3>1, <3>3
    <2> QED
      BY <2>1 DEF Runner!Init
  <1>2. FlushInv => Shown
    BY StatusIsFate DEF FlushInv, IInv, Shown
  <1>3. FlushInv /\ Ranked /\ Shown /\ Shown' /\ [Next]_vars
          => [\A S \in Runners : Runner(S)!Step]_vars
    BY StepMoves, RunnerMoves DEF FlushInv, IInv
  <1>4. (Init => Ranked) /\ (FlushInv /\ Ranked /\ [Next]_vars => Ranked')
    BY RankedInit, RankedStep DEF FlushInv, IInv
  <1> QED
    BY <1>1, <1>2, <1>3, <1>4, FlushInvInductive, PTL DEF Spec, TaskRunnersImplemented
====
