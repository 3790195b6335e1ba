--------------------- MODULE SequencedWorkerPoolProofs ---------------------
(***************************************************************************)
(* Theorems of SequencedWorkerPool. The invariant IInv has one conjunct    *)
(* per section of the first part; each section shows that the initial     *)
(* state satisfies its conjunct and that a step keeps it, given those of  *)
(* the sections before. The second part, from Sweeping on, does the same  *)
(* for what a flush rests on and ends with FlushInv.                      *)
(***************************************************************************)
EXTENDS SequencedWorkerPool, FiniteSetTheorems, TLAPS

\* The types but those of the counters, which need more than types to stay
\* natural numbers.
BaseTypes ==
  /\ PoolTypes /\ TaskTypes /\ ThreadTypes
  /\ \A th \in Threads : stage[th] = "stamped" => posting[th] \in Tasks

\* A new pool (Inner::Inner()) is within the types.
LEMMA BaseTypesInit == Init => BaseTypes
  <1> USE DEF Init, BaseTypes, PoolTypes, TaskTypes, ThreadTypes, Threads,
     CleanupStates, Outcomes, WorkerPcs, ClientPcs, Never
  <1> USE
     TaskAssumption, ThreadAssumption, BoundAssumption
  <1>1. Init => PoolTypes
    <2>1. 0 \in 0 .. MaxNewBlocking
      OBVIOUS
    <2>2. {} \subseteq {TokenOf[t] : t \in Tasks} \ {NoToken}
      OBVIOUS
    <2>3. Init => lock_ \in Workers \cup {Free} /\ cleanup_state_ \in CleanupStates
      OBVIOUS
    <2>4. ASSUME Init
          PROVE  /\ threads_ = {} /\ pending_tasks_ = {} /\ current_sequences_ = {}
         /\ has_work_cv_ = {} /\ can_shutdown_cv_ = {} /\ cleanup_cv_ = {}
      BY <2>4
    <2>5. Init => thread_being_created_ \in BOOLEAN /\ shutdown_called_ \in BOOLEAN
      OBVIOUS
    <2>6. Init => /\ next_sequence_task_number_ \in Nat
                  /\ max_blocking_tasks_after_shutdown_ \in 0 .. MaxNewBlocking
      BY <2>1
    <2> QED BY <2>1, <2>2, <2>3, <2>4, <2>5, <2>6 DEF PoolTypes
  <1>2. Init => TaskTypes
    OBVIOUS
  <1>3. Init => ThreadTypes
    OBVIOUS
  <1> QED BY <1>1, <1>2, <1>3

\* A thread that only releases the lock, or nothing, keeps the types of the pool's fields.
LEMMA PoolTypesKept ==
  ASSUME PoolTypes, UNCHANGED <<innerVars, cvVars>>, lock_' \in {lock_, Free}
  PROVE  PoolTypes'
  BY DEF PoolTypes, innerVars, threadVars, queueVars, shutdownVars, cleanupVars, cvVars

\* A new thread takes the lock and registers itself.
LEMMA PoolTypesEntered ==
  ASSUME PoolTypes, NEW w \in Workers, ThreadLoopEnter(w)
  PROVE  PoolTypes'
  <1>1. /\ UNCHANGED <<pending_tasks_, next_sequence_task_number_, current_sequences_,
                       shutdown_called_, max_blocking_tasks_after_shutdown_,
                       cleanup_state_, has_work_cv_, can_shutdown_cv_, cleanup_cv_>>
        /\ lock_' = w /\ thread_being_created_' = FALSE /\ threads_' = threads_ \cup {w}
    BY DEF ThreadLoopEnter, queueVars, shutdownVars, cleanupVars, cvVars
  <1> QED
    BY <1>1 DEF PoolTypes

\* So does a worker that goes on with its loop, with other closures to destroy, keep those
\* of the threads' locals.
LEMMA ThreadTypesMoved ==
  ASSUME ThreadTypes, ThreadAssumption, NEW w \in Workers,
         NEW x \in WorkerPcs, pc' = [pc EXCEPT ![w] = x],
         NEW D \in SUBSET Tasks, delete_these' = [delete_these EXCEPT ![w] = D],
         UNCHANGED <<task, new_thread_id, deadline, stage, posting>>
  PROVE  ThreadTypes'
  <1>1. /\ pc' \in [Threads -> WorkerPcs \cup ClientPcs]
        /\ \A v \in Workers : pc'[v] \in WorkerPcs
        /\ \A c \in Clients : pc'[c] \in ClientPcs
    BY DEF ThreadTypes, Threads, ThreadAssumption
  <1>2. delete_these' \in [Workers -> SUBSET Tasks]
    BY DEF ThreadTypes
  <1> QED
    BY <1>1, <1>2 DEF ThreadTypes

\* No section of code leaves the types.
LEMMA BaseTypesStep == BaseTypes /\ [Next]_vars => BaseTypes'
  <1> SUFFICES ASSUME BaseTypes, [Next]_vars PROVE BaseTypes'
    OBVIOUS
  <1> USE TaskAssumption, ThreadAssumption, BoundAssumption DEF BaseTypes,
     PoolTypes, TaskTypes, ThreadTypes, Threads, Never, CleanupStates,
     Outcomes, WorkerPcs, ClientPcs, Signalled, innerVars, threadVars,
     countVars, queueVars, shutdownVars, cleanupVars, cvVars, localVars,
     callVars, historyVars, unchangedByCleanup
  <1>1. ASSUME NEW th \in Threads, NEW t \in Tasks, PostTaskStamp(th, t)
        PROVE BaseTypes'
    BY <1>1 DEF PostTaskStamp, MayPost
  <1>2. ASSUME NEW th \in Threads, PostTaskRefuse(th)
        PROVE BaseTypes'
    BY <1>2 DEF PostTaskRefuse
  <1>3. ASSUME NEW th \in Threads, PostTaskInsert(th)
        PROVE BaseTypes'
    BY <1>3 DEF PostTaskInsert, Refuses
  <1>4. ASSUME NEW th \in Threads, PostTaskStartThread(th)
        PROVE BaseTypes'
    BY <1>4 DEF PostTaskStartThread
  <1>5. ASSUME NEW th \in Threads, PostTaskSignal(th)
        PROVE BaseTypes'
    BY <1>5 DEF PostTaskSignal
  <1>6. ASSUME NEW w \in Workers, ThreadLoopEnter(w)
        PROVE BaseTypes'
    <2>1. PoolTypes'
      <3> HIDE DEF PoolTypes, TaskTypes, ThreadTypes
      <3> QED
        BY <1>6, PoolTypesEntered
    <2>2. TaskTypes'
      BY <1>6 DEF ThreadLoopEnter
    <2>3. ThreadTypes'
      BY <1>6 DEF ThreadLoopEnter
    <2>4. \A th \in Threads : stage'[th] = "stamped" => posting'[th] \in Tasks
      BY <1>6 DEF ThreadLoopEnter
    <2> QED
      BY <2>1, <2>2, <2>3, <2>4 DEF BaseTypes
  <1>7. ASSUME NEW w \in Workers, GetWorkFound(w)
        PROVE BaseTypes'
    <2> PICK t \in pending_tasks_ :
          /\ pending_tasks_' = Erased(t)
          /\ delete_these' = [delete_these EXCEPT ![w] = Swept]
          /\ task' = [task EXCEPT ![w] = t]
          /\ current_sequences_' = current_sequences_ \cup ({TokenOf[t]} \ {NoToken})
          /\ new_thread_id' = [new_thread_id EXCEPT ![w] =
               Helpful(Erased(t),
                       current_sequences_ \cup ({TokenOf[t]} \ {NoToken}))]
      BY <1>7 DEF GetWorkFound
    <2>1. Erased(t) \subseteq Tasks /\ Swept \subseteq Tasks
      BY DEF Erased, Swept, Dropped, Runnable
    <2>2. current_sequences_' \subseteq {TokenOf[s] : s \in Tasks} \ {NoToken}
      OBVIOUS
    <2>3. Helpful(Erased(t), current_sequences_ \cup ({TokenOf[t]} \ {NoToken})) \in BOOLEAN
      BY DEF Helpful
    <2> QED BY <1>7, <2>1, <2>2, <2>3 DEF GetWorkFound,
         AtGetWork
  <1>8. ASSUME NEW w \in Workers, RunSignal(w)
        PROVE BaseTypes'
    BY <1>8 DEF RunSignal, AfterPurge
  <1>9. ASSUME NEW w \in Workers, RunPurge(w)
        PROVE BaseTypes'
    BY <1>9 DEF RunPurge, Destroy, AfterPurge
  <1>10. ASSUME NEW w \in Workers, RunSpawn(w)
        PROVE BaseTypes'
    <2>1. PoolTypes'
      <3> HIDE DEF PoolTypes, TaskTypes, ThreadTypes
      <3> QED
        BY <1>10, PoolTypesKept DEF RunSpawn
    <2>2. TaskTypes'
      BY <1>10 DEF RunSpawn
    <2>3. ThreadTypes'
      <3>1. /\ pc' \in [Threads -> WorkerPcs \cup ClientPcs]
            /\ \A v \in Workers : pc'[v] \in WorkerPcs
            /\ \A c \in Clients : pc'[c] \in ClientPcs
        <4>1. PICK n \in Workers : pc' = [pc EXCEPT ![w] = "run", ![n] = "starting"]
          BY <1>10 DEF RunSpawn
        <4>2. /\ {"run", "starting"} \subseteq WorkerPcs
              /\ pc \in [Threads -> WorkerPcs \cup ClientPcs]
              /\ \A v \in Workers : pc[v] \in WorkerPcs
              /\ \A c \in Clients : pc[c] \in ClientPcs /\ c \notin Workers
          OBVIOUS
        <4> HIDE DEF BaseTypes, PoolTypes, TaskTypes, ThreadTypes, WorkerPcs, ClientPcs
        <4> QED
          BY <4>1, <4>2
      <3>2. /\ new_thread_id' \in [Workers -> BOOLEAN]
            /\ UNCHANGED <<task, delete_these, deadline, stage, posting>>
        BY <1>10 DEF RunSpawn
      <3> HIDE DEF PoolTypes, TaskTypes, WorkerPcs, ClientPcs
      <3> QED
        BY <3>1, <3>2
    <2>4. \A th \in Threads : stage'[th] = "stamped" => posting'[th] \in Tasks
      BY <1>10 DEF RunSpawn
    <2> QED
      BY <2>1, <2>2, <2>3, <2>4 DEF BaseTypes
  <1>11. ASSUME NEW w \in Workers, RunFinish(w)
        PROVE BaseTypes'
    BY <1>11 DEF RunFinish
  <1>12. ASSUME NEW w \in Workers, DidRunWorkerTask(w)
        PROVE BaseTypes'
    BY <1>12 DEF DidRunWorkerTask
  <1>13. ASSUME NEW w \in Workers, CleanupDelayed(w)
        PROVE BaseTypes'
    BY <1>13 DEF CleanupDelayed, Erased, Swept, Dropped, Runnable
  <1>14. ASSUME NEW w \in Workers, CleanupPurge(w)
        PROVE BaseTypes'
    BY <1>14 DEF CleanupPurge, Destroy
  <1>15. ASSUME NEW w \in Workers, CleanupDrained(w)
        PROVE BaseTypes'
    BY <1>15 DEF CleanupDrained
  <1>16. ASSUME NEW w \in Workers, WaitForWork(w)
        PROVE BaseTypes'
    <2>1. PoolTypes'
      BY <1>16 DEF WaitForWork, Swept, Dropped, Runnable
    <2>2. TaskTypes'
      BY <1>16 DEF WaitForWork, Swept, Dropped, Runnable
    <2>3. ThreadTypes'
      BY <1>16 DEF WaitForWork, Swept, Dropped, Runnable
    <2>4. \A th \in Threads : stage'[th] = "stamped" => posting'[th] \in Tasks
      BY <1>16 DEF WaitForWork, Swept, Dropped, Runnable
    <2> QED
      BY <2>1, <2>2, <2>3, <2>4 DEF BaseTypes
  <1>17. ASSUME NEW w \in Workers, WakeUp(w)
        PROVE BaseTypes'
    BY <1>17 DEF WakeUp
  <1>18. ASSUME NEW w \in Workers, TimeOut(w)
        PROVE BaseTypes'
    BY <1>18 DEF TimeOut
  <1>19. ASSUME NEW w \in Workers, LeaveLoop(w)
        PROVE BaseTypes'
    BY <1>19 DEF LeaveLoop, Swept, Dropped, Runnable, AtGetWork
  <1>20. ASSUME NEW w \in Workers, PurgeUnderLock(w)
        PROVE BaseTypes'
    <2>1. PoolTypes'
      <3> HIDE DEF PoolTypes, TaskTypes, ThreadTypes
      <3> QED
        BY <1>20, PoolTypesKept DEF PurgeUnderLock
    <2>2. TaskTypes'
      BY <1>20 DEF PurgeUnderLock, Destroy
    <2>3. ThreadTypes'
      <3>1. /\ \E x \in {"loop", "exitSignal"} : pc' = [pc EXCEPT ![w] = x]
            /\ delete_these' = [delete_these EXCEPT ![w] = {}]
            /\ UNCHANGED <<task, new_thread_id, deadline, stage, posting>>
        BY <1>20 DEF PurgeUnderLock, Destroy
      <3>2. {"loop", "exitSignal"} \subseteq WorkerPcs
        OBVIOUS
      <3> HIDE DEF PoolTypes, TaskTypes, ThreadTypes, WorkerPcs, ClientPcs
      <3> QED
        BY <3>1, <3>2, ThreadTypesMoved
    <2>4. \A th \in Threads : stage'[th] = "stamped" => posting'[th] \in Tasks
      BY <1>20 DEF PurgeUnderLock, Destroy
    <2> QED
      BY <2>1, <2>2, <2>3, <2>4 DEF BaseTypes
  <1>21. ASSUME NEW w \in Workers, ExitSignal(w)
        PROVE BaseTypes'
    BY <1>21 DEF ExitSignal
  <1>22. ASSUME NEW w \in Workers, ExitSignalShutdown(w)
        PROVE BaseTypes'
    BY <1>22 DEF ExitSignalShutdown
  <1>23. ASSUME NEW w \in Workers, LeadCleanup(w)
        PROVE BaseTypes'
    BY <1>23 DEF LeadCleanup
  <1>24. ASSUME NEW w \in Workers, LeadWait(w)
        PROVE BaseTypes'
    BY <1>24 DEF LeadWait, WaitAs
  <1>25. ASSUME NEW w \in Workers, LeadRun(w)
        PROVE BaseTypes'
    BY <1>25 DEF LeadRun, Return
  <1>26. ASSUME NEW w \in Workers, IdleEnter(w)
        PROVE BaseTypes'
    BY <1>26 DEF IdleEnter, WaitAs
  <1>27. ASSUME NEW w \in Workers, IdleWait(w)
        PROVE BaseTypes'
    BY <1>27 DEF IdleWait, WaitAs
  <1>28. ASSUME NEW w \in Workers, IdleLeave(w)
        PROVE BaseTypes'
    BY <1>28 DEF IdleLeave, Return
  <1>29. ASSUME NEW w \in Workers, FinishWait(w)
        PROVE BaseTypes'
    BY <1>29 DEF FinishWait, WaitAs
  <1>30. ASSUME NEW w \in Workers, FinishCleanup(w)
        PROVE BaseTypes'
    BY <1>30 DEF FinishCleanup, Return
  <1>31. ASSUME NEW th \in Threads, SpuriousWakeup(th)
        PROVE BaseTypes'
    BY <1>31 DEF SpuriousWakeup
  <1>32. CASE CleanupForTesting
    BY <1>32, SMTT(30) DEF CleanupForTesting, Unfinished
  <1>33. CASE CleanupWoken
    BY <1>33, SMTT(30) DEF CleanupWoken
  <1>34. CASE Shutdown
    BY <1>34 DEF Shutdown
  <1>35. CASE ShutdownCheck
    BY <1>35, SMTT(30) DEF ShutdownCheck
  <1>36. CASE Tick
    BY <1>36 DEF Tick
  <1>37. CASE UNCHANGED vars
    BY <1>37 DEF vars
  <1> QED
    BY <1>1, <1>2, <1>3, <1>4, <1>5, <1>6, <1>7, <1>8, <1>9, <1>10, <1>11,
       <1>12, <1>13, <1>14, <1>15, <1>16, <1>17, <1>18, <1>19, <1>20,
       <1>21, <1>22, <1>23, <1>24, <1>25, <1>26, <1>27, <1>28, <1>29,
       <1>30, <1>31, <1>32, <1>33, <1>34, <1>35, <1>36, <1>37
    DEF Next, PostProgress, ThreadLoop, HandleCleanup

-----------------------------------------------------------------------------
\* Places
RunningPcs == {"picked", "purge", "spawn", "run", "ran"}

\* Where tasks are: which one a worker has, that none is in two places, and which
\* are being posted.
Places ==
  /\ \A w \in Workers : HasTask(w) <=> pc[w] \in RunningPcs
  /\ \A t \in pending_tasks_ : outcome[t] = "accepted"
  /\ \A w \in Workers : HasTask(w) =>
       /\ outcome[task[w]] = IF pc[w] = "ran" THEN "done" ELSE "accepted"
       /\ task[w] \notin pending_tasks_
  /\ \A w \in Workers : \A t \in delete_these[w] :
       /\ outcome[t] = "accepted"
       /\ t \notin pending_tasks_
       /\ \A v \in Workers : task[v] # t /\ (v # w => t \notin delete_these[v])
  /\ \A v, w \in Workers : v # w /\ HasTask(v) => task[v] # task[w]
  /\ \A th \in Threads : stage[th] = "stamped" =>
       /\ outcome[posting[th]] = "posting"
       /\ \A other \in Threads \ {th} :
            stage[other] = "stamped" => posting[other] # posting[th]

\* A new pool has no task anywhere.
LEMMA PlacesInit == Init => Places
  BY TaskAssumption DEF Init, Places, HasTask, RunningPcs, Threads

\* Posting, taking, sweeping and finishing move one task from a place to the next.
LEMMA PlacesStep == BaseTypes /\ Places /\ [Next]_vars => Places'
  <1> SUFFICES ASSUME BaseTypes, Places, [Next]_vars PROVE Places'
    OBVIOUS
  <1> USE TaskAssumption, ThreadAssumption DEF BaseTypes, PoolTypes,
     TaskTypes, ThreadTypes, Threads, Outcomes, Places, HasTask, RunningPcs,
     innerVars, threadVars, countVars, queueVars, shutdownVars, cleanupVars,
     cvVars, localVars, callVars, historyVars, unchangedByCleanup
  <1>1. ASSUME NEW th \in Threads, NEW t \in Tasks, PostTaskStamp(th, t)
        PROVE  Places'
    BY <1>1 DEF PostTaskStamp, MayPost
  <1>2. ASSUME NEW th \in Threads, PostTaskRefuse(th) PROVE Places'
    BY <1>2 DEF PostTaskRefuse, Refuses
  <1>3. ASSUME NEW th \in Threads, PostTaskInsert(th) PROVE Places'
    BY <1>3 DEF PostTaskInsert
  <1>4. ASSUME NEW th \in Threads, PostTaskStartThread(th) PROVE Places'
    BY <1>4 DEF PostTaskStartThread
  <1>5. ASSUME NEW th \in Threads, PostTaskSignal(th) PROVE Places'
    BY <1>5 DEF PostTaskSignal
  <1>6. ASSUME NEW th \in Threads, SpuriousWakeup(th) PROVE Places'
    BY <1>6 DEF SpuriousWakeup
  <1>7. ASSUME NEW w \in Workers, ThreadLoopEnter(w) PROVE Places'
    BY <1>7 DEF ThreadLoopEnter
  <1>8. ASSUME NEW w \in Workers, GetWorkFound(w) PROVE Places'
    BY <1>8, SMTT(30) DEF GetWorkFound, AtGetWork, Erased, Swept, Kept, Dropped,
       Runnable, StopsAt, Found
  <1>9. ASSUME NEW w \in Workers, RunSignal(w) PROVE Places'
    BY <1>9 DEF RunSignal, AfterPurge
  <1>10. ASSUME NEW w \in Workers, RunPurge(w) PROVE Places'
    BY <1>10 DEF RunPurge, Destroy, AfterPurge
  <1>11. ASSUME NEW w \in Workers, RunSpawn(w) PROVE Places'
    BY <1>11 DEF RunSpawn
  <1>12. ASSUME NEW w \in Workers, RunFinish(w) PROVE Places'
    BY <1>12 DEF RunFinish
  <1>13. ASSUME NEW w \in Workers, DidRunWorkerTask(w) PROVE Places'
    BY <1>13 DEF DidRunWorkerTask
  <1>14. ASSUME NEW w \in Workers, CleanupDelayed(w) PROVE Places'
    BY <1>14 DEF CleanupDelayed, AtGetWork, Erased, Swept, Dropped, Runnable
  <1>15. ASSUME NEW w \in Workers, CleanupPurge(w) PROVE Places'
    BY <1>15 DEF CleanupPurge, Destroy
  <1>16. ASSUME NEW w \in Workers, CleanupDrained(w) PROVE Places'
    BY <1>16 DEF CleanupDrained, AtGetWork
  <1>17. ASSUME NEW w \in Workers, WaitForWork(w) PROVE Places'
    BY <1>17 DEF WaitForWork, AtGetWork, Swept, Dropped, Runnable
  <1>18. ASSUME NEW w \in Workers, WakeUp(w) PROVE Places'
    BY <1>18 DEF WakeUp
  <1>19. ASSUME NEW w \in Workers, TimeOut(w) PROVE Places'
    BY <1>19 DEF TimeOut
  <1>20. ASSUME NEW w \in Workers, LeaveLoop(w) PROVE Places'
    BY <1>20 DEF LeaveLoop, AtGetWork, Swept, Dropped, Runnable
  <1>21. ASSUME NEW w \in Workers, PurgeUnderLock(w) PROVE Places'
    <2>1. /\ delete_these' = [delete_these EXCEPT ![w] = {}]
          /\ outcome' = [t \in Tasks |-> IF t \in delete_these[w] THEN "deleted"
                                                                  ELSE outcome[t]]
          /\ \E x \in {"loop", "exitSignal"} : pc' = [pc EXCEPT ![w] = x]
          /\ pc[w] \in {"purgeWake", "purgeExit"}
          /\ UNCHANGED <<task, pending_tasks_, stage, posting>>
      BY <1>21 DEF PurgeUnderLock, Destroy
    <2>2. /\ Places /\ pc \in [Threads -> WorkerPcs \cup ClientPcs]
          /\ delete_these \in [Workers -> SUBSET Tasks]
          /\ task \in [Workers -> Tasks \cup {NoTask}]
          /\ pending_tasks_ \subseteq Tasks /\ outcome \in [Tasks -> Outcomes]
          /\ \A th \in Threads : stage[th] = "stamped" => posting[th] \in Tasks
      OBVIOUS
    <2> HIDE DEF BaseTypes, PoolTypes, TaskTypes, ThreadTypes, Outcomes
    <2>3. \A v \in Workers : /\ pc'[v] \in RunningPcs <=> pc[v] \in RunningPcs
                             /\ pc'[v] = "ran" <=> pc[v] = "ran"
      BY <2>1, <2>2
    <2>4. /\ \A t \in Tasks : t \notin delete_these[w] => outcome'[t] = outcome[t]
          /\ delete_these'[w] = {}
          /\ \A v \in Workers : v # w => delete_these'[v] = delete_these[v]
      BY <2>1, <2>2
    <2>5. \A t \in delete_these[w] :
            /\ outcome[t] = "accepted" /\ t \notin pending_tasks_
            /\ \A v \in Workers : task[v] # t /\ (v # w => t \notin delete_these[v])
      BY <2>2
    <2> QED
      BY <2>1, <2>2, <2>3, <2>4, <2>5
  <1>22. ASSUME NEW w \in Workers, ExitSignal(w) PROVE Places'
    BY <1>22 DEF ExitSignal
  <1>23. ASSUME NEW w \in Workers, ExitSignalShutdown(w) PROVE Places'
    BY <1>23 DEF ExitSignalShutdown
  <1>24. ASSUME NEW w \in Workers, LeadCleanup(w) PROVE Places'
    BY <1>24 DEF LeadCleanup
  <1>25. ASSUME NEW w \in Workers, LeadWait(w) PROVE Places'
    BY <1>25 DEF LeadWait, WaitAs
  <1>26. ASSUME NEW w \in Workers, LeadRun(w) PROVE Places'
    BY <1>26 DEF LeadRun, Return
  <1>27. ASSUME NEW w \in Workers, IdleEnter(w) PROVE Places'
    BY <1>27 DEF IdleEnter, WaitAs
  <1>28. ASSUME NEW w \in Workers, IdleWait(w) PROVE Places'
    BY <1>28 DEF IdleWait, WaitAs
  <1>29. ASSUME NEW w \in Workers, IdleLeave(w) PROVE Places'
    BY <1>29 DEF IdleLeave, Return
  <1>30. ASSUME NEW w \in Workers, FinishWait(w) PROVE Places'
    BY <1>30 DEF FinishWait, AtFinish, WaitAs
  <1>31. ASSUME NEW w \in Workers, FinishCleanup(w) PROVE Places'
    BY <1>31 DEF FinishCleanup, AtFinish, Return
  <1>32. CASE CleanupForTesting
    BY <1>32 DEF CleanupForTesting
  <1>33. CASE CleanupWoken
    BY <1>33 DEF CleanupWoken
  <1>34. CASE Shutdown
    BY <1>34 DEF Shutdown
  <1>35. CASE ShutdownCheck
    BY <1>35 DEF ShutdownCheck
  <1>36. CASE Tick
    BY <1>36 DEF Tick
  <1>37. CASE UNCHANGED vars
    BY <1>37 DEF vars
  <1> QED
    BY <1>1, <1>2, <1>3, <1>4, <1>5, <1>6, <1>7, <1>8, <1>9, <1>10, <1>11,
       <1>12, <1>13, <1>14, <1>15, <1>16, <1>17, <1>18, <1>19, <1>20,
       <1>21, <1>22, <1>23, <1>24, <1>25, <1>26, <1>27, <1>28, <1>29,
       <1>30, <1>31, <1>32, <1>33, <1>34, <1>35, <1>36, <1>37
    DEF Next, PostProgress, ThreadLoop, HandleCleanup

-----------------------------------------------------------------------------
\* Sequences

\* The token of every task that a worker has is in use, so that the next task
\* of the sequence is not runnable.
Sequences ==
  /\ \A w \in Workers : HasTask(w) /\ TokenOf[task[w]] # NoToken =>
                          TokenOf[task[w]] \in current_sequences_
  /\ SequencesExclusive

\* A new pool runs no sequence.
LEMMA SequencesInit == Init => Sequences
  BY DEF Init, Sequences, SequencesExclusive, HasTask

\* Only taking a task and finishing one touch the tokens.
LEMMA SequencesStep ==
  BaseTypes /\ Places /\ Sequences /\ [Next]_vars => Sequences'
  <1> SUFFICES ASSUME BaseTypes, Places, Sequences, [Next]_vars
               PROVE  Sequences'
    OBVIOUS
  <1> USE TaskAssumption DEF BaseTypes, ThreadTypes, PoolTypes, Places,
     HasTask, Sequences, SequencesExclusive, innerVars, threadVars,
     countVars, queueVars, shutdownVars, cleanupVars, cvVars, localVars,
     callVars, historyVars, unchangedByCleanup
  <1>1. ASSUME NEW w \in Workers, GetWorkFound(w) PROVE Sequences'
    BY <1>1, SMTT(30) DEF GetWorkFound, AtGetWork, IsSequenceTokenRunnable, Erased,
       Swept, Kept, Dropped, Runnable, StopsAt, Found, AtGetWork
  <1>2. ASSUME NEW w \in Workers, DidRunWorkerTask(w) PROVE Sequences'
    BY <1>2 DEF DidRunWorkerTask, RunningPcs
  <1>3. ASSUME NEW th \in Threads,
                (\E t \in Tasks : PostTaskStamp(th, t)) \/ PostTaskRefuse(th)
             \/ PostTaskInsert(th) \/ PostTaskStartThread(th)
             \/ PostTaskSignal(th) \/ SpuriousWakeup(th)
        PROVE UNCHANGED <<task, current_sequences_>>
    BY <1>3 DEF PostTaskStamp, PostTaskRefuse, PostTaskInsert,
       PostTaskStartThread, PostTaskSignal, SpuriousWakeup
  <1>4. ASSUME NEW w \in Workers,
                ThreadLoopEnter(w) \/ RunSignal(w) \/ RunPurge(w)
             \/ RunSpawn(w) \/ RunFinish(w) \/ CleanupDelayed(w)
             \/ CleanupPurge(w) \/ CleanupDrained(w) \/ WaitForWork(w)
             \/ WakeUp(w) \/ TimeOut(w) \/ LeaveLoop(w) \/ PurgeUnderLock(w)
             \/ ExitSignal(w) \/ ExitSignalShutdown(w) \/ LeadCleanup(w)
             \/ LeadWait(w) \/ LeadRun(w) \/ IdleEnter(w) \/ IdleWait(w)
             \/ IdleLeave(w) \/ FinishWait(w) \/ FinishCleanup(w)
        PROVE UNCHANGED <<task, current_sequences_>>
    BY <1>4 DEF ThreadLoopEnter, RunSignal, RunPurge, RunSpawn, RunFinish,
       CleanupDelayed, CleanupPurge, CleanupDrained, WaitForWork, WakeUp,
       TimeOut, LeaveLoop, PurgeUnderLock, ExitSignal, ExitSignalShutdown,
       LeadCleanup, LeadWait, LeadRun, IdleEnter, IdleWait, IdleLeave,
       FinishWait, FinishCleanup
  <1>5. ASSUME
                CleanupForTesting \/ CleanupWoken \/ Shutdown
             \/ ShutdownCheck \/ Tick
        PROVE UNCHANGED <<task, current_sequences_>>
    BY <1>5 DEF CleanupForTesting, CleanupWoken, Shutdown, ShutdownCheck, Tick
  <1>6. CASE UNCHANGED vars
    BY <1>6 DEF vars
  <1>7. ASSUME UNCHANGED <<task, current_sequences_>> PROVE Sequences'
    BY <1>7
  <1> QED
    BY <1>1, <1>2, <1>3, <1>4, <1>5, <1>6, <1>7
    DEF Next, PostProgress, ThreadLoop, HandleCleanup

-----------------------------------------------------------------------------
\* Times

\* A task that may run at once is due from the moment it is posted.
Times == \A t \in Tasks : outcome[t] # "new" => time_to_run[t] <= now + DelayOf[t]

\* No task has been posted to a new pool.
LEMMA TimesInit == Init => Times
  BY DEF Init, Times

\* A task is stamped with its time before anything else, and time only advances.
LEMMA TimesStep == BaseTypes /\ Places /\ Times /\ [Next]_vars => Times'
  <1> SUFFICES ASSUME BaseTypes, Places, Times, [Next]_vars PROVE Times'
    OBVIOUS
  <1> USE TaskAssumption, BoundAssumption DEF BaseTypes, TaskTypes,
     ThreadTypes, PoolTypes, Places, HasTask, RunningPcs, Threads, Times,
     innerVars, threadVars, countVars, queueVars, shutdownVars, cleanupVars,
     cvVars, localVars, callVars, historyVars, unchangedByCleanup
  <1>1. ASSUME NEW th \in Threads, NEW t \in Tasks, PostTaskStamp(th, t)
        PROVE  Times'
    BY <1>1 DEF PostTaskStamp, MayPost
  <1>2. ASSUME NEW th \in Threads, PostTaskRefuse(th) PROVE Times'
    BY <1>2 DEF PostTaskRefuse, Refuses
  <1>3. ASSUME NEW th \in Threads, PostTaskInsert(th) PROVE Times'
    BY <1>3 DEF PostTaskInsert
  <1>4. ASSUME NEW th \in Threads, PostTaskStartThread(th) PROVE Times'
    BY <1>4 DEF PostTaskStartThread
  <1>5. ASSUME NEW th \in Threads, PostTaskSignal(th) PROVE Times'
    BY <1>5 DEF PostTaskSignal
  <1>6. ASSUME NEW th \in Threads, SpuriousWakeup(th) PROVE Times'
    BY <1>6 DEF SpuriousWakeup
  <1>7. ASSUME NEW w \in Workers, ThreadLoopEnter(w) PROVE Times'
    BY <1>7 DEF ThreadLoopEnter
  <1>8. ASSUME NEW w \in Workers, GetWorkFound(w) PROVE Times'
    BY <1>8 DEF GetWorkFound, AtGetWork
  <1>9. ASSUME NEW w \in Workers, RunSignal(w) PROVE Times'
    BY <1>9 DEF RunSignal, AfterPurge
  <1>10. ASSUME NEW w \in Workers, RunPurge(w) PROVE Times'
    BY <1>10 DEF RunPurge, Destroy, AfterPurge
  <1>11. ASSUME NEW w \in Workers, RunSpawn(w) PROVE Times'
    BY <1>11 DEF RunSpawn
  <1>12. ASSUME NEW w \in Workers, RunFinish(w) PROVE Times'
    BY <1>12 DEF RunFinish
  <1>13. ASSUME NEW w \in Workers, DidRunWorkerTask(w) PROVE Times'
    BY <1>13 DEF DidRunWorkerTask
  <1>14. ASSUME NEW w \in Workers, CleanupDelayed(w) PROVE Times'
    BY <1>14 DEF CleanupDelayed, AtGetWork
  <1>15. ASSUME NEW w \in Workers, CleanupPurge(w) PROVE Times'
    BY <1>15 DEF CleanupPurge, Destroy
  <1>16. ASSUME NEW w \in Workers, CleanupDrained(w) PROVE Times'
    BY <1>16 DEF CleanupDrained, AtGetWork
  <1>17. ASSUME NEW w \in Workers, WaitForWork(w) PROVE Times'
    BY <1>17 DEF WaitForWork, AtGetWork
  <1>18. ASSUME NEW w \in Workers, WakeUp(w) PROVE Times'
    BY <1>18 DEF WakeUp
  <1>19. ASSUME NEW w \in Workers, TimeOut(w) PROVE Times'
    BY <1>19 DEF TimeOut
  <1>20. ASSUME NEW w \in Workers, LeaveLoop(w) PROVE Times'
    BY <1>20 DEF LeaveLoop, AtGetWork
  <1>21. ASSUME NEW w \in Workers, PurgeUnderLock(w) PROVE Times'
    BY <1>21 DEF PurgeUnderLock, Destroy
  <1>22. ASSUME NEW w \in Workers, ExitSignal(w) PROVE Times'
    BY <1>22 DEF ExitSignal
  <1>23. ASSUME NEW w \in Workers, ExitSignalShutdown(w) PROVE Times'
    BY <1>23 DEF ExitSignalShutdown
  <1>24. ASSUME NEW w \in Workers, LeadCleanup(w) PROVE Times'
    BY <1>24 DEF LeadCleanup
  <1>25. ASSUME NEW w \in Workers, LeadWait(w) PROVE Times'
    BY <1>25 DEF LeadWait, WaitAs
  <1>26. ASSUME NEW w \in Workers, LeadRun(w) PROVE Times'
    BY <1>26 DEF LeadRun, Return
  <1>27. ASSUME NEW w \in Workers, IdleEnter(w) PROVE Times'
    BY <1>27 DEF IdleEnter, WaitAs
  <1>28. ASSUME NEW w \in Workers, IdleWait(w) PROVE Times'
    BY <1>28 DEF IdleWait, WaitAs
  <1>29. ASSUME NEW w \in Workers, IdleLeave(w) PROVE Times'
    BY <1>29 DEF IdleLeave, Return
  <1>30. ASSUME NEW w \in Workers, FinishWait(w) PROVE Times'
    BY <1>30 DEF FinishWait, AtFinish, WaitAs
  <1>31. ASSUME NEW w \in Workers, FinishCleanup(w) PROVE Times'
    BY <1>31 DEF FinishCleanup, AtFinish, Return
  <1>32. CASE CleanupForTesting
    BY <1>32 DEF CleanupForTesting
  <1>33. CASE CleanupWoken
    BY <1>33 DEF CleanupWoken
  <1>34. CASE Shutdown
    BY <1>34 DEF Shutdown
  <1>35. CASE ShutdownCheck
    BY <1>35 DEF ShutdownCheck
  <1>36. CASE Tick
    BY <1>36 DEF Tick
  <1>37. CASE UNCHANGED vars
    BY <1>37 DEF vars
  <1> QED
    BY <1>1, <1>2, <1>3, <1>4, <1>5, <1>6, <1>7, <1>8, <1>9, <1>10, <1>11,
       <1>12, <1>13, <1>14, <1>15, <1>16, <1>17, <1>18, <1>19, <1>20,
       <1>21, <1>22, <1>23, <1>24, <1>25, <1>26, <1>27, <1>28, <1>29,
       <1>30, <1>31, <1>32, <1>33, <1>34, <1>35, <1>36, <1>37
    DEF Next, PostProgress, ThreadLoop, HandleCleanup

-----------------------------------------------------------------------------
\* Counters

\* Counting one more.
LEMMA CountAdd ==
  ASSUME NEW S, IsFiniteSet(S), NEW x, x \notin S
  PROVE  Cardinality(S \cup {x}) = Cardinality(S) + 1
  BY FS_AddElement

\* Counting one less.
LEMMA CountRemove ==
  ASSUME NEW S, IsFiniteSet(S), NEW x \in S
  PROVE  Cardinality(S \ {x}) = Cardinality(S) - 1
  BY FS_RemoveElement

\* The counters of a new pool are zero.
LEMMA CountersInit == Init => CountersExact
  <1> SUFFICES ASSUME Init PROVE CountersExact
    OBVIOUS
  <1>1. PendingBlocking = {} /\ RunningBlocking = {} /\ WaitingWorkers = {}
    BY DEF Init, PendingBlocking, RunningBlocking, WaitingWorkers,
       HasTask, Threads
  <1> QED BY <1>1, FS_EmptySet DEF Init,
       CountersExact, PendingCountExact, RunningCountExact,
       WaitingCountExact

\* What is counted is finite.
LEMMA CountedFinite ==
  BaseTypes => /\ IsFiniteSet(PendingBlocking)
               /\ IsFiniteSet(RunningBlocking)
               /\ IsFiniteSet(WaitingWorkers)
  <1> SUFFICES ASSUME BaseTypes PROVE /\ PendingBlocking \in SUBSET Tasks
                                      /\ RunningBlocking \in SUBSET Workers
                                      /\ WaitingWorkers \in SUBSET Workers
    BY FiniteAssumption, FS_Subset
  <1> QED BY
    DEF BaseTypes, PoolTypes, PendingBlocking, RunningBlocking,
       WaitingWorkers

\* The sweep spares what counts.
LEMMA SweptCountsNot ==
  \A t \in Swept : BehaviorOf[t] # "BLOCK"
  BY DEF Swept, Dropped

\* Tasks that block shutdown enter and leave the queue one by one, counted.
LEMMA PendingCountStep ==
  BaseTypes /\ Places /\ Times /\ PendingCountExact /\ [Next]_vars
    => PendingCountExact'
  <1> SUFFICES ASSUME BaseTypes, Places, Times, PendingCountExact, [Next]_vars
               PROVE  PendingCountExact'
    OBVIOUS
  <1> USE TaskAssumption, CountedFinite DEF PendingCountExact, innerVars,
     threadVars, countVars, queueVars, shutdownVars, cleanupVars, cvVars,
     localVars, callVars, historyVars, unchangedByCleanup
  <1>1. ASSUME NEW th \in Threads, PostTaskInsert(th) PROVE PendingCountExact'
    <2> DEFINE t == posting[th]
    <2>1. t \in Tasks /\ t \notin pending_tasks_
      BY <1>1 DEF PostTaskInsert, BaseTypes, Places
    <2>2. /\ pending_tasks_' = pending_tasks_ \cup {t}
          /\ blocking_shutdown_pending_task_count_' =
               blocking_shutdown_pending_task_count_ + PendingBlock(t)
      BY <1>1 DEF PostTaskInsert
    <2>3. CASE BehaviorOf[t] = "BLOCK"
      <3>1. PendingBlocking' = PendingBlocking \cup {t} /\ t \notin PendingBlocking
        BY <2>1, <2>2, <2>3 DEF PendingBlocking
      <3> QED BY <3>1, <2>2,
           <2>3, CountAdd DEF PendingBlock
    <2>4. CASE BehaviorOf[t] # "BLOCK"
      <3>1. PendingBlocking' = PendingBlocking
        BY <2>2, <2>4 DEF PendingBlocking
      <3> QED BY <3>1, <2>2, <2>4,
           FS_CardinalityType DEF PendingBlock
    <2> QED BY <2>3, <2>4
  <1>2. ASSUME NEW w \in Workers, GetWorkFound(w) PROVE PendingCountExact'
    <2> PICK t \in pending_tasks_ :
          /\ Found(t)
          /\ pending_tasks_' = Erased(t)
          /\ task' = [task EXCEPT ![w] = t]
          /\ blocking_shutdown_pending_task_count_' =
               blocking_shutdown_pending_task_count_ - PendingBlock(t)
          /\ blocking_shutdown_thread_count_' =
               blocking_shutdown_thread_count_ + RunningBlock(t)
      BY <1>2 DEF GetWorkFound
    <2>1. CASE BehaviorOf[t] = "BLOCK"
      <3>1. PendingBlocking' = PendingBlocking \ {t} /\ t \in PendingBlocking
        BY <2>1, SweptCountsNot DEF PendingBlocking, Erased
      <3> QED BY
           <3>1, <2>1, CountRemove DEF PendingBlock
    <2>2. CASE BehaviorOf[t] # "BLOCK"
      <3>1. PendingBlocking' = PendingBlocking
        BY <2>2, SweptCountsNot DEF PendingBlocking, Erased
      <3> QED BY
           <3>1, <2>2, FS_CardinalityType DEF PendingBlock
    <2> QED BY
           <2>1, <2>2
  <1>3. ASSUME NEW w \in Workers, CleanupDelayed(w) PROVE PendingCountExact'
    <2> PICK t \in pending_tasks_ : Future(t) /\ pending_tasks_' = Erased(t)
      BY <1>3 DEF CleanupDelayed
    <2>1. t \in Tasks /\ time_to_run[t] <= now + DelayOf[t] /\ time_to_run[t] > now
      BY DEF BaseTypes, PoolTypes, Places, Times, Future
    <2>2. BehaviorOf[t] # "BLOCK"
      BY <2>1 DEF BaseTypes, TaskTypes
    <2>3. PendingBlocking' = PendingBlocking
      BY <2>2, SweptCountsNot DEF PendingBlocking, Erased
    <2> QED BY
         <1>3, <2>3 DEF CleanupDelayed, countVars
  <1>4. ASSUME NEW w \in Workers, WaitForWork(w) PROVE PendingCountExact'
    <2>1. PendingBlocking' = PendingBlocking
      BY <1>4, SweptCountsNot DEF WaitForWork, PendingBlocking
    <2> QED
         BY <1>4, <2>1 DEF WaitForWork
  <1>5. ASSUME NEW w \in Workers, LeaveLoop(w) PROVE PendingCountExact'
    <2>1. PendingBlocking' = PendingBlocking
      BY <1>5, SweptCountsNot DEF LeaveLoop, PendingBlocking
    <2> QED BY
         <1>5, <2>1 DEF LeaveLoop
  <1>6. ASSUME NEW th \in Threads,
                (\E t \in Tasks : PostTaskStamp(th, t)) \/ PostTaskRefuse(th)
             \/ PostTaskStartThread(th) \/ PostTaskSignal(th)
             \/ SpuriousWakeup(th)
        PROVE UNCHANGED <<blocking_shutdown_pending_task_count_, PendingBlocking>>
    BY <1>6 DEF PostTaskStamp, PostTaskRefuse, PostTaskStartThread,
       PostTaskSignal, SpuriousWakeup, PendingBlocking
  <1>7. ASSUME NEW w \in Workers,
                ThreadLoopEnter(w) \/ RunSignal(w) \/ RunPurge(w)
             \/ RunSpawn(w) \/ RunFinish(w) \/ DidRunWorkerTask(w)
             \/ CleanupPurge(w) \/ CleanupDrained(w) \/ WakeUp(w)
             \/ TimeOut(w) \/ PurgeUnderLock(w) \/ ExitSignal(w)
             \/ ExitSignalShutdown(w) \/ LeadCleanup(w) \/ LeadWait(w)
             \/ LeadRun(w) \/ IdleEnter(w) \/ IdleWait(w) \/ IdleLeave(w)
             \/ FinishWait(w) \/ FinishCleanup(w)
        PROVE UNCHANGED <<blocking_shutdown_pending_task_count_, PendingBlocking>>
    BY <1>7 DEF ThreadLoopEnter, RunSignal, RunPurge, RunSpawn, RunFinish,
       DidRunWorkerTask, CleanupPurge, CleanupDrained, WakeUp, TimeOut,
       PurgeUnderLock, ExitSignal, ExitSignalShutdown, LeadCleanup,
       LeadWait, LeadRun, IdleEnter, IdleWait, IdleLeave, FinishWait,
       FinishCleanup, PendingBlocking
  <1>8. ASSUME
                CleanupForTesting \/ CleanupWoken \/ Shutdown
             \/ ShutdownCheck \/ Tick
        PROVE UNCHANGED <<blocking_shutdown_pending_task_count_, PendingBlocking>>
    BY <1>8 DEF CleanupForTesting, CleanupWoken, Shutdown, ShutdownCheck,
       Tick, PendingBlocking
  <1>9. CASE UNCHANGED vars
    BY <1>9 DEF vars, PendingBlocking
  <1>10. ASSUME UNCHANGED <<blocking_shutdown_pending_task_count_, PendingBlocking>>
         PROVE  PendingCountExact'
    BY <1>10
  <1> QED
    BY <1>1, <1>2, <1>3, <1>4, <1>5, <1>6, <1>7, <1>8, <1>9, <1>10
    DEF Next, PostProgress, ThreadLoop, HandleCleanup
\* A worker counts from taking its task to DidRunWorkerTask().
LEMMA RunningCountStep ==
  BaseTypes /\ Places /\ RunningCountExact /\ [Next]_vars => RunningCountExact'
  <1> SUFFICES ASSUME BaseTypes, Places, RunningCountExact, [Next]_vars
               PROVE  RunningCountExact'
    OBVIOUS
  <1> USE TaskAssumption, CountedFinite DEF RunningCountExact, innerVars,
     threadVars, countVars, queueVars, shutdownVars, cleanupVars, cvVars,
     localVars, callVars, historyVars, unchangedByCleanup
  <1>1. ASSUME NEW w \in Workers, GetWorkFound(w) PROVE RunningCountExact'
    <2> PICK t \in pending_tasks_ :
          /\ Found(t)
          /\ pending_tasks_' = Erased(t)
          /\ task' = [task EXCEPT ![w] = t]
          /\ blocking_shutdown_pending_task_count_' =
               blocking_shutdown_pending_task_count_ - PendingBlock(t)
          /\ blocking_shutdown_thread_count_' =
               blocking_shutdown_thread_count_ + RunningBlock(t)
      BY <1>1 DEF GetWorkFound
    <2> USE DEF HasTask, BaseTypes,
         PoolTypes, ThreadTypes, RunningBlocking, RunningBlock
    <2>1. ~HasTask(w) /\ t \in Tasks
      BY <1>1 DEF GetWorkFound, AtGetWork, Places, RunningPcs
    <2>2. CASE BehaviorOf[t] # "CONTINUE"
      <3>1. RunningBlocking' = RunningBlocking \cup {w} /\ w \notin RunningBlocking
        BY <2>1, <2>2 <3> HIDE DEF RunningBlocking
      <3> QED BY <3>1,
           <2>2, CountAdd
    <2>3. CASE BehaviorOf[t] = "CONTINUE"
      <3>1. RunningBlocking' = RunningBlocking
        BY <2>1, <2>3 <3> HIDE DEF RunningBlocking
      <3> QED BY <3>1,
           <2>3, FS_CardinalityType
    <2> QED BY <2>2, <2>3
  <1>2. ASSUME NEW w \in Workers, DidRunWorkerTask(w) PROVE RunningCountExact'
    <2>1. /\ HasTask(w)
          /\ task' = [task EXCEPT ![w] = NoTask]
          /\ blocking_shutdown_thread_count_' =
               blocking_shutdown_thread_count_ - RunningBlock(task[w])
      BY <1>2 DEF DidRunWorkerTask, Places, RunningPcs
    <2>2. CASE BehaviorOf[task[w]] # "CONTINUE"
      <3>1. RunningBlocking' = RunningBlocking \ {w} /\ w \in RunningBlocking
        BY <2>1, <2>2 DEF RunningBlocking, HasTask, BaseTypes,
           ThreadTypes
      <3> QED BY <3>1, <2>1, <2>2, CountRemove DEF
           RunningBlock
    <2>3. CASE BehaviorOf[task[w]] = "CONTINUE"
      <3>1. RunningBlocking' = RunningBlocking
        BY <2>1, <2>3 DEF RunningBlocking, HasTask, BaseTypes,
           ThreadTypes
      <3> QED BY <3>1, <2>1, <2>3, FS_CardinalityType
           DEF RunningBlock
    <2> QED BY <2>2, <2>3
  <1>3. ASSUME NEW th \in Threads,
                (\E t \in Tasks : PostTaskStamp(th, t)) \/ PostTaskRefuse(th)
             \/ PostTaskInsert(th) \/ PostTaskStartThread(th)
             \/ PostTaskSignal(th) \/ SpuriousWakeup(th)
        PROVE UNCHANGED <<blocking_shutdown_thread_count_, RunningBlocking>>
    BY <1>3 DEF PostTaskStamp, PostTaskRefuse, PostTaskInsert,
       PostTaskStartThread, PostTaskSignal, SpuriousWakeup,
       RunningBlocking, HasTask
  <1>4. ASSUME NEW w \in Workers,
                ThreadLoopEnter(w) \/ RunSignal(w) \/ RunPurge(w)
             \/ RunSpawn(w) \/ RunFinish(w) \/ CleanupDelayed(w)
             \/ CleanupPurge(w) \/ CleanupDrained(w) \/ WaitForWork(w)
             \/ WakeUp(w) \/ TimeOut(w) \/ LeaveLoop(w) \/ PurgeUnderLock(w)
             \/ ExitSignal(w) \/ ExitSignalShutdown(w) \/ LeadCleanup(w)
             \/ LeadWait(w) \/ LeadRun(w) \/ IdleEnter(w) \/ IdleWait(w)
             \/ IdleLeave(w) \/ FinishWait(w) \/ FinishCleanup(w)
        PROVE UNCHANGED <<blocking_shutdown_thread_count_, RunningBlocking>>
    BY <1>4 DEF ThreadLoopEnter, RunSignal, RunPurge, RunSpawn, RunFinish,
       CleanupDelayed, CleanupPurge, CleanupDrained, WaitForWork, WakeUp,
       TimeOut, LeaveLoop, PurgeUnderLock, ExitSignal, ExitSignalShutdown,
       LeadCleanup, LeadWait, LeadRun, IdleEnter, IdleWait, IdleLeave,
       FinishWait, FinishCleanup, RunningBlocking, HasTask
  <1>5. ASSUME
                CleanupForTesting \/ CleanupWoken \/ Shutdown
             \/ ShutdownCheck \/ Tick
        PROVE UNCHANGED <<blocking_shutdown_thread_count_, RunningBlocking>>
    BY <1>5 DEF CleanupForTesting, CleanupWoken, Shutdown, ShutdownCheck,
       Tick, RunningBlocking, HasTask
  <1>6. CASE UNCHANGED vars
    BY <1>6 DEF vars, RunningBlocking, HasTask
  <1>7. ASSUME UNCHANGED <<blocking_shutdown_thread_count_, RunningBlocking>>
        PROVE  RunningCountExact'
    BY <1>7
  <1> QED
    BY <1>1, <1>2, <1>3, <1>4, <1>5, <1>6, <1>7
    DEF Next, PostProgress, ThreadLoop, HandleCleanup
\* A worker counts as waiting from WaitForWork to WakeUp.
LEMMA WaitingCountStep ==
  BaseTypes /\ WaitingCountExact /\ [Next]_vars => WaitingCountExact'
  <1> SUFFICES ASSUME BaseTypes, WaitingCountExact, [Next]_vars
               PROVE  WaitingCountExact'
    OBVIOUS
  <1> USE ThreadAssumption, CountedFinite DEF WaitingCountExact, BaseTypes,
     PoolTypes, ThreadTypes, Threads, innerVars, threadVars, countVars,
     queueVars, shutdownVars, cleanupVars, cvVars, localVars, callVars,
     historyVars, unchangedByCleanup
  <1>1. ASSUME NEW w \in Workers, WaitForWork(w) PROVE WaitingCountExact'
    <2>1. WaitingWorkers' = WaitingWorkers \cup {w} /\ w \notin WaitingWorkers
      BY <1>1 DEF WaitForWork, AtGetWork, WaitingWorkers
    <2>2. waiting_thread_count_' = waiting_thread_count_ + 1
      BY <1>1 DEF WaitForWork
    <2> QED BY <2>1, <2>2, CountAdd
  <1>2. ASSUME NEW w \in Workers, WakeUp(w) PROVE WaitingCountExact'
    <2>1. WaitingWorkers' = WaitingWorkers \ {w} /\ w \in WaitingWorkers
      BY <1>2 DEF WakeUp, WaitingWorkers
    <2>2. waiting_thread_count_' = waiting_thread_count_ - 1
      BY <1>2 DEF WakeUp
    <2> QED BY <2>1, <2>2, CountRemove
  <1>3. ASSUME NEW th \in Threads,
                (\E t \in Tasks : PostTaskStamp(th, t)) \/ PostTaskRefuse(th)
             \/ PostTaskInsert(th) \/ PostTaskStartThread(th)
             \/ PostTaskSignal(th) \/ SpuriousWakeup(th)
        PROVE UNCHANGED <<waiting_thread_count_, WaitingWorkers>>
    BY <1>3 DEF PostTaskStamp, PostTaskRefuse, PostTaskInsert,
       PostTaskStartThread, PostTaskSignal, SpuriousWakeup,
       WaitingWorkers, AfterPurge, AtGetWork, AtFinish, Return, WaitAs
  <1>4. ASSUME NEW w \in Workers,
                ThreadLoopEnter(w) \/ GetWorkFound(w) \/ RunSignal(w)
             \/ RunPurge(w) \/ RunSpawn(w) \/ RunFinish(w)
             \/ DidRunWorkerTask(w) \/ CleanupDelayed(w) \/ CleanupPurge(w)
             \/ CleanupDrained(w) \/ TimeOut(w) \/ LeaveLoop(w)
             \/ PurgeUnderLock(w) \/ ExitSignal(w) \/ ExitSignalShutdown(w)
             \/ LeadCleanup(w) \/ LeadWait(w) \/ LeadRun(w) \/ IdleEnter(w)
             \/ IdleWait(w) \/ IdleLeave(w) \/ FinishWait(w)
             \/ FinishCleanup(w)
        PROVE UNCHANGED <<waiting_thread_count_, WaitingWorkers>>
    <2>1. CASE ThreadLoopEnter(w) \/ GetWorkFound(w) \/ RunSignal(w) \/ RunPurge(w)
      BY <2>1 DEF ThreadLoopEnter, GetWorkFound, RunSignal, RunPurge, WaitingWorkers,
         AfterPurge, AtGetWork
    <2>2. CASE RunSpawn(w) \/ RunFinish(w) \/ DidRunWorkerTask(w) \/ CleanupDelayed(w)
      BY <2>2 DEF RunSpawn, RunFinish, DidRunWorkerTask, CleanupDelayed, WaitingWorkers,
         AtGetWork, AtFinish
    <2>3. CASE CleanupPurge(w) \/ CleanupDrained(w) \/ TimeOut(w) \/ LeaveLoop(w)
      BY <2>3 DEF CleanupPurge, CleanupDrained, TimeOut, LeaveLoop, WaitingWorkers,
         AfterPurge, AtGetWork
    <2>4. CASE PurgeUnderLock(w) \/ ExitSignal(w) \/ ExitSignalShutdown(w) \/ LeadCleanup(w)
      BY <2>4 DEF PurgeUnderLock, ExitSignal, ExitSignalShutdown, LeadCleanup,
         WaitingWorkers, AfterPurge, AtFinish
    <2>5. CASE LeadWait(w) \/ LeadRun(w) \/ IdleEnter(w) \/ IdleWait(w) \/ IdleLeave(w)
      BY <2>5 DEF LeadWait, LeadRun, IdleEnter, IdleWait, IdleLeave, WaitingWorkers,
         AtFinish, Return, WaitAs
    <2>6. CASE FinishWait(w) \/ FinishCleanup(w)
      BY <2>6 DEF FinishWait, FinishCleanup, WaitingWorkers, AtFinish, Return, WaitAs
    <2> QED
      BY ONLY <1>4, <2>1, <2>2, <2>3, <2>4, <2>5, <2>6
  <1>5. ASSUME
                CleanupForTesting \/ CleanupWoken \/ Shutdown
             \/ ShutdownCheck \/ Tick
        PROVE UNCHANGED <<waiting_thread_count_, WaitingWorkers>>
    BY <1>5 DEF CleanupForTesting, CleanupWoken, Shutdown, ShutdownCheck,
       Tick, WaitingWorkers, AfterPurge, AtGetWork, AtFinish, Return,
       WaitAs
  <1>6. CASE UNCHANGED vars
    BY <1>6 DEF vars, WaitingWorkers, AfterPurge, AtGetWork, AtFinish,
       Return, WaitAs
  <1>7. ASSUME UNCHANGED <<waiting_thread_count_, WaitingWorkers>>
        PROVE  WaitingCountExact'
    BY <1>7
  <1> QED
    BY <1>1, <1>2, <1>3, <1>4, <1>5, <1>6, <1>7
    DEF Next, PostProgress, ThreadLoop, HandleCleanup

-----------------------------------------------------------------------------
\* The cleanup: the types of its counter.

Idlers == {w \in Workers : pc[w] = "idling"}
Leaders == {w \in Workers : pc[w] = "leading"}
Flushing == pc[Main] = "flushing"

\* The idlers are counted, one worker leads, and both only during a flush.
CleanupCounts ==
  /\ cleanup_idlers_ = Cardinality(Idlers)
  /\ ~Flushing => cleanup_state_ = "DONE"
  /\ cleanup_state_ \in {"DONE", "REQUESTED"} => Idlers = {}
  /\ Leaders # {} => cleanup_state_ = "STARTING"
  /\ \A v, w \in Leaders : v = w

\* A new pool is not being flushed.
LEMMA CleanupCountsInit == Init => CleanupCounts
  <1> SUFFICES ASSUME Init PROVE CleanupCounts
    OBVIOUS
  <1>1. Idlers = {} /\ Leaders = {} /\ ~Flushing
    BY ThreadAssumption DEF Init, Idlers, Leaders, Flushing, Threads
  <1> QED
    BY <1>1, FS_EmptySet DEF Init, CleanupCounts

\* The idlers of a cleanup are finitely many.
LEMMA IdlersAreFinite == IsFiniteSet(Idlers)
  BY FiniteAssumption, FS_Subset DEF Idlers

\* The steps of HandleCleanup() and of CleanupForTesting() keep that count.
LEMMA CleanupCountsStep ==
  BaseTypes /\ CleanupCounts /\ [Next]_vars => CleanupCounts'
  <1> SUFFICES ASSUME BaseTypes, CleanupCounts, [Next]_vars
               PROVE  CleanupCounts'
    OBVIOUS
  <1> USE ThreadAssumption DEF innerVars, threadVars, countVars, queueVars,
     shutdownVars, cleanupVars, cvVars, localVars, callVars, historyVars,
     unchangedByCleanup
  <1>1. ASSUME NEW w \in Workers, CleanupDrained(w) PROVE CleanupCounts'
    <2>1. /\ cleanup_state_ = "RUNNING" /\ cleanup_state_' = "FINISHING"
          /\ UNCHANGED <<Idlers, Leaders, cleanup_idlers_, Flushing>>
      BY <1>1 DEF CleanupDrained, AtGetWork, Idlers, Leaders, Flushing,
         BaseTypes, ThreadTypes, Threads
    <2> QED BY <2>1 DEF
         CleanupCounts
  <1>2. ASSUME NEW w \in Workers, LeadCleanup(w) PROVE CleanupCounts'
    <2>1. /\ cleanup_state_ = "REQUESTED" /\ cleanup_state_' = "STARTING"
          /\ Idlers' = Idlers /\ Leaders' = Leaders \cup {w}
          /\ UNCHANGED <<cleanup_idlers_, Flushing>>
      BY <1>2 DEF LeadCleanup, Idlers, Leaders, Flushing, BaseTypes,
         ThreadTypes, Threads
    <2> QED BY <2>1 DEF CleanupCounts
  <1>3. ASSUME NEW w \in Workers, LeadRun(w) PROVE CleanupCounts'
    <2>1. /\ cleanup_state_' = "RUNNING" /\ w \in Leaders
          /\ Idlers' = Idlers /\ Leaders' = Leaders \ {w}
          /\ UNCHANGED <<cleanup_idlers_, Flushing>>
      BY <1>3 DEF LeadRun, Return, Idlers, Leaders, Flushing, BaseTypes,
         ThreadTypes, Threads
    <2> QED BY <2>1 DEF CleanupCounts
  <1>4. ASSUME NEW w \in Workers, IdleEnter(w) PROVE CleanupCounts'
    <2>1. /\ cleanup_state_ = "STARTING" /\ cleanup_idlers_' = cleanup_idlers_ + 1
          /\ Idlers' = Idlers \cup {w} /\ w \notin Idlers /\ Leaders' = Leaders
          /\ UNCHANGED <<cleanup_state_, Flushing>>
      BY <1>4 DEF IdleEnter, WaitAs, Idlers, Leaders, Flushing,
         BaseTypes, ThreadTypes, Threads
    <2>2. Cardinality(Idlers') = Cardinality(Idlers) + 1
      BY <2>1, CountAdd, IdlersAreFinite
    <2> QED BY <2>1, <2>2
      DEF CleanupCounts
  <1>5. ASSUME NEW w \in Workers, IdleLeave(w) PROVE CleanupCounts'
    <2>1. /\ cleanup_state_ = "FINISHING" /\ cleanup_idlers_' = cleanup_idlers_ - 1
          /\ Idlers' = Idlers \ {w} /\ w \in Idlers /\ Leaders' = Leaders
          /\ UNCHANGED <<cleanup_state_, Flushing>>
      BY <1>5 DEF IdleLeave, Return, Idlers, Leaders, Flushing,
         BaseTypes, ThreadTypes, Threads
    <2>2. Cardinality(Idlers') = Cardinality(Idlers) - 1
      BY <2>1, CountRemove, IdlersAreFinite
    <2> QED BY <2>1, <2>2
      DEF CleanupCounts
  <1>6. ASSUME NEW w \in Workers, FinishCleanup(w) PROVE CleanupCounts'
    <2>1. /\ \/ cleanup_state_ = "FINISHING" /\ cleanup_state_' = "DONE"
             \/ UNCHANGED cleanup_state_
          /\ cleanup_idlers_ = 0
          /\ UNCHANGED <<Idlers, Leaders, cleanup_idlers_, Flushing>>
      BY <1>6 DEF FinishCleanup, AtFinish, Return, Idlers, Leaders,
         Flushing, BaseTypes, ThreadTypes, Threads
    <2>2. CleanupCounts => Idlers = {}
      BY <2>1, IdlersAreFinite, FS_EmptySet
      DEF CleanupCounts
    <2> QED BY <2>1, <2>2 DEF CleanupCounts
  <1>7. CASE CleanupForTesting
    <2>1. Idlers' = Idlers /\ Leaders' = Leaders /\ ~Flushing
      BY <1>7 DEF CleanupForTesting, Idlers, Leaders, Flushing,
         BaseTypes, ThreadTypes, Threads
    <2>2. \/ UNCHANGED <<cleanup_state_, cleanup_idlers_, Flushing>>
          \/ cleanup_state_' = "REQUESTED" /\ cleanup_idlers_' = 0 /\ Flushing'
      BY <1>7 DEF CleanupForTesting, Flushing, BaseTypes, ThreadTypes,
         Threads
    <2> QED BY <2>1, <2>2, FS_EmptySet DEF CleanupCounts
  <1>8. CASE CleanupWoken
    <2>1. /\ Idlers' = Idlers /\ Leaders' = Leaders
          /\ UNCHANGED <<cleanup_idlers_, cleanup_state_>>
          /\ cleanup_state_ = "DONE" \/ UNCHANGED Flushing
      BY <1>8 DEF CleanupWoken, Idlers, Leaders, Flushing, BaseTypes,
         ThreadTypes, Threads
    <2> QED BY <2>1 DEF CleanupCounts
  <1>9. ASSUME NEW th \in Threads,
                (\E t \in Tasks : PostTaskStamp(th, t)) \/ PostTaskRefuse(th)
             \/ PostTaskInsert(th) \/ PostTaskStartThread(th)
             \/ PostTaskSignal(th) \/ SpuriousWakeup(th)
        PROVE UNCHANGED <<cleanup_state_, cleanup_idlers_, Idlers, Leaders, Flushing>>
    BY <1>9 DEF PostTaskStamp, PostTaskRefuse, PostTaskInsert,
       PostTaskStartThread, PostTaskSignal, SpuriousWakeup, Idlers,
       Leaders, Flushing, BaseTypes, ThreadTypes, Threads, AfterPurge,
       AtGetWork, AtFinish, Return, WaitAs
  <1>10. ASSUME NEW w \in Workers,
                ThreadLoopEnter(w) \/ GetWorkFound(w) \/ RunSignal(w)
             \/ RunPurge(w) \/ RunSpawn(w) \/ RunFinish(w)
             \/ DidRunWorkerTask(w) \/ CleanupDelayed(w) \/ CleanupPurge(w)
             \/ WaitForWork(w) \/ WakeUp(w) \/ TimeOut(w) \/ LeaveLoop(w)
             \/ PurgeUnderLock(w) \/ ExitSignal(w) \/ ExitSignalShutdown(w)
             \/ LeadWait(w) \/ IdleWait(w) \/ FinishWait(w)
        PROVE UNCHANGED <<cleanup_state_, cleanup_idlers_, Idlers, Leaders, Flushing>>
    BY <1>10, SMTT(30) DEF ThreadLoopEnter, GetWorkFound, RunSignal, RunPurge,
       RunSpawn, RunFinish, DidRunWorkerTask, CleanupDelayed,
       CleanupPurge, WaitForWork, WakeUp, TimeOut, LeaveLoop,
       PurgeUnderLock, ExitSignal, ExitSignalShutdown, LeadWait, IdleWait,
       FinishWait, Idlers, Leaders, Flushing, BaseTypes, ThreadTypes,
       Threads, AfterPurge, AtGetWork, AtFinish, Return, WaitAs
  <1>11. ASSUME
                Shutdown \/ ShutdownCheck \/ Tick
        PROVE UNCHANGED <<cleanup_state_, cleanup_idlers_, Idlers, Leaders, Flushing>>
    BY <1>11 DEF Shutdown, ShutdownCheck, Tick, Idlers, Leaders, Flushing,
       BaseTypes, ThreadTypes, Threads, AfterPurge, AtGetWork, AtFinish,
       Return, WaitAs
  <1>12. CASE UNCHANGED vars
    BY <1>12 DEF vars, CleanupCounts, Idlers, Leaders, Flushing
  <1>13. ASSUME UNCHANGED <<cleanup_state_, cleanup_idlers_, Idlers, Leaders, Flushing>>
         PROVE  CleanupCounts'
    BY <1>13 DEF CleanupCounts
  <1> QED
    BY <1>1, <1>2, <1>3, <1>4, <1>5, <1>6, <1>7, <1>8, <1>9, <1>10, <1>11,
       <1>12, <1>13 DEF Next, PostProgress, ThreadLoop, HandleCleanup

-----------------------------------------------------------------------------
\* The thread that is being created.

\* It is decided on under the lock, created outside it and entered in threads_ by
\* itself. Only one thread can be anywhere on this way at a time.
OneCreation ==
  /\ \A w \in Workers : pc[w] = "starting" =>
       /\ thread_being_created_
       /\ \A v \in Workers : v # w => pc[v] # "starting"
       /\ \A v \in Workers : ~new_thread_id[v]
       /\ \A th \in Threads : stage[th] # "start"
  /\ \A w \in Workers : new_thread_id[w] =>
       /\ thread_being_created_
       /\ pc[w] \in {"picked", "purge", "spawn"}
       /\ \A v \in Workers : v # w => ~new_thread_id[v]
       /\ \A th \in Threads : stage[th] # "start"
  /\ \A th \in Threads : stage[th] = "start" =>
       /\ thread_being_created_
       /\ \A other \in Threads : other # th => stage[other] # "start"
  /\ thread_being_created_ =>
       \/ \E w \in Workers : pc[w] = "starting" \/ new_thread_id[w]
       \/ \E th \in Threads : stage[th] = "start"
  /\ \A w \in Workers : pc[w] = "spawn" => new_thread_id[w]
  /\ threads_ = {w \in Workers : pc[w] \notin {"unborn", "starting"}}

\* A new pool is creating no thread.
LEMMA OneCreationInit == Init => OneCreation
  <1> SUFFICES ASSUME Init
               PROVE  OneCreation
    OBVIOUS
  <1>1. \A w \in Workers : pc[w] = "unborn"
    BY DEF Init, Threads
  <1>2. \A w \in Workers : ~new_thread_id[w]
    BY DEF Init
  <1>3. \A th \in Threads : stage[th] = "idle"
    BY DEF Init
  <1>4. threads_ = {} /\ ~thread_being_created_
    BY DEF Init
  <1> QED
    BY <1>1, <1>2, <1>3, <1>4 DEF OneCreation

\* Each step of a creation hands it on.
LEMMA OneCreationStep ==
  BaseTypes /\ OneCreation /\ [Next]_vars => OneCreation'
  <1> SUFFICES ASSUME BaseTypes, OneCreation, [Next]_vars PROVE OneCreation'
    OBVIOUS
  <1> USE ThreadAssumption DEF BaseTypes, PoolTypes, ThreadTypes, Threads,
     OneCreation, innerVars, threadVars, countVars, queueVars, shutdownVars,
     cleanupVars, cvVars, localVars, callVars, historyVars,
     unchangedByCleanup
  <1>1. ASSUME NEW th \in Threads, NEW t \in Tasks, PostTaskStamp(th, t)
        PROVE  OneCreation'
    BY <1>1 DEF PostTaskStamp, MayPost
  <1>2. ASSUME NEW th \in Threads, PostTaskRefuse(th) PROVE OneCreation'
    BY <1>2 DEF PostTaskRefuse, Refuses
  <1>3. ASSUME NEW th \in Threads, PostTaskInsert(th) PROVE OneCreation'
    BY <1>3 DEF PostTaskInsert, Helpful
  <1>4. ASSUME NEW th \in Threads, PostTaskStartThread(th) PROVE OneCreation'
    BY <1>4 DEF PostTaskStartThread
  <1>5. ASSUME NEW th \in Threads, PostTaskSignal(th) PROVE OneCreation'
    BY <1>5 DEF PostTaskSignal
  <1>6. ASSUME NEW th \in Threads, SpuriousWakeup(th) PROVE OneCreation'
    BY <1>6 DEF SpuriousWakeup
  <1>7. ASSUME NEW w \in Workers, ThreadLoopEnter(w) PROVE OneCreation'
    BY <1>7 DEF ThreadLoopEnter
  <1>8. ASSUME NEW w \in Workers, GetWorkFound(w) PROVE OneCreation'
    <2>1. PICK t \in pending_tasks_ :
            LET found == Helpful(Erased(t),
                           current_sequences_ \cup ({TokenOf[t]} \ {NoToken}))
            IN  /\ new_thread_id' = [new_thread_id EXCEPT ![w] = found]
                /\ thread_being_created_' = (thread_being_created_ \/ found)
      BY <1>8 DEF GetWorkFound
    <2>2. PICK found \in BOOLEAN :
            /\ new_thread_id' = [new_thread_id EXCEPT ![w] = found]
            /\ thread_being_created_' = (thread_being_created_ \/ found)
            /\ found => ~thread_being_created_
      BY <2>1 DEF Helpful
    <2>3. /\ pc[w] \in {"getwork", "loop"}
          /\ pc' = [pc EXCEPT ![w] = "picked"]
          /\ UNCHANGED <<stage, threads_>>
      BY <1>8 DEF GetWorkFound, AtGetWork
    <2> QED BY <2>2, <2>3
  <1>9. ASSUME NEW w \in Workers, RunSignal(w) PROVE OneCreation'
    BY <1>9 DEF RunSignal, AfterPurge
  <1>10. ASSUME NEW w \in Workers, RunPurge(w) PROVE OneCreation'
    BY <1>10 DEF RunPurge, Destroy, AfterPurge
  <1>11. ASSUME NEW w \in Workers, RunSpawn(w) PROVE OneCreation'
    BY <1>11 DEF RunSpawn
  <1>12. ASSUME NEW w \in Workers, RunFinish(w) PROVE OneCreation'
    BY <1>12 DEF RunFinish
  <1>13. ASSUME NEW w \in Workers, DidRunWorkerTask(w) PROVE OneCreation'
    BY <1>13 DEF DidRunWorkerTask
  <1>14. ASSUME NEW w \in Workers, CleanupDelayed(w) PROVE OneCreation'
    BY <1>14 DEF CleanupDelayed, AtGetWork
  <1>15. ASSUME NEW w \in Workers, CleanupPurge(w) PROVE OneCreation'
    BY <1>15 DEF CleanupPurge, Destroy
  <1>16. ASSUME NEW w \in Workers, CleanupDrained(w) PROVE OneCreation'
    BY <1>16 DEF CleanupDrained, AtGetWork
  <1>17. ASSUME NEW w \in Workers, WaitForWork(w) PROVE OneCreation'
    BY <1>17 DEF WaitForWork, AtGetWork
  <1>18. ASSUME NEW w \in Workers, WakeUp(w) PROVE OneCreation'
    BY <1>18 DEF WakeUp
  <1>19. ASSUME NEW w \in Workers, TimeOut(w) PROVE OneCreation'
    BY <1>19 DEF TimeOut
  <1>20. ASSUME NEW w \in Workers, LeaveLoop(w) PROVE OneCreation'
    BY <1>20 DEF LeaveLoop, AtGetWork
  <1>21. ASSUME NEW w \in Workers, PurgeUnderLock(w) PROVE OneCreation'
    BY <1>21 DEF PurgeUnderLock, Destroy
  <1>22. ASSUME NEW w \in Workers, ExitSignal(w) PROVE OneCreation'
    BY <1>22 DEF ExitSignal
  <1>23. ASSUME NEW w \in Workers, ExitSignalShutdown(w) PROVE OneCreation'
    BY <1>23 DEF ExitSignalShutdown
  <1>24. ASSUME NEW w \in Workers, LeadCleanup(w) PROVE OneCreation'
    BY <1>24 DEF LeadCleanup
  <1>25. ASSUME NEW w \in Workers, LeadWait(w) PROVE OneCreation'
    BY <1>25 DEF LeadWait, WaitAs
  <1>26. ASSUME NEW w \in Workers, LeadRun(w) PROVE OneCreation'
    BY <1>26 DEF LeadRun, Return, Awake
  <1>27. ASSUME NEW w \in Workers, IdleEnter(w) PROVE OneCreation'
    BY <1>27 DEF IdleEnter, WaitAs
  <1>28. ASSUME NEW w \in Workers, IdleWait(w) PROVE OneCreation'
    BY <1>28 DEF IdleWait, WaitAs
  <1>29. ASSUME NEW w \in Workers, IdleLeave(w) PROVE OneCreation'
    BY <1>29 DEF IdleLeave, Return
  <1>30. ASSUME NEW w \in Workers, FinishWait(w) PROVE OneCreation'
    BY <1>30 DEF FinishWait, AtFinish, WaitAs
  <1>31. ASSUME NEW w \in Workers, FinishCleanup(w) PROVE OneCreation'
    BY <1>31 DEF FinishCleanup, AtFinish, Return
  <1>32. CASE CleanupForTesting
    BY <1>32 DEF CleanupForTesting
  <1>33. CASE CleanupWoken
    BY <1>33 DEF CleanupWoken
  <1>34. CASE Shutdown
    BY <1>34 DEF Shutdown
  <1>35. CASE ShutdownCheck
    BY <1>35 DEF ShutdownCheck
  <1>36. CASE Tick
    BY <1>36 DEF Tick
  <1>37. CASE UNCHANGED vars
    BY <1>37 DEF vars
  <1> QED
    BY <1>1, <1>2, <1>3, <1>4, <1>5, <1>6, <1>7, <1>8, <1>9, <1>10, <1>11,
       <1>12, <1>13, <1>14, <1>15, <1>16, <1>17, <1>18, <1>19, <1>20,
       <1>21, <1>22, <1>23, <1>24, <1>25, <1>26, <1>27, <1>28, <1>29,
       <1>30, <1>31, <1>32, <1>33, <1>34, <1>35, <1>36, <1>37
    DEF Next, PostProgress, ThreadLoop, HandleCleanup

\* The pool has room for it.
ThreadLimit ==
  Cardinality(threads_) + (IF thread_being_created_ THEN 1 ELSE 0) <= max_threads_

\* A new pool has no thread.
LEMMA ThreadLimitInit == Init => ThreadLimit
  BY FS_EmptySet, BoundAssumption DEF Init, ThreadLimit

\* threads_ is finite.
LEMMA ThreadsFinite ==
  BaseTypes => IsFiniteSet(threads_) /\ Cardinality(threads_) \in Nat
  BY FiniteAssumption, FS_Subset, FS_CardinalityType DEF BaseTypes, PoolTypes

\* A thread is decided on only below the limit, and entered once.
LEMMA ThreadLimitStep ==
  BaseTypes /\ OneCreation /\ ThreadLimit /\ [Next]_vars => ThreadLimit'
  <1> SUFFICES ASSUME BaseTypes, OneCreation, ThreadLimit, [Next]_vars
               PROVE  ThreadLimit'
    OBVIOUS
  <1> USE ThreadsFinite, BoundAssumption DEF ThreadLimit, innerVars,
     threadVars, countVars, queueVars, shutdownVars, cleanupVars, cvVars,
     localVars, callVars, historyVars, unchangedByCleanup
  <1>1. ASSUME NEW th \in Threads, PostTaskInsert(th) PROVE ThreadLimit'
    BY <1>1 DEF PostTaskInsert, Helpful, BaseTypes, PoolTypes
  <1>2. ASSUME NEW w \in Workers, ThreadLoopEnter(w) PROVE ThreadLimit'
    <2>1. w \notin threads_ /\ thread_being_created_
      BY <1>2 DEF ThreadLoopEnter, OneCreation
    <2>2. threads_' = threads_ \cup {w} /\ ~thread_being_created_'
      BY <1>2 DEF ThreadLoopEnter
    <2>3. Cardinality(threads_ \cup {w}) = Cardinality(threads_) + 1
      BY <2>1, CountAdd
    <2> QED BY <2>1, <2>2, <2>3
  <1>3. ASSUME NEW w \in Workers, GetWorkFound(w) PROVE ThreadLimit'
    BY <1>3 DEF GetWorkFound, Helpful, BaseTypes, PoolTypes
  <1>4. ASSUME NEW th \in Threads,
                (\E t \in Tasks : PostTaskStamp(th, t)) \/ PostTaskRefuse(th)
             \/ PostTaskStartThread(th) \/ PostTaskSignal(th)
             \/ SpuriousWakeup(th)
        PROVE UNCHANGED <<threads_, thread_being_created_>>
    BY <1>4 DEF PostTaskStamp, PostTaskRefuse, PostTaskStartThread,
       PostTaskSignal, SpuriousWakeup
  <1>5. ASSUME NEW w \in Workers,
                RunSignal(w) \/ RunPurge(w) \/ RunSpawn(w) \/ RunFinish(w)
             \/ DidRunWorkerTask(w) \/ CleanupDelayed(w) \/ CleanupPurge(w)
             \/ CleanupDrained(w) \/ WaitForWork(w) \/ WakeUp(w)
             \/ TimeOut(w) \/ LeaveLoop(w) \/ PurgeUnderLock(w)
             \/ ExitSignal(w) \/ ExitSignalShutdown(w) \/ LeadCleanup(w)
             \/ LeadWait(w) \/ LeadRun(w) \/ IdleEnter(w) \/ IdleWait(w)
             \/ IdleLeave(w) \/ FinishWait(w) \/ FinishCleanup(w)
        PROVE UNCHANGED <<threads_, thread_being_created_>>
    BY <1>5 DEF RunSignal, RunPurge, RunSpawn, RunFinish,
       DidRunWorkerTask, CleanupDelayed, CleanupPurge, CleanupDrained,
       WaitForWork, WakeUp, TimeOut, LeaveLoop, PurgeUnderLock,
       ExitSignal, ExitSignalShutdown, LeadCleanup, LeadWait, LeadRun,
       IdleEnter, IdleWait, IdleLeave, FinishWait, FinishCleanup
  <1>6. ASSUME
                CleanupForTesting \/ CleanupWoken \/ Shutdown
             \/ ShutdownCheck \/ Tick
        PROVE UNCHANGED <<threads_, thread_being_created_>>
    BY <1>6 DEF CleanupForTesting, CleanupWoken, Shutdown, ShutdownCheck, Tick
  <1>7. CASE UNCHANGED vars
    BY <1>7 DEF vars
  <1>8. ASSUME UNCHANGED <<threads_, thread_being_created_>> PROVE ThreadLimit'
    BY <1>8
  <1> QED
    BY <1>1, <1>2, <1>3, <1>4, <1>5, <1>6, <1>7, <1>8
    DEF Next, PostProgress, ThreadLoop, HandleCleanup

\* The three places of a creation, counted.
LEMMA ThreadsAccountedFollows ==
  BaseTypes /\ OneCreation /\ ThreadLimit => ThreadsAccounted
  <1> SUFFICES ASSUME BaseTypes, OneCreation, ThreadLimit
               PROVE  ThreadsAccounted
    OBVIOUS
  <1> DEFINE Starting == {w \in Workers : pc[w] = "starting"}
             Calling == {th \in Threads : stage[th] = "start"}
             Spawning == {w \in Workers : new_thread_id[w]}
             Total == Cardinality(Starting) + Cardinality(Calling)
                        + Cardinality(Spawning)
  <1>1. Total = IF thread_being_created_ THEN 1 ELSE 0
    <2>0. Cardinality({}) = 0 /\ \A x : Cardinality({x}) = 1
      BY FS_EmptySet, FS_Singleton
    <2>1. CASE ~thread_being_created_
      <3>1. Starting = {} /\ Calling = {} /\ Spawning = {}
        BY <2>1 DEF OneCreation
      <3> QED BY <3>1, <2>0, <2>1
    <2>2. ASSUME NEW w \in Workers, pc[w] = "starting"
          PROVE  Total = 1 /\ thread_being_created_
      <3>1. Starting = {w} /\ Calling = {} /\ Spawning = {}
        BY <2>2 DEF OneCreation
      <3>2. thread_being_created_
        BY <2>2 DEF OneCreation
      <3>3. /\ Cardinality(Starting) = 1 /\ Cardinality(Calling) = 0
              /\ Cardinality(Spawning) = 0
        BY <3>1, <2>0
      <3> QED BY <3>2, <3>3
    <2>3. ASSUME NEW w \in Workers, new_thread_id[w]
          PROVE  Total = 1 /\ thread_being_created_
      <3>1. Starting = {} /\ Calling = {} /\ Spawning = {w}
        BY <2>3 DEF OneCreation
      <3>2. thread_being_created_
        BY <2>3 DEF OneCreation
      <3>3. /\ Cardinality(Starting) = 0 /\ Cardinality(Calling) = 0
              /\ Cardinality(Spawning) = 1
        BY <3>1, <2>0
      <3> QED BY <3>2, <3>3
    <2>4. ASSUME NEW th \in Threads, stage[th] = "start"
          PROVE  Total = 1 /\ thread_being_created_
      <3>1. Starting = {} /\ Calling = {th} /\ Spawning = {}
        BY <2>4 DEF OneCreation
      <3>2. thread_being_created_
        BY <2>4 DEF OneCreation
      <3>3. /\ Cardinality(Starting) = 0 /\ Cardinality(Calling) = 1
              /\ Cardinality(Spawning) = 0
        BY <3>1, <2>0
      <3> QED BY <3>2, <3>3
    <2> QED BY <2>1, <2>2,
           <2>3, <2>4 DEF OneCreation
  <1> QED BY <1>1 DEF
           ThreadsAccounted, OneCreation, ThreadLimit

-----------------------------------------------------------------------------
\* Shutdown.

\* CanShutdown() in terms of the tasks it is about.
LEMMA CanShutdownMeans ==
  BaseTypes /\ CountersExact =>
    (CanShutdown <=> /\ ~thread_being_created_
                     /\ RunningBlocking = {}
                     /\ PendingBlocking = {})
  <1> SUFFICES ASSUME BaseTypes, CountersExact
               PROVE  CanShutdown <=> /\ ~thread_being_created_
                                      /\ RunningBlocking = {}
                                      /\ PendingBlocking = {}
    OBVIOUS
  <1>1. Cardinality(RunningBlocking) = 0 <=> RunningBlocking = {}
    BY CountedFinite, FS_EmptySet
  <1>2. Cardinality(PendingBlocking) = 0 <=> PendingBlocking = {}
    BY CountedFinite, FS_EmptySet
  <1> QED BY <1>1, <1>2
    DEF CanShutdown, CountersExact, RunningCountExact, PendingCountExact

\* No step makes CanShutdown() false again: to post, a thread must run a task that
\* counts; what a worker takes, counts already; and no thread is created any more.
LEMMA CanShutdownStableStep ==
  ASSUME BaseTypes, Places, CountersExact, shutdown_called_, CanShutdown,
         [Next]_vars
  PROVE  shutdown_called_' /\ CanShutdown'
  <1>0. ~thread_being_created_ /\ RunningBlocking = {} /\ PendingBlocking = {}
    BY CanShutdownMeans
  <1> USE DEF innerVars, threadVars, countVars,
       queueVars, shutdownVars, cleanupVars, cvVars, localVars, callVars,
       historyVars, unchangedByCleanup
  <1>1. ASSUME NEW th \in Threads, PostTaskInsert(th) PROVE FALSE
    <2>1. th \in Workers /\ pc[th] = "run" /\ BehaviorOf[task[th]] # "CONTINUE"
      BY <1>1 DEF PostTaskInsert, Refuses,
         LockedCurrentThreadShutdownBehavior
    <2> QED BY <2>1, <1>0 DEF
         RunningBlocking, Places, RunningPcs
  <1>2. ASSUME NEW w \in Workers, GetWorkFound(w) PROVE FALSE
    <2>1. PICK t \in pending_tasks_ : Found(t)
      BY <1>2 DEF GetWorkFound
    <2>2. BehaviorOf[t] = "BLOCK"
      BY <2>1 DEF Found, StopsAt, Kept, Dropped
    <2> QED BY <2>2, <1>0
         DEF PendingBlocking
  <1>3. ASSUME NEW w \in Workers, DidRunWorkerTask(w)
        PROVE  shutdown_called_' /\ CanShutdown'
    <2>1. HasTask(w)
      BY <1>3 DEF DidRunWorkerTask, Places, RunningPcs
    <2>2. RunningBlock(task[w]) = 0
      BY <2>1, <1>0 DEF RunningBlocking, RunningBlock
    <2> QED BY <1>3,
         <2>2 DEF DidRunWorkerTask, CanShutdown
  <1>4. ASSUME NEW w \in Workers, ThreadLoopEnter(w)
        PROVE  shutdown_called_' /\ CanShutdown'
    BY <1>4 DEF ThreadLoopEnter, CanShutdown
  <1>5. CASE Shutdown
    BY <1>5 DEF Shutdown, CanShutdown
  <1>6. ASSUME NEW th \in Threads,
                (\E t \in Tasks : PostTaskStamp(th, t)) \/
             PostTaskRefuse(th) \/ PostTaskStartThread(th) \/
             PostTaskSignal(th) \/ SpuriousWakeup(th)
        PROVE  UNCHANGED <<shutdown_called_, thread_being_created_,
                    blocking_shutdown_thread_count_,
                    blocking_shutdown_pending_task_count_>>
    BY <1>6 DEF PostTaskStamp, PostTaskRefuse, PostTaskStartThread,
       PostTaskSignal, SpuriousWakeup
  <1>7. ASSUME NEW w \in Workers,
                RunSignal(w) \/ RunPurge(w) \/ RunSpawn(w) \/
             RunFinish(w) \/ CleanupDelayed(w) \/
             CleanupPurge(w) \/ CleanupDrained(w) \/
             WaitForWork(w) \/ WakeUp(w) \/ TimeOut(w) \/
             LeaveLoop(w) \/ PurgeUnderLock(w) \/
             ExitSignal(w) \/ ExitSignalShutdown(w) \/
             LeadCleanup(w) \/ LeadWait(w) \/ LeadRun(w) \/
             IdleEnter(w) \/ IdleWait(w) \/ IdleLeave(w) \/
             FinishWait(w) \/ FinishCleanup(w)
        PROVE  UNCHANGED <<shutdown_called_, thread_being_created_,
                    blocking_shutdown_thread_count_,
                    blocking_shutdown_pending_task_count_>>
    BY <1>7 DEF RunSignal, RunPurge, RunSpawn, RunFinish, CleanupDelayed,
       CleanupPurge, CleanupDrained, WaitForWork, WakeUp, TimeOut,
       LeaveLoop, PurgeUnderLock, ExitSignal, ExitSignalShutdown,
       LeadCleanup, LeadWait, LeadRun, IdleEnter, IdleWait, IdleLeave,
       FinishWait, FinishCleanup
  <1>8. ASSUME
                CleanupForTesting \/ CleanupWoken \/
             ShutdownCheck \/ Tick
        PROVE  UNCHANGED <<shutdown_called_, thread_being_created_,
                    blocking_shutdown_thread_count_,
                    blocking_shutdown_pending_task_count_>>
    BY <1>8 DEF CleanupForTesting, CleanupWoken, ShutdownCheck, Tick
  <1>9. CASE UNCHANGED vars
    BY <1>9 DEF vars, CanShutdown
  <1>10. ASSUME UNCHANGED <<shutdown_called_, thread_being_created_,
                    blocking_shutdown_thread_count_,
                    blocking_shutdown_pending_task_count_>>
        PROVE  shutdown_called_' /\ CanShutdown'
    BY <1>10 DEF CanShutdown
  <1> QED
    BY <1>1, <1>2, <1>3, <1>4, <1>5, <1>6, <1>7, <1>8, <1>9, <1>10
    DEF Next, PostProgress, ThreadLoop, HandleCleanup

\* Shutdown() is never taken back.
LEMMA ShutdownCalledStays ==
  ASSUME [Next]_vars, shutdown_called_ PROVE shutdown_called_'
  <1> USE DEF innerVars, threadVars, countVars, queueVars, shutdownVars,
     cleanupVars, cvVars, localVars, callVars, historyVars,
     unchangedByCleanup
  <1>1. ASSUME NEW th \in Threads,
                (\E t \in Tasks : PostTaskStamp(th, t)) \/
             PostTaskRefuse(th) \/ PostTaskInsert(th) \/
             PostTaskStartThread(th) \/ PostTaskSignal(th) \/
             SpuriousWakeup(th)
        PROVE  UNCHANGED shutdown_called_
    BY <1>1 DEF PostTaskStamp, PostTaskRefuse, PostTaskInsert,
       PostTaskStartThread, PostTaskSignal, SpuriousWakeup
  <1>2. ASSUME NEW w \in Workers,
                ThreadLoopEnter(w) \/ GetWorkFound(w) \/
             RunSignal(w) \/ RunPurge(w) \/ RunSpawn(w) \/
             RunFinish(w) \/ DidRunWorkerTask(w) \/
             CleanupDelayed(w) \/ CleanupPurge(w) \/
             CleanupDrained(w) \/ WaitForWork(w) \/ WakeUp(w)
             \/ TimeOut(w) \/ LeaveLoop(w) \/
             PurgeUnderLock(w) \/ ExitSignal(w) \/
             ExitSignalShutdown(w) \/ LeadCleanup(w) \/
             LeadWait(w) \/ LeadRun(w) \/ IdleEnter(w) \/
             IdleWait(w) \/ IdleLeave(w) \/ FinishWait(w) \/
             FinishCleanup(w)
        PROVE  UNCHANGED shutdown_called_
    BY <1>2 DEF ThreadLoopEnter, GetWorkFound, RunSignal, RunPurge,
       RunSpawn, RunFinish, DidRunWorkerTask, CleanupDelayed,
       CleanupPurge, CleanupDrained, WaitForWork, WakeUp, TimeOut,
       LeaveLoop, PurgeUnderLock, ExitSignal, ExitSignalShutdown,
       LeadCleanup, LeadWait, LeadRun, IdleEnter, IdleWait, IdleLeave,
       FinishWait, FinishCleanup
  <1>3. ASSUME
                CleanupForTesting \/ CleanupWoken \/
             ShutdownCheck \/ Tick
        PROVE  UNCHANGED shutdown_called_
    BY <1>3 DEF CleanupForTesting, CleanupWoken, ShutdownCheck, Tick
  <1>4. CASE Shutdown
    BY <1>4 DEF Shutdown
  <1>5. CASE UNCHANGED vars
    BY <1>5 DEF vars
  <1> QED
    BY <1>1, <1>2, <1>3, <1>4, <1>5 DEF Next, PostProgress, ThreadLoop,
       HandleCleanup

\* What the thread in Shutdown() has seen.
ShutdownSeen ==
  /\ pc[Main] \in {"shutdown", "down"} => shutdown_called_
  /\ pc[Main] = "down" => CanShutdown

\* Nobody has called Shutdown() on a new pool.
LEMMA ShutdownSeenInit == Init => ShutdownSeen
  BY ThreadAssumption DEF Init, ShutdownSeen, Threads

\* Shutdown() returns only after it has seen CanShutdown(), which stays true.
LEMMA ShutdownSeenStep ==
  BaseTypes /\ Places /\ CountersExact /\ ShutdownSeen /\ [Next]_vars
    => ShutdownSeen'
  <1> SUFFICES ASSUME BaseTypes, Places, CountersExact, ShutdownSeen, [Next]_vars
               PROVE  ShutdownSeen'
    OBVIOUS
  <1>1. shutdown_called_ => shutdown_called_'
    BY ShutdownCalledStays
  <1>2. shutdown_called_ /\ CanShutdown => CanShutdown'
    BY CanShutdownStableStep
  <1>3. ASSUME UNCHANGED pc[Main] PROVE ShutdownSeen'
    BY <1>1, <1>2, <1>3 DEF ShutdownSeen
  <1> USE DEF BaseTypes,
       ThreadTypes, Threads, innerVars, threadVars, countVars, queueVars,
       shutdownVars, cleanupVars, cvVars, localVars, callVars,
       historyVars, unchangedByCleanup
  <1>4. ASSUME NEW th \in Threads,
                (\E t \in Tasks : PostTaskStamp(th, t)) \/
             PostTaskRefuse(th) \/ PostTaskInsert(th) \/
             PostTaskStartThread(th) \/ PostTaskSignal(th) \/
             SpuriousWakeup(th)
        PROVE  UNCHANGED pc[Main]
    BY <1>4, ThreadAssumption DEF PostTaskStamp, PostTaskRefuse,
       PostTaskInsert, PostTaskStartThread, PostTaskSignal,
       SpuriousWakeup, AfterPurge, Return, WaitAs
  <1>5. ASSUME NEW w \in Workers,
                ThreadLoopEnter(w) \/ GetWorkFound(w) \/
             RunSignal(w) \/ RunPurge(w) \/ RunSpawn(w) \/
             RunFinish(w) \/ DidRunWorkerTask(w) \/
             CleanupDelayed(w) \/ CleanupPurge(w) \/
             CleanupDrained(w) \/ WaitForWork(w) \/ WakeUp(w)
             \/ TimeOut(w) \/ LeaveLoop(w) \/
             PurgeUnderLock(w) \/ ExitSignal(w) \/
             ExitSignalShutdown(w) \/ LeadCleanup(w) \/
             LeadWait(w) \/ LeadRun(w) \/ IdleEnter(w) \/
             IdleWait(w) \/ IdleLeave(w) \/ FinishWait(w) \/
             FinishCleanup(w)
        PROVE  UNCHANGED pc[Main]
    BY <1>5, ThreadAssumption DEF ThreadLoopEnter, GetWorkFound,
       RunSignal, RunPurge, RunSpawn, RunFinish, DidRunWorkerTask,
       CleanupDelayed, CleanupPurge, CleanupDrained, WaitForWork, WakeUp,
       TimeOut, LeaveLoop, PurgeUnderLock, ExitSignal, ExitSignalShutdown,
       LeadCleanup, LeadWait, LeadRun, IdleEnter, IdleWait, IdleLeave,
       FinishWait, FinishCleanup, AfterPurge, Return, WaitAs
  <1>6. ASSUME Tick PROVE UNCHANGED pc[Main]
    BY <1>6, ThreadAssumption DEF Tick
  <1>7. CASE CleanupForTesting \/ CleanupWoken
    BY <1>7, <1>1, <1>2, ThreadAssumption
    DEF CleanupForTesting, CleanupWoken, ShutdownSeen, BaseTypes,
       ThreadTypes, Threads
  <1>8. CASE Shutdown
    BY <1>8, ThreadAssumption DEF Shutdown, ShutdownSeen, CanShutdown,
       BaseTypes, ThreadTypes, Threads
  <1>9. CASE ShutdownCheck
    BY <1>9, <1>1, <1>2, ThreadAssumption
    DEF ShutdownCheck, ShutdownSeen, BaseTypes, ThreadTypes, Threads
  <1>10. CASE UNCHANGED vars
    BY <1>10, <1>3 DEF vars
  <1> QED
    BY <1>1, <1>2, <1>3, <1>4, <1>5, <1>6, <1>7, <1>8, <1>9, <1>10
    DEF Next, PostProgress, ThreadLoop, HandleCleanup

\* From CanShutdown() to what it is for.
LEMMA ShutdownCompleteFollows ==
  BaseTypes /\ CountersExact /\ OneCreation /\ ShutdownSeen => ShutdownComplete
  <1> SUFFICES ASSUME BaseTypes, CountersExact, OneCreation, ShutdownSeen,
                      pc[Main] = "down"
               PROVE  /\ \A t \in pending_tasks_ : BehaviorOf[t] # "BLOCK"
                      /\ \A w \in Workers : HasTask(w) => BehaviorOf[task[w]] = "CONTINUE"
                      /\ \A w \in Workers : pc[w] # "starting" /\ ~new_thread_id[w]
                      /\ \A th \in Threads : stage[th] # "start"
    BY DEF ShutdownComplete
  <1>1. ~thread_being_created_ /\ RunningBlocking = {} /\ PendingBlocking = {}
    BY CanShutdownMeans DEF ShutdownSeen
  <1> QED BY <1>1 DEF
       RunningBlocking, PendingBlocking, OneCreation

-----------------------------------------------------------------------------
\* The inductive invariant, and what it is for.

IInv ==
  /\ BaseTypes /\ Places /\ Sequences /\ Times
  /\ CountersExact /\ CleanupCounts
  /\ OneCreation /\ ThreadLimit /\ ShutdownSeen

\* The initial state satisfies it, and every step keeps it.
LEMMA IInvInductive == (Init => IInv) /\ (IInv /\ [Next]_vars => IInv')
  <1>1. Init => IInv
    BY BaseTypesInit, PlacesInit, SequencesInit, TimesInit, CountersInit,
       CleanupCountsInit, OneCreationInit, ThreadLimitInit,
       ShutdownSeenInit DEF IInv
  <1>2. ASSUME IInv, [Next]_vars PROVE IInv'
    <2> USE <1>2 DEF IInv
    <2>1. BaseTypes'
      BY BaseTypesStep
    <2>2. Places' /\ Sequences' /\ Times'
      BY PlacesStep, SequencesStep, TimesStep
    <2>3. CountersExact'
      BY PendingCountStep, RunningCountStep, WaitingCountStep DEF CountersExact
    <2>4. CleanupCounts'
      BY CleanupCountsStep
    <2>5. OneCreation' /\ ThreadLimit'
      BY OneCreationStep, ThreadLimitStep
    <2>6. ShutdownSeen'
      BY ShutdownSeenStep
    <2> QED BY <2>1, <2>2, <2>3, <2>4, <2>5, <2>6
         <1> QED BY <1>1, <1>2

\* The pool's variables are always within their types; in particular no counter
\* is ever decremented below zero (DidRunWorkerTask(), GetWork(),
\* HandleCleanup()) nor is the quota of Shutdown().
THEOREM TypesHold == Spec => []TypeOK
  <1>1. IInv => TypeOK
    <2> SUFFICES ASSUME IInv PROVE CounterTypes
      BY DEF IInv, BaseTypes, TypeOK
    <2>1. /\ Cardinality(PendingBlocking) \in Nat
          /\ Cardinality(RunningBlocking) \in Nat
          /\ Cardinality(WaitingWorkers) \in Nat
          /\ Cardinality(Idlers) \in Nat
      BY CountedFinite, IdlersAreFinite, FS_CardinalityType
      DEF IInv
    <2> QED BY <2>1 DEF IInv, CounterTypes, CountersExact,
         PendingCountExact, RunningCountExact, WaitingCountExact,
         CleanupCounts
  <1> QED BY <1>1, IInvInductive, PTL DEF Spec

\* "No two tasks with the same token will run at the same time"
\* (sequenced_worker_pool.h:38): GetWork() and DidRunWorkerTask() keep the token
\* of a task that a worker has in current_sequences_.
THEOREM SequencesHold == Spec => []SequencesExclusive
  <1>1. IInv => SequencesExclusive
    BY DEF IInv, Sequences
  <1> QED BY <1>1, IInvInductive, PTL DEF Spec

\* The three counters that Shutdown() and the creation of threads rest on are
\* exact whenever lock_ is free or handed on: each section of code that moves a
\* task or a worker adjusts them.
THEOREM CountersHold == Spec => []CountersExact
  <1>1. IInv => CountersExact
    BY DEF IInv
  <1> QED BY <1>1, IInvInductive, PTL DEF Spec

\* PrepareToStartAdditionalThreadIfHelpful() never lets two threads be created
\* at a time nor the pool exceed max_threads_, and every thread registers itself.
THEOREM ThreadsHold == Spec => []ThreadsAccounted
  <1>1. IInv => ThreadsAccounted
    BY ThreadsAccountedFollows DEF IInv
  <1> QED BY <1>1, IInvInductive,
       PTL DEF Spec

\* After Shutdown() was called, CanShutdown() stays true once it is: PostTask()
\* refuses whoever could add to the counters.
THEOREM CanShutdownHolds == Spec => CanShutdownStable
  <1>1. IInv /\ [Next]_vars => [shutdown_called_ /\ CanShutdown => CanShutdown']_vars
    BY CanShutdownStableStep DEF IInv
  <1> QED BY <1>1, IInvInductive, PTL
       DEF Spec, CanShutdownStable

\* When Shutdown() has returned, no blocking task is pending or running and no
\* thread is being created, for ever.
THEOREM ShutdownHolds == Spec => []ShutdownComplete
  <1>1. IInv => ShutdownComplete
    BY ShutdownCompleteFollows DEF IInv
  <1> QED BY <1>1, IInvInductive,
       PTL DEF Spec

-----------------------------------------------------------------------------
\* Sweeping: shutdown is called once, by Main, and before it nothing is dropped.

\* Main does not come back from Shutdown() to call anything else.
ShutdownByMain == shutdown_called_ => pc[Main] \in {"shutdown", "down"}

\* Nobody has called Shutdown() on a new pool.
LEMMA ShutdownByMainInit == Init => ShutdownByMain
  BY DEF Init, ShutdownByMain

\* Once in Shutdown(), Main stays there or has returned from it.
LEMMA ShutdownByMainStep ==
  BaseTypes /\ ShutdownByMain /\ [Next]_vars => ShutdownByMain'
  <1> SUFFICES ASSUME BaseTypes, ShutdownByMain, [Next]_vars
               PROVE  ShutdownByMain'
    OBVIOUS
  <1> USE ThreadAssumption DEF BaseTypes, ThreadTypes, Threads,
     innerVars, threadVars, countVars, queueVars, shutdownVars,
     cleanupVars, cvVars, localVars, callVars, historyVars, unchangedByCleanup
  <1>1. ASSUME NEW th \in Threads,
                (\E t \in Tasks : PostTaskStamp(th, t)) \/ PostTaskRefuse(th) \/ PostTaskInsert(th) \/
             PostTaskStartThread(th) \/ PostTaskSignal(th) \/
             SpuriousWakeup(th)
        PROVE  UNCHANGED <<shutdown_called_, pc[Main]>>
    BY <1>1 DEF PostTaskStamp, PostTaskRefuse, PostTaskInsert,
       PostTaskStartThread, PostTaskSignal, SpuriousWakeup
  <1>2. ASSUME NEW w \in Workers,
                ThreadLoopEnter(w) \/ GetWorkFound(w) \/ RunSignal(w) \/
             RunPurge(w) \/ RunSpawn(w) \/ RunFinish(w) \/ DidRunWorkerTask(w)
             \/ CleanupDelayed(w) \/ CleanupPurge(w) \/ CleanupDrained(w) \/
             WaitForWork(w) \/ WakeUp(w) \/ TimeOut(w) \/ LeaveLoop(w) \/
             PurgeUnderLock(w) \/ ExitSignal(w) \/ ExitSignalShutdown(w) \/
             LeadCleanup(w) \/ LeadWait(w) \/ LeadRun(w) \/ IdleEnter(w) \/
             IdleWait(w) \/ IdleLeave(w) \/ FinishWait(w) \/ FinishCleanup(w)
        PROVE  UNCHANGED <<shutdown_called_, pc[Main]>>
    BY <1>2 DEF ThreadLoopEnter, GetWorkFound, RunSignal, RunPurge, RunSpawn,
       RunFinish, DidRunWorkerTask, CleanupDelayed, CleanupPurge,
       CleanupDrained, WaitForWork, WakeUp, TimeOut, LeaveLoop,
       PurgeUnderLock, ExitSignal, ExitSignalShutdown, LeadCleanup, LeadWait,
       LeadRun, IdleEnter, IdleWait, IdleLeave, FinishWait, FinishCleanup,
       AfterPurge, Return, WaitAs
  <1>3. ASSUME
                Tick
        PROVE  UNCHANGED <<shutdown_called_, pc[Main]>>
    BY <1>3 DEF Tick
  <1>4. CASE CleanupForTesting \/ CleanupWoken
    BY <1>4 DEF CleanupForTesting, CleanupWoken, ShutdownByMain
  <1>5. CASE Shutdown \/ ShutdownCheck
    BY <1>5 DEF Shutdown, ShutdownCheck, ShutdownByMain
  <1>6. CASE UNCHANGED vars
    BY <1>6 DEF vars, ShutdownByMain
  <1>7. ASSUME UNCHANGED <<shutdown_called_, pc[Main]>> PROVE ShutdownByMain'
    BY <1>7 DEF ShutdownByMain
  <1> QED
    BY <1>1, <1>2, <1>3, <1>4, <1>5, <1>6, <1>7
    DEF Next, PostProgress, ThreadLoop, HandleCleanup

\* Where a worker can be while it has closures to destroy.
SweepPcs == {"picked", "purge", "waiting", "purgeWake", "purgeExit"}

\* A worker sweeps nothing before the shutdown, but for the delayed task that a
\* cleanup deletes, and has nothing left to destroy when it goes on.
Sweeping ==
  \A w \in Workers : delete_these[w] # {} =>
    \/ pc[w] = "purgeCleanup"
    \/ shutdown_called_ /\ pc[w] \in SweepPcs

\* A new pool has nothing to destroy.
LEMMA SweepingInit == Init => Sweeping
  BY DEF Init, Sweeping

\* GetWork() sweeps for a shutdown only.
LEMMA SweptInShutdown == Swept # {} => shutdown_called_
  BY DEF Swept, Dropped

\* What was swept is destroyed before the worker comes to GetWork() again.
LEMMA SweepingStep ==
  BaseTypes /\ Sweeping /\ [Next]_vars => Sweeping'
  <1> SUFFICES ASSUME BaseTypes, Sweeping, [Next]_vars PROVE Sweeping'
    OBVIOUS
  <1> USE ThreadAssumption DEF BaseTypes, ThreadTypes, Threads, Sweeping, SweepPcs,
     innerVars, threadVars, countVars, queueVars, shutdownVars,
     cleanupVars, cvVars, localVars, callVars, historyVars, unchangedByCleanup
  <1>1. ASSUME NEW th \in Threads,
                (\E t \in Tasks : PostTaskStamp(th, t)) \/ PostTaskRefuse(th) \/ PostTaskInsert(th) \/ PostTaskSignal(th) \/
             SpuriousWakeup(th)
        PROVE  UNCHANGED <<shutdown_called_, delete_these, pc>>
    BY <1>1 DEF PostTaskStamp, PostTaskRefuse, PostTaskInsert, PostTaskSignal,
       SpuriousWakeup
  <1>2. ASSUME NEW th \in Threads, PostTaskStartThread(th) PROVE Sweeping'
    BY <1>2 DEF PostTaskStartThread
  <1>3. ASSUME NEW w \in Workers, ThreadLoopEnter(w) PROVE Sweeping'
    BY <1>3 DEF ThreadLoopEnter
  <1>4. ASSUME NEW w \in Workers, GetWorkFound(w) PROVE Sweeping'
    BY <1>4, SweptInShutdown DEF GetWorkFound, AtGetWork
  <1>5. ASSUME NEW w \in Workers, RunSignal(w) PROVE Sweeping'
    BY <1>5 DEF RunSignal, AfterPurge
  <1>6. ASSUME NEW w \in Workers, RunPurge(w) PROVE Sweeping'
    BY <1>6 DEF RunPurge, AfterPurge, Destroy
  <1>7. ASSUME NEW w \in Workers, RunSpawn(w) PROVE Sweeping'
    BY <1>7 DEF RunSpawn
  <1>8. ASSUME NEW w \in Workers, RunFinish(w) PROVE Sweeping'
    BY <1>8 DEF RunFinish
  <1>9. ASSUME NEW w \in Workers, DidRunWorkerTask(w) PROVE Sweeping'
    BY <1>9 DEF DidRunWorkerTask
  <1>10. ASSUME NEW w \in Workers, CleanupDelayed(w) PROVE Sweeping'
    BY <1>10 DEF CleanupDelayed, AtGetWork
  <1>11. ASSUME NEW w \in Workers, CleanupPurge(w) PROVE Sweeping'
    BY <1>11 DEF CleanupPurge, Destroy
  <1>12. ASSUME NEW w \in Workers, CleanupDrained(w) PROVE Sweeping'
    BY <1>12 DEF CleanupDrained, AtGetWork
  <1>13. ASSUME NEW w \in Workers, WaitForWork(w) PROVE Sweeping'
    BY <1>13, SweptInShutdown DEF WaitForWork, AtGetWork
  <1>14. ASSUME NEW w \in Workers, WakeUp(w) PROVE Sweeping'
    BY <1>14 DEF WakeUp
  <1>15. ASSUME NEW w \in Workers, TimeOut(w) PROVE Sweeping'
    BY <1>15 DEF TimeOut
  <1>16. ASSUME NEW w \in Workers, LeaveLoop(w) PROVE Sweeping'
    BY <1>16, SweptInShutdown DEF LeaveLoop, AtGetWork
  <1>17. ASSUME NEW w \in Workers, PurgeUnderLock(w) PROVE Sweeping'
    BY <1>17 DEF PurgeUnderLock, Destroy
  <1>18. ASSUME NEW w \in Workers, ExitSignal(w) PROVE Sweeping'
    BY <1>18 DEF ExitSignal
  <1>19. ASSUME NEW w \in Workers, ExitSignalShutdown(w) PROVE Sweeping'
    BY <1>19 DEF ExitSignalShutdown
  <1>20. ASSUME NEW w \in Workers, LeadCleanup(w) PROVE Sweeping'
    BY <1>20 DEF LeadCleanup
  <1>21. ASSUME NEW w \in Workers, LeadWait(w) PROVE Sweeping'
    BY <1>21 DEF LeadWait, WaitAs
  <1>22. ASSUME NEW w \in Workers, LeadRun(w) PROVE Sweeping'
    BY <1>22 DEF LeadRun, Return
  <1>23. ASSUME NEW w \in Workers, IdleEnter(w) PROVE Sweeping'
    BY <1>23 DEF IdleEnter, WaitAs
  <1>24. ASSUME NEW w \in Workers, IdleWait(w) PROVE Sweeping'
    BY <1>24 DEF IdleWait, WaitAs
  <1>25. ASSUME NEW w \in Workers, IdleLeave(w) PROVE Sweeping'
    BY <1>25 DEF IdleLeave, Return
  <1>26. ASSUME NEW w \in Workers, FinishWait(w) PROVE Sweeping'
    BY <1>26 DEF FinishWait, WaitAs, AtFinish
  <1>27. ASSUME NEW w \in Workers, FinishCleanup(w) PROVE Sweeping'
    BY <1>27 DEF FinishCleanup, Return, AtFinish
  <1>28. CASE CleanupForTesting \/ CleanupWoken
    BY <1>28 DEF CleanupForTesting, CleanupWoken
  <1>29. CASE Shutdown \/ ShutdownCheck
    BY <1>29 DEF Shutdown, ShutdownCheck
  <1>30. CASE Tick
    BY <1>30 DEF Tick
  <1>31. CASE UNCHANGED vars
    BY <1>31 DEF vars
  <1>32. ASSUME UNCHANGED <<shutdown_called_, delete_these, pc>> PROVE Sweeping'
    BY <1>32
  <1> QED
    BY <1>1, <1>2, <1>3, <1>4, <1>5, <1>6, <1>7, <1>8, <1>9, <1>10, <1>11,
    <1>12, <1>13, <1>14, <1>15, <1>16, <1>17, <1>18, <1>19, <1>20, <1>21,
    <1>22, <1>23, <1>24, <1>25, <1>26, <1>27, <1>28, <1>29, <1>30, <1>31,
    <1>32
    DEF Next, PostProgress, ThreadLoop, HandleCleanup

-----------------------------------------------------------------------------
\* Where a task can be between its acceptance and its end.

\* What is accepted waits in the queue, is with a worker, or has been swept by one:
\* no section of code drops a closure.
Located ==
  \A t \in Tasks : outcome[t] = "accepted" =>
    \/ t \in pending_tasks_
    \/ \E w \in Workers : task[w] = t
    \/ \E w \in Workers : t \in delete_these[w]

\* No task has been accepted by a new pool.
LEMMA LocatedInit == Init => Located
  BY DEF Init, Located

\* Each section of code hands a task on, or ends it.
LEMMA LocatedStep ==
  BaseTypes /\ Places /\ Sweeping /\ Located /\ [Next]_vars => Located'
  <1> SUFFICES ASSUME BaseTypes, Places, Sweeping, Located, [Next]_vars
               PROVE  Located'
    OBVIOUS
  <1> USE TaskAssumption DEF BaseTypes, TaskTypes, ThreadTypes, PoolTypes, Threads, Located,
     innerVars, threadVars, countVars, queueVars, shutdownVars,
     cleanupVars, cvVars, localVars, callVars, historyVars, unchangedByCleanup
  <1>1. ASSUME NEW th \in Threads, NEW t \in Tasks, PostTaskStamp(th, t) PROVE Located'
    BY <1>1 DEF PostTaskStamp
  <1>2. ASSUME NEW th \in Threads, PostTaskRefuse(th) PROVE Located'
    BY <1>2 DEF PostTaskRefuse
  <1>3. ASSUME NEW th \in Threads, PostTaskInsert(th) PROVE Located'
    BY <1>3 DEF PostTaskInsert
  <1>4. ASSUME NEW th \in Threads,
                PostTaskStartThread(th) \/ PostTaskSignal(th) \/
             SpuriousWakeup(th)
        PROVE  UNCHANGED <<outcome, pending_tasks_, task, delete_these>>
    BY <1>4 DEF PostTaskStartThread, PostTaskSignal, SpuriousWakeup
  <1>5. ASSUME NEW w \in Workers, AtGetWork(w) PROVE delete_these[w] = {}
    BY <1>5 DEF AtGetWork, Sweeping, SweepPcs
  <1>6. ASSUME NEW w \in Workers, GetWorkFound(w) PROVE Located'
    <2>1. PICK t \in pending_tasks_ :
            /\ pending_tasks_' = pending_tasks_ \ (Swept \cup {t})
            /\ delete_these' = [delete_these EXCEPT ![w] = Swept]
            /\ task' = [task EXCEPT ![w] = t]
      BY <1>6 DEF GetWorkFound, Erased
    <2>2. /\ task[w] \notin Tasks
          /\ delete_these[w] = {}
          /\ UNCHANGED outcome
      BY <1>6, <1>5, SMTT(30) DEF GetWorkFound, AtGetWork, Places, HasTask, RunningPcs
    <2>3. t \in Tasks /\ Swept \subseteq Tasks
      BY DEF Swept, Dropped, Runnable
    <2> QED
      BY <2>1, <2>2, <2>3
  <1>7. ASSUME NEW w \in Workers, DidRunWorkerTask(w) PROVE Located'
    BY <1>7 DEF DidRunWorkerTask, Places, HasTask, RunningPcs
  <1>8. ASSUME NEW w \in Workers, RunFinish(w) PROVE Located'
    BY <1>8 DEF RunFinish, Places, HasTask, RunningPcs
  <1>9. ASSUME NEW w \in Workers, RunPurge(w) PROVE Located'
    BY <1>9 DEF RunPurge, Destroy
  <1>10. ASSUME NEW w \in Workers, CleanupPurge(w) PROVE Located'
    BY <1>10 DEF CleanupPurge, Destroy
  <1>11. ASSUME NEW w \in Workers, PurgeUnderLock(w) PROVE Located'
    BY <1>11 DEF PurgeUnderLock, Destroy
  <1>12. ASSUME NEW w \in Workers, CleanupDelayed(w) PROVE Located'
    <2>1. PICK t \in pending_tasks_ :
            /\ pending_tasks_' = pending_tasks_ \ (Swept \cup {t})
            /\ delete_these' = [delete_these EXCEPT ![w] = Swept \cup {t}]
      BY <1>12 DEF CleanupDelayed, Erased
    <2>2. delete_these[w] = {} /\ UNCHANGED <<outcome, task>>
      BY <1>12, <1>5 DEF CleanupDelayed
    <2> QED
      BY <2>1, <2>2
  <1>13. ASSUME NEW w \in Workers, WaitForWork(w) \/ LeaveLoop(w) PROVE Located'
    <2>1. /\ pending_tasks_' = pending_tasks_ \ Swept
          /\ delete_these' = [delete_these EXCEPT ![w] = Swept]
          /\ UNCHANGED <<outcome, task>>
      BY <1>13 DEF WaitForWork, LeaveLoop
    <2>2. delete_these[w] = {}
      BY <1>13, <1>5 DEF WaitForWork, LeaveLoop
    <2> QED
      BY <2>1, <2>2
  <1>14. ASSUME NEW w \in Workers,
                ThreadLoopEnter(w) \/ RunSignal(w) \/ RunSpawn(w) \/
             CleanupDrained(w) \/ WakeUp(w) \/ TimeOut(w) \/ ExitSignal(w) \/
             ExitSignalShutdown(w) \/ LeadCleanup(w) \/ LeadWait(w) \/
             LeadRun(w) \/ IdleEnter(w) \/ IdleWait(w) \/ IdleLeave(w) \/
             FinishWait(w) \/ FinishCleanup(w)
        PROVE  UNCHANGED <<outcome, pending_tasks_, task, delete_these>>
    BY <1>14 DEF ThreadLoopEnter, RunSignal, RunSpawn, CleanupDrained, WakeUp,
       TimeOut, ExitSignal, ExitSignalShutdown, LeadCleanup, LeadWait,
       LeadRun, IdleEnter, IdleWait, IdleLeave, FinishWait, FinishCleanup
  <1>15. ASSUME
                CleanupForTesting \/ CleanupWoken \/ Shutdown \/ ShutdownCheck \/
             Tick
        PROVE  UNCHANGED <<outcome, pending_tasks_, task, delete_these>>
    BY <1>15 DEF CleanupForTesting, CleanupWoken, Shutdown, ShutdownCheck,
       Tick
  <1>16. CASE UNCHANGED vars
    BY <1>16 DEF vars
  <1>17. ASSUME UNCHANGED <<outcome, pending_tasks_, task, delete_these>>
         PROVE  Located'
    BY <1>17
  <1> QED
    BY <1>1, <1>2, <1>3, <1>4, <1>5, <1>6, <1>7, <1>8, <1>9, <1>10, <1>11,
    <1>12, <1>13, <1>14, <1>15, <1>16, <1>17
    DEF Next, PostProgress, ThreadLoop, HandleCleanup

\* Every token in use is that of a task that some worker has: a sequence is not
\* blocked for ever by a task that is gone.
TokensHeld ==
  \A k \in current_sequences_ : \E w \in Workers : HasTask(w) /\ TokenOf[task[w]] = k

\* A new pool has no token in use.
LEMMA TokensHeldInit == Init => TokensHeld
  BY DEF Init, TokensHeld

\* A token is taken with its task and given back with it.
LEMMA TokensHeldStep ==
  BaseTypes /\ Places /\ Sequences /\ TokensHeld /\ [Next]_vars => TokensHeld'
  <1> SUFFICES ASSUME BaseTypes, Places, Sequences, TokensHeld, [Next]_vars
               PROVE  TokensHeld'
    OBVIOUS
  <1> USE TaskAssumption DEF BaseTypes, ThreadTypes, PoolTypes, HasTask, TokensHeld,
     innerVars, threadVars, countVars, queueVars, shutdownVars,
     cleanupVars, cvVars, localVars, callVars, historyVars, unchangedByCleanup
  <1>1. ASSUME NEW w \in Workers, GetWorkFound(w) PROVE TokensHeld'
    <2>1. PICK t \in pending_tasks_ :
            /\ task' = [task EXCEPT ![w] = t]
            /\ current_sequences_' = current_sequences_ \cup ({TokenOf[t]} \ {NoToken})
      BY <1>1 DEF GetWorkFound
    <2>2. task[w] = NoTask /\ t # NoTask
      BY <1>1 DEF GetWorkFound, AtGetWork, Places, RunningPcs
    <2> QED
      BY <2>1, <2>2
  <1>2. ASSUME NEW w \in Workers, DidRunWorkerTask(w) PROVE TokensHeld'
    BY <1>2 DEF DidRunWorkerTask
  <1>3. ASSUME NEW th \in Threads,
                (\E t \in Tasks : PostTaskStamp(th, t)) \/ PostTaskRefuse(th) \/ PostTaskInsert(th) \/
             PostTaskStartThread(th) \/ PostTaskSignal(th) \/
             SpuriousWakeup(th)
        PROVE  UNCHANGED <<task, current_sequences_>>
    BY <1>3 DEF PostTaskStamp, PostTaskRefuse, PostTaskInsert,
       PostTaskStartThread, PostTaskSignal, SpuriousWakeup
  <1>4. ASSUME NEW w \in Workers,
                ThreadLoopEnter(w) \/ RunSignal(w) \/ RunPurge(w) \/ RunSpawn(w)
             \/ RunFinish(w) \/ CleanupDelayed(w) \/ CleanupPurge(w) \/
             CleanupDrained(w) \/ WaitForWork(w) \/ WakeUp(w) \/ TimeOut(w) \/
             LeaveLoop(w) \/ PurgeUnderLock(w) \/ ExitSignal(w) \/
             ExitSignalShutdown(w) \/ LeadCleanup(w) \/ LeadWait(w) \/
             LeadRun(w) \/ IdleEnter(w) \/ IdleWait(w) \/ IdleLeave(w) \/
             FinishWait(w) \/ FinishCleanup(w)
        PROVE  UNCHANGED <<task, current_sequences_>>
    BY <1>4 DEF ThreadLoopEnter, RunSignal, RunPurge, RunSpawn, RunFinish,
       CleanupDelayed, CleanupPurge, CleanupDrained, WaitForWork, WakeUp,
       TimeOut, LeaveLoop, PurgeUnderLock, ExitSignal, ExitSignalShutdown,
       LeadCleanup, LeadWait, LeadRun, IdleEnter, IdleWait, IdleLeave,
       FinishWait, FinishCleanup
  <1>5. ASSUME
                CleanupForTesting \/ CleanupWoken \/ Shutdown \/ ShutdownCheck \/
             Tick
        PROVE  UNCHANGED <<task, current_sequences_>>
    BY <1>5 DEF CleanupForTesting, CleanupWoken, Shutdown, ShutdownCheck, Tick
  <1>6. CASE UNCHANGED vars
    BY <1>6 DEF vars
  <1>7. ASSUME UNCHANGED <<task, current_sequences_>> PROVE TokensHeld'
    BY <1>7
  <1> QED
    BY <1>1, <1>2, <1>3, <1>4, <1>5, <1>6, <1>7
    DEF Next, PostProgress, ThreadLoop, HandleCleanup

-----------------------------------------------------------------------------
\* The cleanup's leader runs alone.

Lone(w) == \A v \in Workers \ {w} : pc[v] \in {"unborn", "idling"}

\* While the leader runs what is pending, no other worker is anywhere but asleep
\* in HandleCleanup(), and none is coming.
Alone ==
  cleanup_state_ = "RUNNING" => ~thread_being_created_ /\ \E w \in Workers : Lone(w)

\* A new pool is not being flushed.
LEMMA AloneInit == Init => Alone
  BY DEF Init, Alone

\* The count of idlers that the leader waits for leaves nobody but itself.
LEMMA LeaderIsLone ==
  ASSUME BaseTypes, CleanupCounts, OneCreation, NEW w \in Workers,
         pc[w] = "leading", OthersIdle
  PROVE  Lone(w)
  <1>1. /\ ~thread_being_created_
        /\ Cardinality(Idlers) = Cardinality(threads_) - 1
    BY DEF OthersIdle, CleanupCounts
  <1>2. /\ threads_ = {v \in Workers : pc[v] \notin {"unborn", "starting"}}
        /\ \A v \in Workers : pc[v] # "starting"
    BY <1>1 DEF OneCreation
  <1>3. IsFiniteSet(threads_) /\ w \in threads_ /\ Idlers \subseteq threads_ \ {w}
    BY <1>2, FiniteAssumption, FS_Subset DEF Idlers
  <1>4. /\ IsFiniteSet(threads_ \ {w})
        /\ Cardinality(threads_ \ {w}) = Cardinality(threads_) - 1
    BY <1>3, FS_RemoveElement
  <1>5. Idlers = threads_ \ {w}
    BY <1>1, <1>3, <1>4, FS_Subset
  <1> QED
    BY <1>2, <1>5 DEF Lone, Idlers

\* Until the leader ends the cleanup no idler leaves and no thread is started.
LEMMA AloneStep ==
  BaseTypes /\ CleanupCounts /\ OneCreation /\ Alone /\ [Next]_vars => Alone'
  <1> SUFFICES ASSUME BaseTypes, CleanupCounts, OneCreation, Alone, [Next]_vars,
                      cleanup_state_' = "RUNNING"
               PROVE  ~thread_being_created_' /\ \E w \in Workers : Lone(w)'
    BY DEF Alone
  <1> DEFINE Stay == ~thread_being_created_' /\ \E w \in Workers : Lone(w)'
  <1> USE ThreadAssumption DEF BaseTypes, ThreadTypes, Threads, OneCreation, Lone,
     innerVars, threadVars, countVars, queueVars, shutdownVars,
     cleanupVars, cvVars, localVars, callVars, historyVars, unchangedByCleanup
  <1>1. ASSUME NEW w \in Workers, LeadRun(w) PROVE Stay
    <2>1. Lone(w) /\ ~thread_being_created_
      <3> HIDE DEF BaseTypes, Lone, OneCreation
      <3> QED
        BY <1>1, LeaderIsLone DEF LeadRun, OthersIdle
    <2> QED
      BY <1>1, <2>1 DEF LeadRun, Return
  <1>2. ASSUME cleanup_state_ = "RUNNING"
        PROVE  ~thread_being_created_ /\ \E w \in Workers : Lone(w)
    BY <1>2 DEF Alone
  <1>3. ASSUME NEW pending, NEW inUse, cleanup_state_ = "RUNNING"
        PROVE  ~Helpful(pending, inUse)
    BY <1>3 DEF Helpful
  <1>4. ASSUME NEW th \in Threads,
                (\E t \in Tasks : PostTaskStamp(th, t)) \/ PostTaskRefuse(th) \/ PostTaskSignal(th) \/ SpuriousWakeup(th)
        PROVE  UNCHANGED <<pc, cleanup_state_, thread_being_created_>>
    BY <1>4 DEF PostTaskStamp, PostTaskRefuse, PostTaskSignal, SpuriousWakeup
  <1>5. ASSUME NEW th \in Threads, PostTaskInsert(th) PROVE UNCHANGED <<pc, cleanup_state_, thread_being_created_>>
    <2>1. cleanup_state_ = "RUNNING" /\ UNCHANGED <<pc, cleanup_state_>>
      BY <1>5 DEF PostTaskInsert
    <2>2. thread_being_created_' =
            (thread_being_created_ \/ Helpful(pending_tasks_ \cup {posting[th]},
                                             current_sequences_))
      BY <1>5 DEF PostTaskInsert
    <2>3. thread_being_created_' = thread_being_created_
      BY <2>1, <2>2, <1>3 DEF PoolTypes
    <2> QED
      BY <2>1, <2>3
  <1>6. ASSUME NEW th \in Threads, PostTaskStartThread(th) PROVE Stay
    BY <1>6, <1>2 DEF PostTaskStartThread
  <1>7. ASSUME NEW w \in Workers, GetWorkFound(w) PROVE Stay
    <2>1. /\ cleanup_state_ = "RUNNING"
          /\ pc[w] \in {"getwork", "loop"} /\ pc' = [pc EXCEPT ![w] = "picked"]
      BY <1>7 DEF GetWorkFound, AtGetWork
    <2>2. ~thread_being_created_'
      BY <1>7, <1>2, <1>3, <2>1 DEF GetWorkFound
    <2> QED
      BY <2>1, <2>2, <1>2
  <1>8. ASSUME NEW w \in Workers, ThreadLoopEnter(w) PROVE Stay
    BY <1>8, <1>2 DEF ThreadLoopEnter
  <1>9. ASSUME NEW w \in Workers, RunSignal(w) PROVE Stay
    BY <1>9, <1>2 DEF RunSignal, AfterPurge
  <1>10. ASSUME NEW w \in Workers, RunPurge(w) PROVE Stay
    BY <1>10, <1>2 DEF RunPurge, AfterPurge
  <1>11. ASSUME NEW w \in Workers, RunSpawn(w) PROVE Stay
    BY <1>11, <1>2 DEF RunSpawn
  <1>12. ASSUME NEW w \in Workers, RunFinish(w) PROVE Stay
    BY <1>12, <1>2 DEF RunFinish
  <1>13. ASSUME NEW w \in Workers, DidRunWorkerTask(w) PROVE Stay
    BY <1>13, <1>2 DEF DidRunWorkerTask
  <1>14. ASSUME NEW w \in Workers, CleanupDelayed(w) PROVE Stay
    BY <1>14, <1>2 DEF CleanupDelayed, AtGetWork
  <1>15. ASSUME NEW w \in Workers, CleanupPurge(w) PROVE Stay
    BY <1>15, <1>2 DEF CleanupPurge
  <1>16. ASSUME NEW w \in Workers, CleanupDrained(w) PROVE Stay
    BY <1>16, <1>2 DEF CleanupDrained, AtGetWork
  <1>17. ASSUME NEW w \in Workers, WaitForWork(w) PROVE Stay
    BY <1>17, <1>2 DEF WaitForWork, AtGetWork
  <1>18. ASSUME NEW w \in Workers, WakeUp(w) PROVE Stay
    BY <1>18, <1>2 DEF WakeUp
  <1>19. ASSUME NEW w \in Workers, TimeOut(w) PROVE Stay
    BY <1>19, <1>2 DEF TimeOut
  <1>20. ASSUME NEW w \in Workers, LeaveLoop(w) PROVE Stay
    BY <1>20, <1>2 DEF LeaveLoop, AtGetWork
  <1>21. ASSUME NEW w \in Workers, PurgeUnderLock(w) PROVE Stay
    BY <1>21, <1>2 DEF PurgeUnderLock
  <1>22. ASSUME NEW w \in Workers, ExitSignal(w) PROVE Stay
    BY <1>22, <1>2 DEF ExitSignal
  <1>23. ASSUME NEW w \in Workers, ExitSignalShutdown(w) PROVE Stay
    BY <1>23, <1>2 DEF ExitSignalShutdown
  <1>24. ASSUME NEW w \in Workers, LeadCleanup(w) PROVE Stay
    BY <1>24, <1>2 DEF LeadCleanup
  <1>25. ASSUME NEW w \in Workers, LeadWait(w) PROVE Stay
    BY <1>25, <1>2 DEF LeadWait, WaitAs
  <1>26. ASSUME NEW w \in Workers, IdleEnter(w) PROVE Stay
    BY <1>26, <1>2 DEF IdleEnter, WaitAs
  <1>27. ASSUME NEW w \in Workers, IdleWait(w) PROVE Stay
    BY <1>27, <1>2 DEF IdleWait, WaitAs
  <1>28. ASSUME NEW w \in Workers, IdleLeave(w) PROVE Stay
    BY <1>28, <1>2 DEF IdleLeave, Return
  <1>29. ASSUME NEW w \in Workers, FinishWait(w) PROVE Stay
    BY <1>29, <1>2 DEF FinishWait, WaitAs, AtFinish
  <1>30. ASSUME NEW w \in Workers, FinishCleanup(w) PROVE Stay
    BY <1>30, <1>2 DEF FinishCleanup, Return, AtFinish
  <1>31. ASSUME CleanupForTesting \/ CleanupWoken \/ Shutdown \/ ShutdownCheck
        PROVE  Stay
    BY <1>31, <1>2 DEF CleanupForTesting, CleanupWoken, Shutdown, ShutdownCheck,
       CleanupCounts, Flushing
  <1>32. CASE Tick
    BY <1>32, <1>2 DEF Tick
  <1>33. CASE UNCHANGED vars
    BY <1>33, <1>2 DEF vars
  <1>34. ASSUME UNCHANGED <<pc, cleanup_state_, thread_being_created_>> PROVE Stay
    BY <1>34, <1>2
  <1> QED
    BY <1>1, <1>2, <1>3, <1>4, <1>5, <1>6, <1>7, <1>8, <1>9, <1>10, <1>11,
    <1>12, <1>13, <1>14, <1>15, <1>16, <1>17, <1>18, <1>19, <1>20, <1>21,
    <1>22, <1>23, <1>24, <1>25, <1>26, <1>27, <1>28, <1>29, <1>30, <1>31,
    <1>32, <1>33, <1>34
    DEF Next, PostProgress, ThreadLoop, HandleCleanup

-----------------------------------------------------------------------------
\* A flush leaves nothing behind.

\* What is done or deleted stays so, and what is accepted comes to that.
LEMMA OutcomesKept ==
  ASSUME BaseTypes, Places, [Next]_vars, NEW s \in Tasks
  PROVE  /\ outcome[s] \in {"done", "deleted"} => outcome'[s] = outcome[s]
         /\ outcome[s] = "accepted" => outcome'[s] \in {"accepted", "done", "deleted"}
  <1> DEFINE Kept1 ==
        /\ outcome[s] \in {"done", "deleted"} => outcome'[s] = outcome[s]
        /\ outcome[s] = "accepted" => outcome'[s] \in {"accepted", "done", "deleted"}
  <1> USE DEF BaseTypes, TaskTypes, ThreadTypes, Threads, Places,
     innerVars, threadVars, countVars, queueVars, shutdownVars,
     cleanupVars, cvVars, localVars, callVars, historyVars, unchangedByCleanup
  <1>1. ASSUME NEW th \in Threads, NEW t \in Tasks, PostTaskStamp(th, t) PROVE Kept1
    BY <1>1 DEF PostTaskStamp
  <1>2. ASSUME NEW th \in Threads, PostTaskRefuse(th) \/ PostTaskInsert(th) PROVE Kept1
    BY <1>2 DEF PostTaskRefuse, PostTaskInsert
  <1>3. ASSUME NEW th \in Threads,
                PostTaskStartThread(th) \/ PostTaskSignal(th) \/
             SpuriousWakeup(th)
        PROVE  UNCHANGED outcome
    BY <1>3 DEF PostTaskStartThread, PostTaskSignal, SpuriousWakeup
  <1>4. ASSUME NEW w \in Workers, RunFinish(w) PROVE Kept1
    BY <1>4 DEF RunFinish, HasTask, RunningPcs
  <1>5. ASSUME NEW w \in Workers, RunPurge(w) PROVE Kept1
    BY <1>5 DEF RunPurge, Destroy
  <1>6. ASSUME NEW w \in Workers, CleanupPurge(w) PROVE Kept1
    BY <1>6 DEF CleanupPurge, Destroy
  <1>7. ASSUME NEW w \in Workers, PurgeUnderLock(w) PROVE Kept1
    BY <1>7 DEF PurgeUnderLock, Destroy
  <1>8. ASSUME NEW w \in Workers,
                ThreadLoopEnter(w) \/ GetWorkFound(w) \/ RunSignal(w) \/
             RunSpawn(w) \/ DidRunWorkerTask(w) \/ CleanupDelayed(w) \/
             CleanupDrained(w) \/ WaitForWork(w) \/ WakeUp(w) \/ TimeOut(w) \/
             LeaveLoop(w) \/ ExitSignal(w) \/ ExitSignalShutdown(w) \/
             LeadCleanup(w) \/ LeadWait(w) \/ LeadRun(w) \/ IdleEnter(w) \/
             IdleWait(w) \/ IdleLeave(w) \/ FinishWait(w) \/ FinishCleanup(w)
        PROVE  UNCHANGED outcome
    BY <1>8 DEF ThreadLoopEnter, GetWorkFound, RunSignal, RunSpawn,
       DidRunWorkerTask, CleanupDelayed, CleanupDrained, WaitForWork, WakeUp,
       TimeOut, LeaveLoop, ExitSignal, ExitSignalShutdown, LeadCleanup,
       LeadWait, LeadRun, IdleEnter, IdleWait, IdleLeave, FinishWait,
       FinishCleanup
  <1>9. ASSUME
                CleanupForTesting \/ CleanupWoken \/ Shutdown \/ ShutdownCheck \/
             Tick
        PROVE  UNCHANGED outcome
    BY <1>9 DEF CleanupForTesting, CleanupWoken, Shutdown, ShutdownCheck, Tick
  <1>10. CASE UNCHANGED vars
    BY <1>10 DEF vars
  <1>11. ASSUME UNCHANGED outcome PROVE Kept1
    BY <1>11
  <1> QED
    BY <1>1, <1>2, <1>3, <1>4, <1>5, <1>6, <1>7, <1>8, <1>9, <1>10, <1>11
    DEF Next, PostProgress, ThreadLoop, HandleCleanup

\* A lone leader that finds nothing to run has left nothing undone: no token is in
\* use that could hide a task from it, and no closure is with anybody else.
LEMMA LeaderDrains ==
  ASSUME BaseTypes, Places, CleanupCounts, ShutdownByMain, Sweeping, Located,
         TokensHeld, Alone, NEW w \in Workers, CleanupDrained(w)
  PROVE  \A t \in Tasks : outcome[t] # "accepted"
  <1>1. /\ cleanup_state_ = "RUNNING" /\ Kept = {}
        /\ pc[w] \in {"getwork", "loop"}
    BY DEF CleanupDrained, AtGetWork, NotFound
  <1>2. ~shutdown_called_
    BY <1>1 DEF CleanupCounts, Flushing, ShutdownByMain
  <1>3. PICK leader \in Workers : Lone(leader)
    BY <1>1 DEF Alone
  <1>4. \A v \in Workers : pc[v] \in {"getwork", "loop", "unborn", "idling"}
    BY <1>1, <1>3 DEF Lone
  <1>5. \A v \in Workers : ~HasTask(v) /\ delete_these[v] = {}
    BY <1>4 DEF Places, RunningPcs, Sweeping, SweepPcs
  <1>6. current_sequences_ = {}
    BY <1>5 DEF TokensHeld
  <1>7. pending_tasks_ = {}
    BY <1>1, <1>2, <1>6 DEF Kept, Dropped, Runnable, IsSequenceTokenRunnable
  <1> QED
    BY <1>5, <1>7, TaskAssumption DEF Located, HasTask

\* Nor has a pool whose threads are all asleep in WaitForWork.
LEMMA IdlePoolIsDrained ==
  ASSUME BaseTypes, Places, WaitingCountExact, OneCreation, ShutdownByMain, Sweeping,
         Located, pc[Main] = "out", pending_tasks_ = {},
         waiting_thread_count_ = Cardinality(threads_)
  PROVE  \A t \in Tasks : outcome[t] # "accepted"
  <1>1. threads_ = {w \in Workers : pc[w] \notin {"unborn", "starting"}}
    BY DEF OneCreation
  <1>2. /\ IsFiniteSet(threads_) /\ WaitingWorkers \subseteq threads_
        /\ Cardinality(WaitingWorkers) = Cardinality(threads_)
    BY <1>1, FiniteAssumption, FS_Subset DEF WaitingWorkers, WaitingCountExact
  <1>3. WaitingWorkers = threads_
    BY <1>2, FS_Subset
  <1>4. \A w \in Workers : pc[w] \in {"unborn", "starting", "waiting"}
    BY <1>1, <1>3 DEF WaitingWorkers
  <1>5. \A w \in Workers : ~HasTask(w) /\ delete_these[w] = {}
    BY <1>4 DEF Places, RunningPcs, Sweeping, SweepPcs, ShutdownByMain
  <1> QED
    BY <1>5, TaskAssumption DEF Located, HasTask

\* What was accepted before a flush is not left when its cleanup is over.
Drained ==
  /\ \A t \in flush_set : outcome[t] \in {"accepted", "done", "deleted"}
  /\ cleanup_state_ \in {"FINISHING", "DONE"} => \A t \in flush_set : outcome[t] # "accepted"

\* A new pool has not been flushed.
LEMMA DrainedInit == Init => Drained
  BY DEF Init, Drained

\* The leader ends the cleanup only when nothing is left.
LEMMA DrainedStep ==
  BaseTypes /\ Places /\ CountersExact /\ CleanupCounts /\ OneCreation /\
  ShutdownByMain /\ Sweeping /\ Located /\ TokensHeld /\ Alone /\ Drained /\
  [Next]_vars
    => Drained'
  <1> SUFFICES ASSUME BaseTypes, Places, CountersExact, CleanupCounts, OneCreation,
                      ShutdownByMain, Sweeping, Located, TokensHeld, Alone, Drained,
                      [Next]_vars
               PROVE  Drained'
    OBVIOUS
  <1>1. \A s \in Tasks :
          /\ outcome[s] \in {"done", "deleted"} => outcome'[s] = outcome[s]
          /\ outcome[s] = "accepted" => outcome'[s] \in {"accepted", "done", "deleted"}
    BY OutcomesKept
  <1>2. flush_set \subseteq Tasks
    BY DEF BaseTypes, TaskTypes
  <1> DEFINE Over == cleanup_state_ \in {"FINISHING", "DONE"}
  <1> USE DEF innerVars, threadVars, countVars, queueVars, shutdownVars,
     cleanupVars, cvVars, localVars, callVars, historyVars, unchangedByCleanup
  <1>3. ASSUME NEW w \in Workers, CleanupDrained(w) PROVE Drained'
    <2>1. \A t \in Tasks : outcome[t] # "accepted"
      BY <1>3, LeaderDrains
    <2>2. UNCHANGED <<flush_set, outcome>>
      BY <1>3 DEF CleanupDrained
    <2> QED
      BY <1>2, <2>1, <2>2 DEF Drained
  <1>4. CASE CleanupForTesting
    <2>1. flush_set' = {t \in Tasks : outcome[t] = "accepted"} /\ UNCHANGED outcome
      BY <1>4 DEF CleanupForTesting, Unfinished
    <2>2. CASE cleanup_state_' = "REQUESTED"
      BY <2>1, <2>2 DEF Drained
    <2>3. CASE cleanup_state_' # "REQUESTED"
      <3>1. /\ pc[Main] = "out" /\ pending_tasks_ = {}
            /\ waiting_thread_count_ = Cardinality(threads_)
        BY <1>4, <2>3 DEF CleanupForTesting
      <3>2. \A t \in Tasks : outcome[t] # "accepted"
        BY <3>1, IdlePoolIsDrained DEF CountersExact
      <3> QED
        BY <2>1, <3>2 DEF Drained
    <2> QED
      BY <2>2, <2>3
  <1>5. ASSUME NEW th \in Threads,
                (\E t \in Tasks : PostTaskStamp(th, t)) \/ PostTaskRefuse(th) \/ PostTaskInsert(th) \/
             PostTaskStartThread(th) \/ PostTaskSignal(th) \/
             SpuriousWakeup(th)
        PROVE  UNCHANGED flush_set /\ (Over' => Over)
    BY <1>5 DEF PostTaskStamp, PostTaskRefuse, PostTaskInsert,
       PostTaskStartThread, PostTaskSignal, SpuriousWakeup
  <1>6. ASSUME NEW w \in Workers,
                ThreadLoopEnter(w) \/ GetWorkFound(w) \/ RunSignal(w) \/
             RunPurge(w) \/ RunSpawn(w) \/ RunFinish(w) \/ DidRunWorkerTask(w)
             \/ CleanupDelayed(w) \/ CleanupPurge(w) \/ WaitForWork(w) \/
             WakeUp(w) \/ TimeOut(w) \/ LeaveLoop(w) \/ PurgeUnderLock(w) \/
             ExitSignal(w) \/ ExitSignalShutdown(w) \/ LeadCleanup(w) \/
             LeadWait(w) \/ LeadRun(w) \/ IdleEnter(w) \/ IdleWait(w) \/
             IdleLeave(w) \/ FinishWait(w) \/ FinishCleanup(w)
        PROVE  UNCHANGED flush_set /\ (Over' => Over)
    BY <1>6 DEF ThreadLoopEnter, GetWorkFound, RunSignal, RunPurge, RunSpawn,
       RunFinish, DidRunWorkerTask, CleanupDelayed, CleanupPurge, WaitForWork,
       WakeUp, TimeOut, LeaveLoop, PurgeUnderLock, ExitSignal,
       ExitSignalShutdown, LeadCleanup, LeadWait, LeadRun, IdleEnter,
       IdleWait, IdleLeave, FinishWait, FinishCleanup, AtFinish
  <1>7. ASSUME
                CleanupWoken \/ Shutdown \/ ShutdownCheck \/ Tick
        PROVE  UNCHANGED flush_set /\ (Over' => Over)
    BY <1>7 DEF CleanupWoken, Shutdown, ShutdownCheck, Tick
  <1>8. CASE UNCHANGED vars
    BY <1>8, <1>1 DEF vars, Drained
  <1>9. ASSUME UNCHANGED flush_set /\ (Over' => Over) PROVE Drained'
    BY <1>1, <1>2, <1>9 DEF Drained
  <1> QED
    BY <1>1, <1>2, <1>3, <1>4, <1>5, <1>6, <1>7, <1>8, <1>9
    DEF Next, PostProgress, ThreadLoop, HandleCleanup

-----------------------------------------------------------------------------
\* The invariant of a flush, on top of the pool's.
FlushInv ==
  /\ IInv
  /\ ShutdownByMain /\ Sweeping /\ Located /\ TokensHeld /\ Alone /\ Drained

\* The initial state satisfies it, and every step keeps it.
LEMMA FlushInvInductive == (Init => FlushInv) /\ (FlushInv /\ [Next]_vars => FlushInv')
  <1>1. Init => FlushInv
    BY IInvInductive, ShutdownByMainInit, SweepingInit, LocatedInit, TokensHeldInit,
       AloneInit, DrainedInit DEF FlushInv
  <1>2. ASSUME FlushInv, [Next]_vars PROVE FlushInv'
    <2>1. IInv'
      BY <1>2, IInvInductive DEF FlushInv
    <2>2. ShutdownByMain' /\ Sweeping'
      BY <1>2, ShutdownByMainStep, SweepingStep DEF FlushInv, IInv
    <2>3. Located' /\ TokensHeld'
      BY <1>2, LocatedStep, TokensHeldStep DEF FlushInv, IInv
    <2>4. Alone'
      BY <1>2, AloneStep DEF FlushInv, IInv
    <2>5. Drained'
      BY <1>2, DrainedStep DEF FlushInv, IInv
    <2> QED
      BY <2>1, <2>2, <2>3, <2>4, <2>5 DEF FlushInv
  <1> QED
    BY <1>1, <1>2

\* When CleanupForTesting() returns, everything accepted before it was called has
\* been run and destroyed, or was delayed and deleted (HandleCleanup()).
THEOREM FlushHolds == Spec => []FlushDrains
  <1>1. FlushInv => FlushDrains
    BY DEF FlushInv, IInv, CleanupCounts, Flushing, Drained, FlushDrains
  <1> QED
    BY <1>1, FlushInvInductive, PTL DEF Spec

\* While the leader of a cleanup runs what is pending, no other worker has a task and
\* no thread enters the pool (HandleCleanup(), THREAD_CLEANUP_RUNNING).
THEOREM CleanupAloneHolds == Spec => []CleanupRunsAlone
  <1>1. FlushInv => CleanupRunsAlone
    BY DEF FlushInv, IInv, Places, RunningPcs, Alone, Lone, CleanupRunsAlone
  <1> QED
    BY <1>1, FlushInvInductive, PTL DEF Spec

\* A closure that PostTask() took waits in the queue, is with a worker, or is being
\* destroyed, until it has run or is deleted: the pool loses none.
THEOREM NothingLost == Spec => []Located
  <1>1. FlushInv => Located
    BY DEF FlushInv
  <1> QED
    BY <1>1, FlushInvInductive, PTL DEF Spec

-----------------------------------------------------------------------------
\* No wake-up is lost.

ExitPcs == {"purgeExit", "exitSignal", "exitShutdown", "gone"}
InLoop(w) == pc[w] \notin {"unborn"} \cup ExitPcs

\* Where the sleepers are. Nobody sleeps at the end of a cleanup when the last
\* idler has gone, since that one woke them all.
Asleep ==
  /\ \A w \in has_work_cv_ : pc[w] = "waiting"
  /\ \A w \in Workers : w \in cleanup_cv_ =>
       pc[w] \in {"leading", "idling"} \/ (pc[w] = "finishing" /\ cleanup_idlers_ # 0)
  /\ can_shutdown_cv_ # {} => shutdown_called_

\* Nobody sleeps in a new pool.
LEMMA AsleepInit == Init => Asleep
  BY DEF Init, Asleep

\* A thread goes to sleep where it says, and is awake when it leaves.
LEMMA AsleepStep ==
  BaseTypes /\ CleanupCounts /\ ShutdownSeen /\ Asleep /\ [Next]_vars => Asleep'
  <1> SUFFICES ASSUME BaseTypes, CleanupCounts, ShutdownSeen, Asleep, [Next]_vars
               PROVE  Asleep'
    OBVIOUS
  <1> USE ThreadAssumption DEF BaseTypes, PoolTypes, ThreadTypes, Threads, Asleep,
     innerVars, threadVars, countVars, queueVars, shutdownVars,
     cleanupVars, cvVars, localVars, callVars, historyVars, unchangedByCleanup
  <1>1. ASSUME NEW th \in Threads,
               \/ \E t \in Tasks : PostTaskStamp(th, t)
               \/ PostTaskRefuse(th) \/ PostTaskInsert(th)
               \/ PostTaskSignal(th) \/ SpuriousWakeup(th)
        PROVE  Asleep'
    <2>1. /\ has_work_cv_' \subseteq has_work_cv_ /\ cleanup_cv_' \subseteq cleanup_cv_
          /\ can_shutdown_cv_' \subseteq can_shutdown_cv_
          /\ UNCHANGED <<pc, cleanup_idlers_, shutdown_called_>>
      BY <1>1 DEF PostTaskStamp, PostTaskRefuse, PostTaskInsert, PostTaskSignal,
         SpuriousWakeup, Signalled
    <2> QED
      BY <2>1
  <1>2. ASSUME NEW th \in Threads, PostTaskStartThread(th) PROVE Asleep'
    BY <1>2 DEF PostTaskStartThread
  <1>3. ASSUME NEW w \in Workers,
               \/ ThreadLoopEnter(w) \/ GetWorkFound(w) \/ RunSignal(w) \/ RunPurge(w)
               \/ RunFinish(w) \/ DidRunWorkerTask(w) \/ CleanupDelayed(w)
        PROVE  Asleep'
    <2>1. /\ has_work_cv_' \subseteq has_work_cv_
          /\ UNCHANGED <<cleanup_cv_, can_shutdown_cv_, cleanup_idlers_, shutdown_called_>>
          /\ pc[w] \notin {"waiting", "leading", "idling", "finishing"}
          /\ \A v \in Workers \ {w} : pc'[v] = pc[v]
      BY <1>3 DEF ThreadLoopEnter, GetWorkFound, RunSignal, RunPurge, RunFinish,
         DidRunWorkerTask, CleanupDelayed, AtGetWork, Signalled
    <2> QED
      BY <2>1
  <1>4. ASSUME NEW w \in Workers,
               \/ CleanupPurge(w) \/ CleanupDrained(w) \/ LeaveLoop(w) \/ PurgeUnderLock(w)
               \/ ExitSignal(w) \/ ExitSignalShutdown(w) \/ LeadCleanup(w)
        PROVE  Asleep'
    <2>1. /\ has_work_cv_' \subseteq has_work_cv_ /\ cleanup_cv_' \subseteq cleanup_cv_
          /\ can_shutdown_cv_' \subseteq can_shutdown_cv_
          /\ UNCHANGED <<cleanup_idlers_, shutdown_called_>>
          /\ pc[w] \notin {"waiting", "leading", "idling", "finishing"}
          /\ \A v \in Workers \ {w} : pc'[v] = pc[v]
      BY <1>4 DEF CleanupPurge, CleanupDrained, LeaveLoop, PurgeUnderLock, ExitSignal,
         ExitSignalShutdown, LeadCleanup, AtGetWork, Signalled
    <2> QED
      BY <2>1
  <1>5. ASSUME NEW w \in Workers, RunSpawn(w) PROVE Asleep'
    BY <1>5 DEF RunSpawn
  <1>6. ASSUME NEW w \in Workers, WaitForWork(w) PROVE Asleep'
    BY <1>6 DEF WaitForWork, AtGetWork
  <1>7. ASSUME NEW w \in Workers, WakeUp(w) \/ TimeOut(w) PROVE Asleep'
    BY <1>7 DEF WakeUp, TimeOut
  <1>8. ASSUME NEW w \in Workers, LeadWait(w) \/ LeadRun(w) PROVE Asleep'
    BY <1>8 DEF LeadWait, LeadRun, Awake, Return, WaitAs, Signalled
  <1>9. ASSUME NEW w \in Workers, IdleEnter(w) \/ IdleWait(w) \/ IdleLeave(w) PROVE Asleep'
    BY <1>9 DEF IdleEnter, IdleWait, IdleLeave, Awake, Return, WaitAs
  <1>10. ASSUME NEW w \in Workers, FinishWait(w) \/ FinishCleanup(w) PROVE Asleep'
    BY <1>10 DEF FinishWait, FinishCleanup, AtFinish, Awake, Return, WaitAs, Signalled
  <1>11. CASE CleanupForTesting
    <2>1. cleanup_idlers_ = 0
      BY <1>11, FS_EmptySet DEF CleanupForTesting, CleanupCounts, Flushing
    <2> QED
      BY <1>11, <2>1 DEF CleanupForTesting, Signalled
  <1>12. CASE CleanupWoken
    BY <1>12 DEF CleanupWoken
  <1>13. CASE Shutdown \/ ShutdownCheck
    BY <1>13 DEF Shutdown, ShutdownCheck, Signalled, ShutdownSeen
  <1>14. CASE Tick \/ UNCHANGED vars
    BY <1>14 DEF Tick, vars
  <1> QED
    BY <1>1, <1>2, <1>3, <1>4, <1>5, <1>6, <1>7, <1>8, <1>9, <1>10, <1>11, <1>12, <1>13, <1>14
    DEF Next, PostProgress, ThreadLoop, HandleCleanup

\* During a shutdown nobody is in a cleanup, asleep or awake.
LEMMA NoCleanupInShutdown ==
  ASSUME BaseTypes, CleanupCounts, ShutdownByMain, Asleep, shutdown_called_
  PROVE  /\ cleanup_state_ = "DONE" /\ \A w \in Workers : w \notin cleanup_cv_
         /\ \A w \in Workers : pc[w] \notin {"leading", "idling"}
  <1>1. cleanup_state_ = "DONE"
    BY DEF CleanupCounts, Flushing, ShutdownByMain
  <1>2. Idlers = {} /\ Leaders = {} /\ cleanup_idlers_ = 0
    BY <1>1, FS_EmptySet DEF CleanupCounts
  <1> QED
    BY <1>1, <1>2 DEF Asleep, Idlers, Leaders

\* No worker leaves its loop but LeaveLoop(), and no step but that of a worker that
\* has left it takes one back.
LEMMA LoopKept ==
  ASSUME BaseTypes, [Next]_vars, \A w \in Workers : ~LeaveLoop(w)
  PROVE  \A w \in Workers : /\ InLoop(w) => InLoop(w)'
                            /\ pc[w] \notin ExitPcs => pc'[w] \notin ExitPcs
                            /\ pc'[w] # pc[w] => pc'[w] # "unborn"
  <1> DEFINE Kept1 == \A w \in Workers : /\ InLoop(w) => InLoop(w)'
                                         /\ pc[w] \notin ExitPcs => pc'[w] \notin ExitPcs
                                         /\ pc'[w] # pc[w] => pc'[w] # "unborn"
  <1> USE ThreadAssumption DEF BaseTypes, ThreadTypes, Threads, InLoop, ExitPcs,
     innerVars, threadVars, countVars, queueVars, shutdownVars,
     cleanupVars, cvVars, localVars, callVars, historyVars, unchangedByCleanup
  <1>1. ASSUME NEW th \in Threads,
               \/ \E t \in Tasks : PostTaskStamp(th, t)
               \/ PostTaskRefuse(th) \/ PostTaskInsert(th)
               \/ PostTaskSignal(th) \/ SpuriousWakeup(th)
        PROVE  UNCHANGED pc
    BY <1>1 DEF PostTaskStamp, PostTaskRefuse, PostTaskInsert, PostTaskSignal,
       SpuriousWakeup
  <1>2. ASSUME NEW th \in Threads, PostTaskStartThread(th) PROVE Kept1
    BY <1>2 DEF PostTaskStartThread
  <1>3. ASSUME NEW w \in Workers,
               \/ ThreadLoopEnter(w) \/ GetWorkFound(w) \/ RunSignal(w) \/ RunPurge(w)
               \/ RunFinish(w) \/ DidRunWorkerTask(w) \/ CleanupDelayed(w)
        PROVE  Kept1
    BY <1>3 DEF ThreadLoopEnter, GetWorkFound, RunSignal, RunPurge, RunFinish,
       DidRunWorkerTask, CleanupDelayed, AfterPurge
  <1>4. ASSUME NEW w \in Workers,
               \/ CleanupPurge(w) \/ CleanupDrained(w) \/ PurgeUnderLock(w)
               \/ ExitSignal(w) \/ ExitSignalShutdown(w) \/ LeadCleanup(w)
               \/ WaitForWork(w) \/ WakeUp(w) \/ TimeOut(w)
        PROVE  Kept1
    BY <1>4 DEF CleanupPurge, CleanupDrained, PurgeUnderLock, ExitSignal,
       ExitSignalShutdown, LeadCleanup, WaitForWork, WakeUp, TimeOut
  <1>5. ASSUME NEW w \in Workers, RunSpawn(w) PROVE Kept1
    BY <1>5 DEF RunSpawn
  <1>6. ASSUME NEW w \in Workers,
               \/ LeadWait(w) \/ LeadRun(w) \/ IdleEnter(w) \/ IdleWait(w) \/ IdleLeave(w)
               \/ FinishWait(w) \/ FinishCleanup(w)
        PROVE  Kept1
    BY <1>6 DEF LeadWait, LeadRun, IdleEnter, IdleWait, IdleLeave, FinishWait,
       FinishCleanup, AtFinish, Return, WaitAs
  <1>7. ASSUME CleanupForTesting \/ CleanupWoken \/ Shutdown \/ ShutdownCheck \/ Tick
        PROVE  Kept1
    BY <1>7 DEF CleanupForTesting, CleanupWoken, Shutdown, ShutdownCheck, Tick
  <1>8. ASSUME UNCHANGED vars PROVE Kept1
    BY <1>8 DEF vars
  <1>9. ASSUME UNCHANGED pc PROVE Kept1
    BY <1>9
  <1> HIDE DEF Kept1
  <1>10. [Next]_vars /\ \A w \in Workers : ~LeaveLoop(w)
    OBVIOUS
  <1>11. Kept1
    BY ONLY <1>1, <1>2, <1>3, <1>4, <1>5, <1>6, <1>7, <1>8, <1>9, <1>10
    DEF Next, PostProgress, ThreadLoop, HandleCleanup
  <1> QED
    BY ONLY <1>11 DEF Kept1

\* Before a shutdown no worker leaves. From the moment there is something to do, and
\* until the last BLOCK_SHUTDOWN task has been taken, a worker is in its loop or about
\* to enter it.
Entered ==
  /\ ~shutdown_called_ => \A w \in Workers : pc[w] \notin ExitPcs
  /\ max_threads_ # 0 /\ ~shutdown_called_
       /\ (pending_tasks_ # {} \/ cleanup_state_ # "DONE") =>
       thread_being_created_ \/ threads_ # {}
  /\ max_threads_ # 0 /\ PendingBlocking # {} =>
       thread_being_created_ \/ \E w \in Workers : InLoop(w)

\* Only PostTask() adds to the queue, a thread that is being created enters the pool
\* and stays in it, and a flush is asked for by CleanupForTesting() only.
LEMMA PoolMoves ==
  ASSUME CleanupCounts, [Next]_vars
  PROVE  /\ pending_tasks_' \subseteq pending_tasks_ \/ \E th \in Threads : PostTaskInsert(th)
         /\ thread_being_created_ =>
              thread_being_created_' \/ \E w \in Workers : ThreadLoopEnter(w)
         /\ threads_ \subseteq threads_'
         /\ cleanup_state_' # "DONE" => cleanup_state_ # "DONE" \/ CleanupForTesting
         /\ UNCHANGED shutdown_called_ \/ Shutdown
  <1> DEFINE Less == /\ pending_tasks_' \subseteq pending_tasks_
                     /\ thread_being_created_ => thread_being_created_'
                     /\ threads_ \subseteq threads_'
                     /\ UNCHANGED shutdown_called_
                     /\ cleanup_state_' # "DONE" => cleanup_state_ # "DONE"
  <1> USE DEF innerVars, threadVars, countVars, queueVars, shutdownVars,
     cleanupVars, cvVars, localVars, callVars, historyVars, unchangedByCleanup
  <1>1. ASSUME NEW th \in Threads,
               \/ \E t \in Tasks : PostTaskStamp(th, t)
               \/ PostTaskRefuse(th) \/ PostTaskStartThread(th)
               \/ PostTaskSignal(th) \/ SpuriousWakeup(th)
        PROVE  Less
    BY <1>1 DEF PostTaskStamp, PostTaskRefuse, PostTaskStartThread, PostTaskSignal,
       SpuriousWakeup
  <1>2. ASSUME NEW w \in Workers,
               \/ GetWorkFound(w) \/ CleanupDelayed(w) \/ WaitForWork(w) \/ LeaveLoop(w)
        PROVE  Less
    <2>1. pending_tasks_' \subseteq pending_tasks_
      BY <1>2 DEF GetWorkFound, CleanupDelayed, WaitForWork, LeaveLoop, Erased
    <2>2. thread_being_created_ => thread_being_created_'
      BY <1>2 DEF GetWorkFound, CleanupDelayed, WaitForWork, LeaveLoop
    <2>3. UNCHANGED <<threads_, shutdown_called_, cleanup_state_>>
      BY <1>2 DEF GetWorkFound, CleanupDelayed, WaitForWork, LeaveLoop
    <2> QED
      BY ONLY <2>1, <2>2, <2>3
  <1>3. ASSUME NEW w \in Workers,
               \/ RunSignal(w) \/ RunPurge(w) \/ RunSpawn(w) \/ RunFinish(w)
               \/ DidRunWorkerTask(w) \/ CleanupPurge(w) \/ CleanupDrained(w)
               \/ WakeUp(w) \/ TimeOut(w) \/ PurgeUnderLock(w) \/ ExitSignal(w)
               \/ ExitSignalShutdown(w)
        PROVE  Less
    <2>1. /\ pending_tasks_' = pending_tasks_ /\ thread_being_created_' = thread_being_created_
          /\ threads_' = threads_ /\ shutdown_called_' = shutdown_called_
      BY <1>3 DEF RunSignal, RunPurge, RunSpawn, RunFinish, DidRunWorkerTask,
         CleanupPurge, CleanupDrained, WakeUp, TimeOut, PurgeUnderLock, ExitSignal,
         ExitSignalShutdown
    <2>2. cleanup_state_' # "DONE" => cleanup_state_ # "DONE"
      BY <1>3 DEF RunSignal, RunPurge, RunSpawn, RunFinish, DidRunWorkerTask,
         CleanupPurge, CleanupDrained, WakeUp, TimeOut, PurgeUnderLock, ExitSignal,
         ExitSignalShutdown
    <2> QED
      BY ONLY <2>1, <2>2
  <1>4. ASSUME NEW w \in Workers,
               \/ LeadCleanup(w) \/ LeadWait(w) \/ LeadRun(w) \/ IdleEnter(w)
               \/ IdleWait(w) \/ IdleLeave(w) \/ FinishWait(w)
        PROVE  Less
    BY <1>4 DEF LeadCleanup, LeadWait, LeadRun, IdleEnter, IdleWait, IdleLeave,
       FinishWait, CleanupCounts, Leaders
  <1>5. ASSUME NEW w \in Workers, FinishCleanup(w) PROVE Less
    BY <1>5 DEF FinishCleanup
  <1>6. ASSUME CleanupWoken \/ ShutdownCheck \/ Tick PROVE Less
    BY <1>6 DEF CleanupWoken, ShutdownCheck, Tick
  <1>7. ASSUME UNCHANGED vars PROVE Less
    BY <1>7 DEF vars
  <1>8. ASSUME NEW th \in Threads, PostTaskInsert(th)
        PROVE  /\ thread_being_created_ => thread_being_created_'
               /\ UNCHANGED <<threads_, shutdown_called_, cleanup_state_>>
    BY <1>8 DEF PostTaskInsert
  <1>9. ASSUME NEW w \in Workers, ThreadLoopEnter(w)
        PROVE  /\ threads_ \subseteq threads_'
               /\ UNCHANGED <<pending_tasks_, shutdown_called_, cleanup_state_>>
    BY <1>9 DEF ThreadLoopEnter
  <1>10. ASSUME CleanupForTesting
         PROVE  UNCHANGED <<pending_tasks_, shutdown_called_, threads_, thread_being_created_>>
    BY <1>10 DEF CleanupForTesting
  <1>11. ASSUME Shutdown
         PROVE  UNCHANGED <<pending_tasks_, cleanup_state_, threads_, thread_being_created_>>
    BY <1>11 DEF Shutdown
  <1>12. \/ Less
         \/ \E th \in Threads : PostTaskInsert(th)
         \/ \E w \in Workers : ThreadLoopEnter(w)
         \/ CleanupForTesting
         \/ Shutdown
    <2> HIDE DEF Less
    <2> QED
      BY <1>1, <1>2, <1>3, <1>4, <1>5, <1>6, <1>7
      DEF Next, PostProgress, ThreadLoop, HandleCleanup
  <1> QED
    BY ONLY <1>8, <1>9, <1>10, <1>11, <1>12

\* Nothing is posted to a new pool.
LEMMA EnteredInit == Init => Entered
  BY DEF Init, Entered, ExitPcs, PendingBlocking, Threads

\* A thread waits or has a task only once it has entered.
LEMMA ThreadsAreIn ==
  ASSUME FlushInv
  PROVE  /\ threads_ = {} => waiting_thread_count_ = 0 /\ Cardinality(threads_) = 0
         /\ threads_ = {} => \A t \in Tasks : IsSequenceTokenRunnable(t, current_sequences_)
         /\ waiting_thread_count_ \in Nat
  <1>1. threads_ = {w \in Workers : pc[w] \notin {"unborn", "starting"}}
    BY DEF FlushInv, IInv, OneCreation
  <1>2. WaitingWorkers \subseteq threads_ /\ IsFiniteSet(WaitingWorkers)
    BY <1>1, CountedFinite DEF FlushInv, IInv, WaitingWorkers
  <1>3. waiting_thread_count_ = Cardinality(WaitingWorkers)
    BY DEF FlushInv, IInv, CountersExact, WaitingCountExact
  <1>4. ASSUME NEW w \in Workers, HasTask(w) PROVE w \in threads_
    BY <1>1, <1>4 DEF FlushInv, IInv, Places, RunningPcs
  <1>5. threads_ = {} => current_sequences_ = {}
    BY <1>4 DEF FlushInv, TokensHeld
  <1> QED
    BY <1>2, <1>3, <1>5, FS_EmptySet, FS_CardinalityType DEF IsSequenceTokenRunnable

\* The first task, or the first flush, finds a thread or has one created; after a
\* shutdown only workers add to the queue, and none leaves while a task blocks it.
LEMMA EnteredStep ==
  ASSUME FlushInv, Entered, [Next]_vars PROVE Entered'
  <1>0. /\ BaseTypes /\ Places /\ CountersExact /\ CleanupCounts
        /\ threads_ = {w \in Workers : pc[w] \notin {"unborn", "starting"}}
        /\ threads_' = {w \in Workers : pc'[w] \notin {"unborn", "starting"}}
    <2>1. OneCreation /\ OneCreation'
      BY FlushInvInductive DEF FlushInv, IInv
    <2> QED
      BY <2>1 DEF FlushInv, IInv, OneCreation
  <1>1. ~shutdown_called_' => \A w \in Workers : pc'[w] \notin ExitPcs
    <2>1. CASE \E w \in Workers : LeaveLoop(w)
      BY <2>1, ShutdownCalledStays DEF LeaveLoop, MustExit
    <2>2. CASE \A w \in Workers : ~LeaveLoop(w)
      BY <1>0, <2>2, LoopKept, ShutdownCalledStays DEF Entered
    <2> QED
      BY <2>1, <2>2
  <1>2. max_threads_ # 0 /\ ~shutdown_called_'
          /\ (pending_tasks_' # {} \/ cleanup_state_' # "DONE") =>
          thread_being_created_' \/ threads_' # {}
    <2> SUFFICES ASSUME max_threads_ # 0, ~shutdown_called_',
                        pending_tasks_' # {} \/ cleanup_state_' # "DONE"
                 PROVE  thread_being_created_' \/ threads_' # {}
      OBVIOUS
    <2>1. ~shutdown_called_
      BY ShutdownCalledStays
    <2>2. ASSUME thread_being_created_ \/ threads_ # {}
          PROVE  thread_being_created_' \/ threads_' # {}
      <3>1. ASSUME NEW w \in Workers, ThreadLoopEnter(w) PROVE threads_' # {}
        BY <3>1 DEF ThreadLoopEnter
      <3> QED
        BY <1>0, <2>2, <3>1, PoolMoves
    <2>3. CASE pending_tasks_ # {} \/ cleanup_state_ # "DONE"
      BY <2>1, <2>2, <2>3 DEF Entered
    <2>4. ASSUME NEW th \in Threads, PostTaskInsert(th), threads_ = {}
          PROVE  thread_being_created_'
      <3>1. thread_being_created_'
              = (thread_being_created_ \/ Helpful(pending_tasks_ \cup {posting[th]}, current_sequences_))
        BY <2>4 DEF PostTaskInsert
      <3>2. /\ posting[th] \in Tasks
            /\ threads_' = {}
        BY <1>0, <2>4 DEF PostTaskInsert, BaseTypes
      <3>3. CASE cleanup_state_ = "DONE" /\ ~thread_being_created_
        <4>1. Helpful(pending_tasks_ \cup {posting[th]}, current_sequences_)
          BY <2>1, <2>4, <3>2, <3>3, ThreadsAreIn, BoundAssumption DEF Helpful
        <4> QED
          BY <3>1, <4>1
      <3>4. CASE cleanup_state_ # "DONE" \/ thread_being_created_
        BY <2>2, <2>3, <3>2, <3>4
      <3> QED
        BY <3>3, <3>4
    <2>5. CASE CleanupForTesting
      BY <2>2, <2>3, <2>5, ThreadsAreIn DEF CleanupForTesting, queueVars
    <2> QED
      BY <1>0, <2>2, <2>3, <2>4, <2>5, PoolMoves
  <1>3. max_threads_ # 0 /\ PendingBlocking' # {} =>
          thread_being_created_' \/ \E w \in Workers : InLoop(w)'
    <2> SUFFICES ASSUME max_threads_ # 0, PendingBlocking' # {}
                 PROVE  thread_being_created_' \/ \E w \in Workers : InLoop(w)'
      OBVIOUS
    <2>1. CASE ~shutdown_called_'
      BY <1>0, <1>1, <1>2, <2>1 DEF InLoop, PendingBlocking
    <2>2. CASE Shutdown
      <3>1. /\ PendingBlocking' = PendingBlocking
            /\ thread_being_created_' = thread_being_created_
            /\ \A w \in Workers : pc'[w] = pc[w]
        BY <1>0, <2>2, ThreadAssumption
        DEF Shutdown, queueVars, threadVars, PendingBlocking, BaseTypes, ThreadTypes, Threads
      <3> QED
        BY <3>1 DEF Entered, InLoop
    <2>3. ASSUME NEW th \in Threads, PostTaskInsert(th), shutdown_called_
          PROVE  \E w \in Workers : InLoop(w)'
      BY <2>3 DEF PostTaskInsert, Refuses, LockedCurrentThreadShutdownBehavior, InLoop, ExitPcs
    <2>4. ASSUME NEW w \in Workers, LeaveLoop(w) PROVE FALSE
      <3>1. PendingBlocking = {}
        BY <1>0, <2>4, CountedFinite, FS_EmptySet
        DEF LeaveLoop, MustExit, CountersExact, PendingCountExact
      <3>2. pending_tasks_' \subseteq pending_tasks_
        BY <2>4 DEF LeaveLoop
      <3> QED
        BY <3>1, <3>2 DEF PendingBlocking
    <2>5. ASSUME pending_tasks_' \subseteq pending_tasks_
          PROVE  thread_being_created_' \/ \E w \in Workers : InLoop(w)'
      <3>1. thread_being_created_ \/ \E w \in Workers : InLoop(w)
        BY <2>5 DEF Entered, PendingBlocking
      <3>2. ASSUME NEW w \in Workers, ThreadLoopEnter(w) PROVE InLoop(w)'
        BY <1>0, <3>2 DEF ThreadLoopEnter, InLoop, ExitPcs, BaseTypes, ThreadTypes, Threads
      <3> QED
        BY <1>0, <2>4, <3>1, <3>2, PoolMoves, LoopKept
    <2> QED
      BY <1>0, <2>1, <2>2, <2>3, <2>5, PoolMoves
  <1> QED
    BY <1>1, <1>2, <1>3 DEF Entered

\* While the thread in Shutdown() sleeps there is a worker that will signal it.
Watched ==
  max_threads_ # 0 /\ can_shutdown_cv_ # {} =>
    thread_being_created_ \/ \E w \in Workers : pc[w] \notin {"unborn", "gone"}

\* A thread in Shutdown() sleeps only when it has seen that it has to, and a worker
\* that leaves signals it last.
LEMMA ShutdownMoves ==
  ASSUME BaseTypes, [Next]_vars
  PROVE  /\ can_shutdown_cv_' \subseteq can_shutdown_cv_ \/ ~CanShutdown
         /\ \A w \in Workers : pc'[w] = "gone" => pc[w] = "gone" \/ ExitSignalShutdown(w)
         /\ \A w \in Workers : pc'[w] = "exitShutdown" => pc[w] = "exitShutdown" \/ ExitSignal(w)
  <1> DEFINE Stays == /\ can_shutdown_cv_' \subseteq can_shutdown_cv_
                      /\ \A w \in Workers : pc'[w] \in {"gone", "exitShutdown"} => pc'[w] = pc[w]
  <1> USE ThreadAssumption DEF BaseTypes, ThreadTypes, Threads,
     innerVars, threadVars, countVars, queueVars, shutdownVars,
     cleanupVars, cvVars, localVars, callVars, historyVars, unchangedByCleanup
  <1>1. ASSUME NEW th \in Threads,
               \/ \E t \in Tasks : PostTaskStamp(th, t)
               \/ PostTaskRefuse(th) \/ PostTaskInsert(th)
               \/ PostTaskSignal(th) \/ SpuriousWakeup(th)
        PROVE  Stays
    BY <1>1 DEF PostTaskStamp, PostTaskRefuse, PostTaskInsert, PostTaskSignal,
       SpuriousWakeup
  <1>2. ASSUME NEW th \in Threads, PostTaskStartThread(th) PROVE Stays
    BY <1>2 DEF PostTaskStartThread
  <1>3. ASSUME NEW w \in Workers,
               \/ ThreadLoopEnter(w) \/ GetWorkFound(w) \/ RunSignal(w) \/ RunPurge(w)
               \/ RunFinish(w) \/ DidRunWorkerTask(w) \/ CleanupDelayed(w)
        PROVE  Stays
    BY <1>3 DEF ThreadLoopEnter, GetWorkFound, RunSignal, RunPurge, RunFinish,
       DidRunWorkerTask, CleanupDelayed, AfterPurge
  <1>4. ASSUME NEW w \in Workers,
               \/ CleanupPurge(w) \/ CleanupDrained(w) \/ PurgeUnderLock(w) \/ LeaveLoop(w)
               \/ LeadCleanup(w) \/ WaitForWork(w) \/ WakeUp(w) \/ TimeOut(w)
        PROVE  Stays
    BY <1>4 DEF CleanupPurge, CleanupDrained, PurgeUnderLock, LeaveLoop, LeadCleanup,
       WaitForWork, WakeUp, TimeOut
  <1>5. ASSUME NEW w \in Workers, RunSpawn(w) PROVE Stays
    BY <1>5 DEF RunSpawn
  <1>6. ASSUME NEW w \in Workers,
               \/ LeadWait(w) \/ LeadRun(w) \/ IdleEnter(w) \/ IdleWait(w) \/ IdleLeave(w)
               \/ FinishWait(w) \/ FinishCleanup(w)
        PROVE  Stays
    BY <1>6 DEF LeadWait, LeadRun, IdleEnter, IdleWait, IdleLeave, FinishWait,
       FinishCleanup, AtFinish, Return, WaitAs
  <1>7. ASSUME CleanupForTesting \/ CleanupWoken \/ Shutdown \/ Tick PROVE Stays
    BY <1>7 DEF CleanupForTesting, CleanupWoken, Shutdown, Tick
  <1>8. ASSUME UNCHANGED vars PROVE Stays
    BY <1>8 DEF vars
  <1>9. ASSUME ShutdownCheck
        PROVE  /\ can_shutdown_cv_' \subseteq can_shutdown_cv_ \/ ~CanShutdown
               /\ \A w \in Workers : pc'[w] = pc[w]
    BY <1>9 DEF ShutdownCheck
  <1>10. ASSUME NEW w \in Workers, ExitSignal(w) \/ ExitSignalShutdown(w)
         PROVE  /\ can_shutdown_cv_' \subseteq can_shutdown_cv_
                /\ \A v \in Workers : v # w => pc'[v] = pc[v]
                /\ pc'[w] = "gone" => ExitSignalShutdown(w)
                /\ pc'[w] = "exitShutdown" => ExitSignal(w)
    BY <1>10 DEF ExitSignal, ExitSignalShutdown, Signalled
  <1>11. \/ Stays \/ ShutdownCheck
         \/ \E w \in Workers : ExitSignal(w) \/ ExitSignalShutdown(w)
    <2> HIDE DEF Stays
    <2> QED
      BY <1>1, <1>2, <1>3, <1>4, <1>5, <1>6, <1>7, <1>8
      DEF Next, PostProgress, ThreadLoop, HandleCleanup
  <1> QED
    BY ONLY <1>9, <1>10, <1>11

\* Nobody is in Shutdown() of a new pool.
LEMMA WatchedInit == Init => Watched
  BY DEF Init, Watched

\* The thread in Shutdown() sleeps when a task or a thread keeps it there, and the last
\* worker signals it.
LEMMA WatchedStep ==
  ASSUME FlushInv, Entered, Watched, [Next]_vars PROVE Watched'
  <1>0. BaseTypes /\ Places /\ CountersExact /\ CleanupCounts
    BY DEF FlushInv, IInv
  <1> SUFFICES ASSUME max_threads_ # 0, can_shutdown_cv_' # {}
               PROVE  thread_being_created_' \/ \E w \in Workers : pc'[w] \notin {"unborn", "gone"}
    BY DEF Watched
  <1>1. ASSUME NEW w \in Workers, ExitSignalShutdown(w) PROVE FALSE
    BY <1>0, <1>1 DEF ExitSignalShutdown, Signalled, BaseTypes, PoolTypes
  <1>2. ASSUME NEW w \in Workers, LeaveLoop(w) PROVE pc'[w] \notin {"unborn", "gone"}
    BY <1>0, <1>2 DEF LeaveLoop, BaseTypes, ThreadTypes, Threads
  <1>3. ASSUME NEW w \in Workers, pc[w] \notin {"unborn", "gone"},
               \A v \in Workers : ~LeaveLoop(v)
        PROVE  pc'[w] \notin {"unborn", "gone"}
    <2>1. pc'[w] = "gone" => pc[w] = "gone"
      BY <1>0, <1>1, ShutdownMoves
    <2> QED
      BY <1>0, <1>3, <2>1, LoopKept
  <1>4. ASSUME NEW w \in Workers, ThreadLoopEnter(w) PROVE pc'[w] \notin {"unborn", "gone"}
    BY <1>0, <1>4 DEF ThreadLoopEnter, BaseTypes, ThreadTypes, Threads
  <1>5. thread_being_created_ \/ \E w \in Workers : pc[w] \notin {"unborn", "gone"}
    <2>1. CASE can_shutdown_cv_ # {}
      BY <2>1 DEF Watched
    <2>2. CASE ~CanShutdown
      <3>1. CASE RunningBlocking # {}
        BY <1>0, <3>1 DEF RunningBlocking, Places, RunningPcs
      <3>2. CASE PendingBlocking # {}
        BY <3>2 DEF Entered, InLoop, ExitPcs
      <3> QED
        BY <1>0, <2>2, <3>1, <3>2, CanShutdownMeans
    <2> QED
      BY <1>0, <2>1, <2>2, ShutdownMoves
  <1> QED
    BY <1>0, <1>2, <1>3, <1>4, <1>5, PoolMoves

\* After Shutdown() signalled once there is always a worker that has been woken, or
\* never slept, and has yet to signal the next.
Chain ==
  shutdown_called_ /\ has_work_cv_ # {} =>
    \E w \in Workers : /\ pc[w] \notin {"unborn", "exitShutdown", "gone"}
                       /\ w \notin has_work_cv_

\* Only a worker that finds no work goes to sleep on has_work_cv_.
LEMMA SleepMoves ==
  ASSUME [Next]_vars
  PROVE  has_work_cv_' \subseteq has_work_cv_ \/ \E w \in Workers : WaitForWork(w)
  <1> DEFINE Fewer == has_work_cv_' \subseteq has_work_cv_
  <1> USE DEF innerVars, threadVars, countVars, queueVars, shutdownVars,
     cleanupVars, cvVars, localVars, callVars, historyVars, unchangedByCleanup, Signalled
  <1>1. ASSUME NEW th \in Threads,
               \/ \E t \in Tasks : PostTaskStamp(th, t)
               \/ PostTaskRefuse(th) \/ PostTaskInsert(th) \/ PostTaskStartThread(th)
               \/ PostTaskSignal(th) \/ SpuriousWakeup(th)
        PROVE  Fewer
    BY <1>1 DEF PostTaskStamp, PostTaskRefuse, PostTaskInsert, PostTaskStartThread,
       PostTaskSignal, SpuriousWakeup
  <1>2. ASSUME NEW w \in Workers,
               \/ ThreadLoopEnter(w) \/ GetWorkFound(w) \/ RunSignal(w) \/ RunPurge(w)
               \/ RunSpawn(w) \/ RunFinish(w) \/ DidRunWorkerTask(w) \/ CleanupDelayed(w)
        PROVE  Fewer
    BY <1>2 DEF ThreadLoopEnter, GetWorkFound, RunSignal, RunPurge, RunSpawn, RunFinish,
       DidRunWorkerTask, CleanupDelayed
  <1>3. ASSUME NEW w \in Workers,
               \/ CleanupPurge(w) \/ CleanupDrained(w) \/ WakeUp(w) \/ TimeOut(w)
               \/ LeaveLoop(w) \/ PurgeUnderLock(w) \/ ExitSignal(w) \/ ExitSignalShutdown(w)
        PROVE  Fewer
    BY <1>3 DEF CleanupPurge, CleanupDrained, WakeUp, TimeOut, LeaveLoop, PurgeUnderLock,
       ExitSignal, ExitSignalShutdown
  <1>4. ASSUME NEW w \in Workers,
               \/ LeadCleanup(w) \/ LeadWait(w) \/ LeadRun(w) \/ IdleEnter(w)
               \/ IdleWait(w) \/ IdleLeave(w) \/ FinishWait(w) \/ FinishCleanup(w)
        PROVE  Fewer
    BY <1>4 DEF LeadCleanup, LeadWait, LeadRun, IdleEnter, IdleWait, IdleLeave, FinishWait,
       FinishCleanup
  <1>5. ASSUME CleanupForTesting \/ CleanupWoken \/ Shutdown \/ ShutdownCheck \/ Tick
        PROVE  Fewer
    BY <1>5 DEF CleanupForTesting, CleanupWoken, Shutdown, ShutdownCheck, Tick
  <1>6. ASSUME UNCHANGED vars PROVE Fewer
    BY <1>6 DEF vars
  <1>7. Fewer \/ \E w \in Workers : WaitForWork(w)
    <2> HIDE DEF Fewer
    <2> QED
      BY <1>1, <1>2, <1>3, <1>4, <1>5, <1>6 DEF Next, PostProgress, ThreadLoop, HandleCleanup
  <1> QED
    BY ONLY <1>7

\* A worker that sleeps during a shutdown leaves the blocking task it waits for to the
\* worker that holds the token of its sequence.
LEMMA SleepsForAnother ==
  ASSUME FlushInv, NEW w \in Workers, WaitForWork(w), shutdown_called_
  PROVE  \E v \in Workers : v # w /\ HasTask(v)
  <1>0. BaseTypes /\ Places /\ Times /\ CountersExact /\ TokensHeld
    BY DEF FlushInv, IInv
  <1>1. PendingBlocking # {}
    BY <1>0, FS_EmptySet DEF WaitForWork, MustExit, CountersExact, PendingCountExact
  <1>2. PICK t \in pending_tasks_ : BehaviorOf[t] = "BLOCK"
    BY <1>1 DEF PendingBlocking
  <1>3. ~HasTask(w)
    BY <1>0 DEF WaitForWork, AtGetWork, Places, RunningPcs
  <1>4. ASSUME IsSequenceTokenRunnable(t, current_sequences_) PROVE FALSE
    <2>1. t \in Kept
      BY <1>2, <1>4 DEF Kept, Dropped, Runnable
    <2>2. PICK s \in pending_tasks_ : Future(s)
      BY <2>1 DEF WaitForWork, NotFound
    <2>3. BehaviorOf[s] = "BLOCK" /\ s \in Tasks
      BY <1>0, <2>2 DEF Future, StopsAt, Kept, Dropped, Runnable, BaseTypes, PoolTypes
    <2>4. DelayOf[s] = 0
      BY <2>3, TaskAssumption
    <2>5. time_to_run[s] <= now + DelayOf[s]
      BY <1>0, <2>2, <2>3 DEF Times, Places
    <2>6. time_to_run[s] > now /\ time_to_run[s] \in Int /\ now \in Int
      BY <1>0, <2>2, <2>3 DEF Future, BaseTypes, TaskTypes
    <2> QED
      BY ONLY <2>4, <2>5, <2>6
  <1>5. TokenOf[t] \in current_sequences_
    BY <1>4 DEF IsSequenceTokenRunnable
  <1>6. PICK v \in Workers : HasTask(v)
    BY <1>0, <1>5 DEF TokensHeld
  <1> QED
    BY <1>3, <1>6

\* Nobody sleeps in a new pool.
LEMMA ChainInit == Init => Chain
  BY DEF Init, Chain

\* Each signal is sent by a worker that is awake to one that is then awake, and only a
\* worker that has sent it leaves.
LEMMA ChainStep ==
  ASSUME FlushInv, Asleep, Chain, [Next]_vars PROVE Chain'
  <1> DEFINE On(w) == pc[w] \notin {"unborn", "exitShutdown", "gone"} /\ w \notin has_work_cv_
  <1>0. /\ BaseTypes /\ Places
        /\ has_work_cv_ \subseteq Workers /\ \A w \in has_work_cv_ : pc[w] = "waiting"
    BY DEF FlushInv, IInv, BaseTypes, PoolTypes, Asleep
  <1> SUFFICES ASSUME shutdown_called_', has_work_cv_' # {} PROVE \E w \in Workers : On(w)'
    BY DEF Chain
  <1>1. ASSUME has_work_cv_' \in Signalled(has_work_cv_),
               \A v \in has_work_cv_ : pc'[v] = pc[v]
        PROVE  \E w \in Workers : On(w)'
    <2>1. PICK v \in has_work_cv_ : has_work_cv_' = has_work_cv_ \ {v}
      BY <1>1 DEF Signalled
    <2> QED
      BY <1>0, <1>1, <2>1
  <1>2. CASE Shutdown
    BY <1>0, <1>1, <1>2, ThreadAssumption DEF Shutdown, BaseTypes, ThreadTypes, Threads
  <1>3. ASSUME NEW w \in Workers, ExitSignal(w) PROVE \E v \in Workers : On(v)'
    BY <1>0, <1>1, <1>3, ThreadAssumption DEF ExitSignal, BaseTypes, ThreadTypes, Threads
  <1>4. ASSUME NEW w \in Workers, WaitForWork(w), shutdown_called_
        PROVE  \E v \in Workers : On(v)'
    <2>1. PICK v \in Workers : v # w /\ HasTask(v)
      BY <1>4, SleepsForAnother
    <2>2. pc[v] \in RunningPcs /\ v \notin has_work_cv_
      BY <1>0, <2>1 DEF Places, RunningPcs
    <2>3. pc'[v] = pc[v] /\ has_work_cv_' = has_work_cv_ \cup {w}
      BY <1>0, <1>4, <2>1 DEF WaitForWork, BaseTypes, ThreadTypes, Threads
    <2> QED
      BY <2>1, <2>2, <2>3 DEF RunningPcs
  <1>5. ASSUME NEW w \in Workers, pc[w] \notin {"unborn", "exitShutdown", "gone"},
               \A v \in Workers : ~ExitSignal(v)
        PROVE  pc'[w] \notin {"unborn", "exitShutdown", "gone"}
    <2>1. pc'[w] # "unborn"
      <3>1. ASSUME NEW v \in Workers, LeaveLoop(v) PROVE pc'[w] # "unborn"
        BY <1>0, <1>5, <3>1 DEF LeaveLoop, BaseTypes, ThreadTypes, Threads
      <3> QED
        BY <1>0, <1>5, <3>1, LoopKept
    <2>2. pc'[w] # "exitShutdown"
      BY <1>0, <1>5, ShutdownMoves
    <2>3. pc'[w] = "gone" => ExitSignalShutdown(w)
      BY <1>0, <1>5, ShutdownMoves
    <2> QED
      BY <1>5, <2>1, <2>2, <2>3 DEF ExitSignalShutdown
  <1>6. ASSUME shutdown_called_, has_work_cv_' \subseteq has_work_cv_,
               \A w \in Workers : ~ExitSignal(w)
        PROVE  \E w \in Workers : On(w)'
    <2>1. PICK w \in Workers : On(w)
      BY <1>6 DEF Chain
    <2> QED
      BY <1>5, <1>6, <2>1
  <1>7. shutdown_called_ \/ Shutdown
    BY <1>0, PoolMoves DEF FlushInv, IInv
  <1> HIDE DEF On
  <1> QED
    BY <1>2, <1>3, <1>4, <1>6, <1>7, SleepMoves

\* Where a worker is, from when it counts as neither waiting nor running a task until
\* it decides which of the two it will do.
DecidingPcs == {"loop", "getwork", "purgeWake", "purgeCleanup"}

\* Whatever kept PrepareToStartAdditionalThreadIfHelpful() from starting a thread
\* for a task that could run still stands, unless a worker is about to look again.
Staffing ==
  ~shutdown_called_ /\ cleanup_state_ = "DONE" /\ Runnable # {} =>
    \/ thread_being_created_
    \/ Cardinality(threads_) >= max_threads_
    \/ waiting_thread_count_ # 0
    \/ \E w \in Workers : pc[w] \in DecidingPcs

\* A task that can run has a signal or a thread on its way, a worker that will come to
\* it, or one that sleeps no longer than until it is due, if there is any sleeper.
Manned ==
  ~shutdown_called_ /\ cleanup_state_ = "DONE" =>
    \A t \in Runnable :
      \/ thread_being_created_
      \/ \E th \in Threads : stage[th] = "signal"
      \/ \E w \in Workers : \/ Astir(w)
                            \/ pc[w] = "waiting" /\ deadline[w] <= time_to_run[t]
      \/ waiting_thread_count_ = 0

\* A step that matters to no task that can run.
Undisturbed ==
  /\ UNCHANGED <<pending_tasks_, current_sequences_, thread_being_created_, threads_,
                 waiting_thread_count_, cleanup_state_>>
  /\ \A t \in pending_tasks_ : time_to_run'[t] = time_to_run[t]
  /\ \A th \in Threads : stage[th] = "signal" => stage'[th] = "signal"
  /\ \A w \in Workers : /\ pc[w] \in DecidingPcs => pc'[w] \in DecidingPcs
                        /\ Astir(w) => Astir(w)'
                        /\ pc[w] = "waiting" => pc'[w] = "waiting" /\ deadline'[w] = deadline[w]

\* Posting, signalling, entering the loop or coming round it, going to sleep and waking
\* up matter to it; before a shutdown and outside a flush nothing else does.
LEMMA Disturbances ==
  ASSUME BaseTypes, Places, CleanupCounts, [Next]_vars, ~shutdown_called_',
         cleanup_state_' = "DONE"
  PROVE  \/ Undisturbed
         \/ \E th \in Threads : PostTaskInsert(th) \/ PostTaskSignal(th)
         \/ \E w \in Workers :
              \/ ThreadLoopEnter(w) \/ GetWorkFound(w) \/ RunSignal(w) \/ WaitForWork(w)
              \/ WakeUp(w) \/ DidRunWorkerTask(w) \/ FinishCleanup(w)
  <1> USE ThreadAssumption DEF BaseTypes, ThreadTypes, Threads, innerVars, threadVars,
     countVars, queueVars, shutdownVars, cleanupVars, cvVars, localVars, callVars,
     historyVars, unchangedByCleanup, Undisturbed, Astir, DecidingPcs
  <1>1. ASSUME NEW th \in Threads, NEW t \in Tasks, PostTaskStamp(th, t) PROVE Undisturbed
    BY <1>1 DEF PostTaskStamp, Places, MayPost
  <1>2. ASSUME NEW th \in Threads, PostTaskRefuse(th) \/ SpuriousWakeup(th) PROVE Undisturbed
    BY <1>2 DEF PostTaskRefuse, SpuriousWakeup
  <1>3. ASSUME NEW th \in Threads, PostTaskStartThread(th) PROVE Undisturbed
    BY <1>3 DEF PostTaskStartThread
  <1>4. ASSUME NEW w \in Workers, RunPurge(w) \/ RunFinish(w) \/ TimeOut(w) PROVE Undisturbed
    BY <1>4 DEF RunPurge, RunFinish, TimeOut, AfterPurge
  <1>5. ASSUME NEW w \in Workers, RunSpawn(w) PROVE Undisturbed
    BY <1>5 DEF RunSpawn
  <1>6. ASSUME NEW w \in Workers,
               \/ CleanupPurge(w) \/ PurgeUnderLock(w) \/ ExitSignal(w)
               \/ ExitSignalShutdown(w)
        PROVE  Undisturbed
    BY <1>6 DEF CleanupPurge, PurgeUnderLock, ExitSignal, ExitSignalShutdown, Signalled
  <1>7. ASSUME NEW w \in Workers, CleanupDelayed(w) \/ CleanupDrained(w) \/ LeaveLoop(w)
        PROVE  FALSE
    BY <1>7 DEF CleanupDelayed, CleanupDrained, LeaveLoop, MustExit
  <1>8. ASSUME NEW w \in Workers, LeadCleanup(w) \/ LeadWait(w) \/ LeadRun(w)
        PROVE  FALSE
    BY <1>8 DEF LeadCleanup, LeadWait, LeadRun, CleanupCounts, Leaders
  <1>9. ASSUME NEW w \in Workers, IdleEnter(w) \/ IdleWait(w) \/ IdleLeave(w) \/ FinishWait(w)
        PROVE  FALSE
    BY <1>9, FS_EmptySet
    DEF IdleEnter, IdleWait, IdleLeave, FinishWait, AtFinish, CleanupCounts, Idlers
  <1>10. ASSUME CleanupForTesting \/ Shutdown PROVE Undisturbed
    BY <1>10 DEF CleanupForTesting, Shutdown
  <1>11. ASSUME CleanupWoken \/ ShutdownCheck \/ Tick PROVE Undisturbed
    BY <1>11 DEF CleanupWoken, ShutdownCheck, Tick
  <1>12. ASSUME UNCHANGED vars PROVE Undisturbed
    BY <1>12 DEF vars
  <1> HIDE DEF Undisturbed
  <1> QED
    BY <1>1, <1>2, <1>3, <1>4, <1>5, <1>6, <1>7, <1>8, <1>9, <1>10, <1>11, <1>12
    DEF Next, PostProgress, ThreadLoop, HandleCleanup

\* There is nothing to run in a new pool.
LEMMA StaffingInit == Init => Staffing /\ Manned
  BY DEF Init, Staffing, Manned, Runnable

\* What PrepareToStartAdditionalThreadIfHelpful() says when it starts no thread.
LEMMA NotHelpful ==
  ASSUME BaseTypes, ~shutdown_called_, cleanup_state_ = "DONE", ~thread_being_created_,
         NEW P, NEW K, ~Helpful(P, K)
  PROVE  \/ Cardinality(threads_) >= max_threads_
         \/ waiting_thread_count_ # 0
         \/ \A t \in P : ~IsSequenceTokenRunnable(t, K)
  BY ThreadsFinite, BoundAssumption DEF Helpful

\* Whenever a task is posted or taken, the worker asks for help; in between, a task
\* becomes runnable and a sleeper wakes only where a worker comes round the loop.
LEMMA StaffingStep ==
  ASSUME FlushInv, Staffing, [Next]_vars PROVE Staffing'
  <1>0. BaseTypes /\ Places /\ CleanupCounts /\ waiting_thread_count_ \in Nat
    BY ThreadsAreIn DEF FlushInv, IInv
  <1> SUFFICES ASSUME ~shutdown_called_', cleanup_state_' = "DONE", Runnable' # {}
               PROVE  \/ thread_being_created_'
                      \/ Cardinality(threads_') >= max_threads_
                      \/ waiting_thread_count_' # 0
                      \/ \E w \in Workers : pc'[w] \in DecidingPcs
    BY DEF Staffing
  <1> DEFINE Goal == \/ thread_being_created_'
                     \/ Cardinality(threads_') >= max_threads_
                     \/ waiting_thread_count_' # 0
                     \/ \E w \in Workers : pc'[w] \in DecidingPcs
  <1>1. ~shutdown_called_
    BY ShutdownCalledStays
  <1>2. ASSUME NEW P, NEW K, pending_tasks_' = P, current_sequences_' = K, ~Helpful(P, K),
               ~thread_being_created_,
               UNCHANGED <<threads_, waiting_thread_count_, cleanup_state_>>
        PROVE  Goal
    <2>1. \E t \in P : IsSequenceTokenRunnable(t, K)
      BY <1>2 DEF Runnable, IsSequenceTokenRunnable
    <2> QED
      BY <1>0, <1>1, <1>2, <2>1, NotHelpful
  <1>3. ASSUME NEW th \in Threads, PostTaskInsert(th) PROVE Goal
    <2> DEFINE P == pending_tasks_ \cup {posting[th]}
    <2>1. /\ pending_tasks_' = P /\ current_sequences_' = current_sequences_
          /\ thread_being_created_' = (thread_being_created_ \/ Helpful(P, current_sequences_))
          /\ UNCHANGED <<threads_, waiting_thread_count_, cleanup_state_>>
      BY <1>3 DEF PostTaskInsert, cleanupVars
    <2> HIDE DEF P, Goal
    <2>2. CASE thread_being_created_'
      BY <2>2 DEF Goal
    <2> QED
      BY <1>2, <2>1, <2>2
  <1>4. ASSUME NEW w \in Workers, GetWorkFound(w) PROVE Goal
    <2>1. PICK t \in pending_tasks_ :
            LET K == current_sequences_ \cup ({TokenOf[t]} \ {NoToken})
            IN  /\ pending_tasks_' = Erased(t) /\ current_sequences_' = K
                /\ thread_being_created_' = (thread_being_created_ \/ Helpful(Erased(t), K))
      BY <1>4 DEF GetWorkFound
    <2>2. UNCHANGED <<threads_, waiting_thread_count_, cleanup_state_>>
      BY <1>4 DEF GetWorkFound, cleanupVars
    <2>3. CASE thread_being_created_'
      BY <2>3
    <2> HIDE DEF Goal
    <2> QED
      BY <1>2, <2>1, <2>2, <2>3
  <1>5. ASSUME NEW w \in Workers, WaitForWork(w) PROVE Goal
    BY <1>0, <1>5 DEF WaitForWork
  <1>6. ASSUME NEW w \in Workers,
               ThreadLoopEnter(w) \/ WakeUp(w) \/ DidRunWorkerTask(w) \/ FinishCleanup(w)
        PROVE  Goal
    <2>1. pc'[w] \in DecidingPcs
      BY <1>0, <1>6 DEF ThreadLoopEnter, WakeUp, DidRunWorkerTask, FinishCleanup, Return,
         DecidingPcs, BaseTypes, ThreadTypes, Threads
    <2> QED
      BY <2>1
  <1>7. ASSUME UNCHANGED <<pending_tasks_, current_sequences_, thread_being_created_,
                           threads_, waiting_thread_count_, cleanup_state_>>,
               \A w \in Workers : pc[w] \in DecidingPcs => pc'[w] \in DecidingPcs
        PROVE  Goal
    <2>1. Runnable # {}
      BY <1>7 DEF Runnable, IsSequenceTokenRunnable
    <2> QED
      BY <1>1, <1>7, <2>1 DEF Staffing
  <1>8. ASSUME NEW th \in Threads, PostTaskSignal(th) PROVE Goal
    <2>1. /\ UNCHANGED <<pending_tasks_, current_sequences_, thread_being_created_,
                         threads_, waiting_thread_count_, cleanup_state_>>
          /\ \A w \in Workers : pc'[w] = pc[w]
      BY <1>8 DEF PostTaskSignal, innerVars, threadVars, countVars, queueVars, cleanupVars
    <2> HIDE DEF Goal
    <2> QED
      BY <1>7, <2>1
  <1>9. ASSUME NEW w \in Workers, RunSignal(w) PROVE Goal
    <2>1. UNCHANGED <<pending_tasks_, current_sequences_, thread_being_created_,
                      threads_, waiting_thread_count_, cleanup_state_>>
      BY <1>9 DEF RunSignal, innerVars, threadVars, countVars, queueVars, cleanupVars
    <2>2. \A v \in Workers : pc[v] \in DecidingPcs => pc'[v] \in DecidingPcs
      BY <1>0, <1>9 DEF RunSignal, DecidingPcs, BaseTypes, ThreadTypes, Threads
    <2> HIDE DEF Goal
    <2> QED
      BY <1>7, <2>1, <2>2
  <1>10. ASSUME Undisturbed PROVE Goal
    <2> HIDE DEF Goal
    <2> QED
      BY <1>7, <1>10 DEF Undisturbed
  <1> HIDE DEF Goal
  <1>11. Goal
    BY <1>0, <1>3, <1>4, <1>5, <1>6, <1>8, <1>9, <1>10, Disturbances
  <1> QED
    BY <1>11 DEF Goal

\* After a signal a worker that slept is awake, unless none is waiting.
LEMMA SignalWakes ==
  ASSUME BaseTypes, Asleep, WaitingCountExact, has_work_cv_' \in Signalled(has_work_cv_),
         UNCHANGED waiting_thread_count_,
         \A w \in Workers : pc[w] = "waiting" => pc'[w] = "waiting"
  PROVE  waiting_thread_count_' = 0 \/ \E w \in Workers : Astir(w)'
  <1>1. CASE has_work_cv_ # {}
    <2>1. PICK w \in has_work_cv_ : has_work_cv_' = has_work_cv_ \ {w}
      BY <1>1 DEF Signalled
    <2>2. w \in Workers /\ pc'[w] = "waiting"
      BY DEF BaseTypes, PoolTypes, Asleep
    <2> QED
      BY <2>1, <2>2 DEF Astir
  <1>2. CASE has_work_cv_ = {}
    <2>1. has_work_cv_' = {}
      BY <1>2 DEF Signalled
    <2>2. CASE WaitingWorkers = {}
      BY <2>2, FS_EmptySet DEF WaitingCountExact
    <2>3. CASE WaitingWorkers # {}
      BY <2>1, <2>3 DEF WaitingWorkers, Astir
    <2> QED
      BY <2>2, <2>3
  <1> QED
    BY <1>1, <1>2

\* A worker that goes to sleep sets its alarm for the first of the tasks it leaves, and
\* outside a shutdown it leaves every one that can run.
LEMMA SleepsUntilDue ==
  ASSUME BaseTypes, NEW w \in Workers, WaitForWork(w), ~shutdown_called_,
         NEW t, t \in Runnable'
  PROVE  pc'[w] = "waiting" /\ deadline'[w] <= time_to_run'[t]
  <1>1. Swept = {} /\ Kept = Runnable
    BY DEF Swept, Kept, Dropped
  <1>2. t \in Runnable /\ time_to_run' = time_to_run
    BY <1>1 DEF WaitForWork, Runnable, IsSequenceTokenRunnable
  <1>3. PICK s \in pending_tasks_ :
          Future(s) /\ deadline' = [deadline EXCEPT ![w] = time_to_run[s]]
    BY <1>1, <1>2 DEF WaitForWork, NotFound
  <1>4. s = t \/ Before(s, t)
    BY <1>1, <1>2, <1>3 DEF Future, StopsAt
  <1>5. time_to_run[s] \in Int /\ time_to_run[t] \in Int
    BY <1>2, <1>3 DEF BaseTypes, PoolTypes, TaskTypes, Runnable
  <1>6. deadline'[w] = time_to_run[s]
    BY <1>3 DEF BaseTypes, ThreadTypes
  <1>7. pc'[w] = "waiting"
    BY DEF WaitForWork, BaseTypes, ThreadTypes, Threads
  <1> QED
    BY <1>2, <1>4, <1>5, <1>6, <1>7 DEF Before

\* Every section that makes a task runnable, or takes one, is followed by a signal or by
\* a worker that comes round; whoever goes to sleep sets its alarm.
LEMMA MannedStep ==
  ASSUME FlushInv, Asleep, Manned, [Next]_vars PROVE Manned'
  <1>0. BaseTypes /\ Places /\ CleanupCounts /\ WaitingCountExact
    BY DEF FlushInv, IInv, CountersExact
  <1> SUFFICES ASSUME ~shutdown_called_', cleanup_state_' = "DONE", NEW t \in Runnable'
               PROVE  \/ thread_being_created_'
                      \/ \E th \in Threads : stage'[th] = "signal"
                      \/ \E w \in Workers :
                           \/ Astir(w)'
                           \/ pc'[w] = "waiting" /\ deadline'[w] <= time_to_run'[t]
                      \/ waiting_thread_count_' = 0
    BY DEF Manned
  <1> DEFINE Goal == \/ thread_being_created_'
                     \/ \E th \in Threads : stage'[th] = "signal"
                     \/ \E w \in Workers :
                          \/ Astir(w)'
                          \/ pc'[w] = "waiting" /\ deadline'[w] <= time_to_run'[t]
                     \/ waiting_thread_count_' = 0
  <1>1. ~shutdown_called_
    BY ShutdownCalledStays
  <1>2. ASSUME NEW th \in Threads, PostTaskInsert(th) PROVE Goal
    BY <1>0, <1>2 DEF PostTaskInsert, BaseTypes, ThreadTypes
  <1>3. ASSUME NEW th \in Threads, PostTaskSignal(th) PROVE Goal
    <2>1. /\ has_work_cv_' \in Signalled(has_work_cv_) /\ UNCHANGED waiting_thread_count_
          /\ \A w \in Workers : pc'[w] = pc[w]
      BY <1>3 DEF PostTaskSignal, innerVars, countVars
    <2> QED
      BY <1>0, <2>1, SignalWakes
  <1>4. ASSUME NEW w \in Workers, RunSignal(w) PROVE Goal
    <2>1. /\ has_work_cv_' \in Signalled(has_work_cv_) /\ UNCHANGED waiting_thread_count_
          /\ \A v \in Workers : pc[v] = "waiting" => pc'[v] = "waiting"
      BY <1>0, <1>4 DEF RunSignal, innerVars, countVars, BaseTypes, ThreadTypes, Threads
    <2> QED
      BY <1>0, <2>1, SignalWakes
  <1>5. ASSUME NEW w \in Workers,
               \/ ThreadLoopEnter(w) \/ GetWorkFound(w) \/ WakeUp(w) \/ DidRunWorkerTask(w)
               \/ FinishCleanup(w)
        PROVE  Goal
    <2>1. pc'[w] \in {"loop", "getwork", "picked", "purgeWake"}
      BY <1>0, <1>5 DEF ThreadLoopEnter, GetWorkFound, WakeUp, DidRunWorkerTask,
         FinishCleanup, Return, BaseTypes, ThreadTypes, Threads
    <2> QED
      BY <2>1 DEF Astir
  <1>6. ASSUME NEW w \in Workers, WaitForWork(w) PROVE Goal
    BY <1>0, <1>1, <1>6, SleepsUntilDue
  <1>7. ASSUME Undisturbed PROVE Goal
    <2>1. t \in Runnable /\ cleanup_state_ = "DONE" /\ time_to_run'[t] = time_to_run[t]
      BY <1>7 DEF Undisturbed, Runnable, IsSequenceTokenRunnable
    <2>2. \/ thread_being_created_
          \/ \E th \in Threads : stage[th] = "signal"
          \/ \E w \in Workers : \/ Astir(w)
                                \/ pc[w] = "waiting" /\ deadline[w] <= time_to_run[t]
          \/ waiting_thread_count_ = 0
      BY <1>1, <2>1 DEF Manned
    <2> HIDE DEF Astir
    <2> QED
      BY <1>7, <2>1, <2>2 DEF Undisturbed
  <1> HIDE DEF Goal
  <1>8. Goal
    BY <1>0, <1>2, <1>3, <1>4, <1>5, <1>6, <1>7, Disturbances
  <1> QED
    BY <1>8 DEF Goal

\* What the wake-ups rest on, on top of the invariant of a flush.
WakeInv ==
  /\ FlushInv
  /\ Asleep /\ Entered /\ Watched /\ Chain /\ Staffing /\ Manned

\* The initial state satisfies it, and every step keeps it.
LEMMA WakeInvInductive == (Init => WakeInv) /\ (WakeInv /\ [Next]_vars => WakeInv')
  <1>1. Init => WakeInv
    BY FlushInvInductive, AsleepInit, EnteredInit, WatchedInit, ChainInit, StaffingInit
    DEF WakeInv
  <1>2. ASSUME WakeInv, [Next]_vars PROVE WakeInv'
    <2>1. FlushInv'
      BY <1>2, FlushInvInductive DEF WakeInv
    <2>2. Asleep'
      BY <1>2, AsleepStep DEF WakeInv, FlushInv, IInv
    <2>3. Entered' /\ Watched'
      BY <1>2, EnteredStep, WatchedStep DEF WakeInv
    <2>4. Chain' /\ Staffing' /\ Manned'
      BY <1>2, ChainStep, StaffingStep, MannedStep DEF WakeInv
    <2> QED
      BY <2>1, <2>2, <2>3, <2>4 DEF WakeInv
  <1> QED
    BY <1>1, <1>2

\* Once max_threads_ threads are in the pool and none waits, each of them has a task or
\* is about to look for one.
LEMMA TasksAreAttended ==
  ASSUME WakeInv PROVE TasksAttended
  <1>0. /\ BaseTypes /\ Places /\ WaitingCountExact /\ CleanupCounts /\ FlushInv
        /\ threads_ = {w \in Workers : pc[w] \notin {"unborn", "starting"}}
    BY DEF WakeInv, FlushInv, IInv, CountersExact, OneCreation
  <1> SUFFICES ASSUME ~shutdown_called_, cleanup_state_ = "DONE", NEW t \in Runnable
               PROVE  \/ thread_being_created_
                      \/ \E th \in Threads : stage[th] = "signal"
                      \/ \E w \in Workers : \/ Astir(w)
                                            \/ pc[w] = "waiting" /\ deadline[w] <= time_to_run[t]
                      \/ Cardinality({w \in Workers : HasTask(w)}) >= max_threads_
    BY DEF TasksAttended
  <1>1. SUFFICES ASSUME ~thread_being_created_, \A w \in Workers : ~Astir(w),
                        waiting_thread_count_ = 0
                 PROVE  Cardinality({w \in Workers : HasTask(w)}) >= max_threads_
    BY DEF WakeInv, Manned
  <1>2. Cardinality(threads_) >= max_threads_
    BY <1>1 DEF WakeInv, Staffing, DecidingPcs, Astir
  <1>3. ASSUME NEW w \in threads_ PROVE HasTask(w)
    <2>1. WaitingWorkers = {}
      BY <1>0, <1>1, CountedFinite, FS_EmptySet DEF WaitingCountExact
    <2>2. Idlers = {} /\ Leaders = {} /\ cleanup_idlers_ = 0
      BY <1>0, FS_EmptySet DEF CleanupCounts
    <2>3. w \in Workers /\ pc[w] \in WorkerPcs \ {"unborn", "starting"}
      BY <1>0 DEF BaseTypes, ThreadTypes
    <2>4. pc[w] \notin ExitPcs
      BY <2>3 DEF WakeInv, Entered
    <2>5. pc[w] = "finishing" => Astir(w)
      BY <2>2, <2>3 DEF WakeInv, Asleep, Astir
    <2>6. pc[w] \in RunningPcs
      BY <1>1, <2>1, <2>2, <2>3, <2>4, <2>5
      DEF WorkerPcs, ExitPcs, Astir, WaitingWorkers, Idlers, Leaders, RunningPcs
    <2> QED
      BY <1>0, <2>3, <2>6 DEF Places
  <1>4. {w \in Workers : HasTask(w)} = threads_
    BY <1>0, <1>3 DEF Places, RunningPcs
  <1> QED
    BY <1>2, <1>4

\* Signals of one sleeper at a time, sent outside the lock, are enough: no task that can
\* run, and after Shutdown() no sleeping worker and no thread in Shutdown(), is left
\* without someone who will come to it or signal it (SignalHasWork(), ThreadLoop(),
\* Shutdown()).
THEOREM NoWakeUpLost == Spec => []NoLostWakeUp
  <1>1. WakeInv => TasksAttended
    BY TasksAreAttended
  <1>2. ASSUME WakeInv, shutdown_called_
        PROVE  \A w \in Workers : w \notin cleanup_cv_
    BY <1>2, NoCleanupInShutdown DEF WakeInv, FlushInv, IInv
  <1>3. ASSUME WakeInv PROVE ExitsAttended
    BY <1>2, <1>3 DEF WakeInv, Chain, ExitsAttended, Leaving
  <1>4. ASSUME WakeInv PROVE ShutdownAttended
    <2> SUFFICES ASSUME max_threads_ # 0, can_shutdown_cv_ # {}, ~thread_being_created_
                 PROVE  \E w \in Workers : Leaving(w) \/ pc[w] = "exitShutdown"
      BY DEF ShutdownAttended
    <2>1. PICK w \in Workers : pc[w] \notin {"unborn", "gone"}
      BY <1>4 DEF WakeInv, Watched
    <2>2. shutdown_called_
      BY <1>4 DEF WakeInv, Asleep
    <2>3. CASE w \in has_work_cv_
      BY <1>3, <1>4, <2>2, <2>3 DEF ExitsAttended
    <2>4. CASE w \notin has_work_cv_
      BY <1>2, <1>4, <2>1, <2>2, <2>4 DEF Leaving
    <2> QED
      BY <2>3, <2>4
  <1>5. WakeInv => NoLostWakeUp
    BY <1>1, <1>3, <1>4 DEF NoLostWakeUp
  <1> QED
    BY <1>5, WakeInvInductive, PTL DEF Spec
=============================================================================
