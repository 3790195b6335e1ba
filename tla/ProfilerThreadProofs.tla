------------------------ MODULE ProfilerThreadProofs ------------------------
(***************************************************************************)
(* Theorems of ProfilerThread.                                             *)
(***************************************************************************)
EXTENDS ProfilerThread, TLAPS

\* What a sequence holds after an element is appended,
LEMMA RangeOfAppend ==
  ASSUME NEW S, NEW s \in Seq(S), NEW e \in S
  PROVE  Range(Append(s, e)) = Range(s) \cup {e}
  <1>1. \A i \in 1 .. Len(s) : Append(s, e)[i] = s[i]
    OBVIOUS
  <1>2. Append(s, e)[Len(s) + 1] = e
    OBVIOUS
  <1>3. DOMAIN Append(s, e) = (1 .. Len(s)) \cup {Len(s) + 1}
    OBVIOUS
  <1> QED
    BY <1>1, <1>2, <1>3 DEF Range

\* and after its head is taken.
LEMMA RangeOfTail ==
  ASSUME NEW S, NEW s \in Seq(S), s # <<>>
  PROVE  /\ Tail(s) \in Seq(S) /\ Head(s) \in S
         /\ Range(Tail(s)) \subseteq Range(s)
         /\ Head(s) \in Range(s)
  <1>1. /\ Tail(s) \in Seq(S) /\ Head(s) \in S
        /\ Len(Tail(s)) = Len(s) - 1 /\ Len(s) \in Nat \ {0}
    OBVIOUS
  <1>2. \A i \in 1 .. Len(s) - 1 : Tail(s)[i] = s[i + 1]
    OBVIOUS
  <1>3. Range(Tail(s)) \subseteq Range(s)
    BY <1>1, <1>2 DEF Range
  <1>4. Head(s) = s[1] /\ 1 \in DOMAIN s
    OBVIOUS
  <1> QED
    BY <1>1, <1>3, <1>4 DEF Range

-----------------------------------------------------------------------------
\* Types.

\* Which values the locals have where they are used.
Locals ==
  /\ \A p \in Threads : stage[p] # "idle" => closure[p] \in Tasks
  /\ \A p \in Threads : stage[p] \in {"compare", "post"} => found[p] \in Objects
  /\ \A o \in Objects : at[o] = "task" => task[o] \in Tasks
  /\ doing # "nothing" => subject \in Objects

Types == TypeOK /\ Locals

\* The state that ProfilerMain() starts in is within the types.
LEMMA TypesInit == Init => Types
  BY ObjectAssumption, IdAssumption
  DEF Init, Types, TypeOK, RegistryTypes, LoopTypes, MainTypes, PosterTypes,
      HistoryTypes, Locals, Threads, Ids, UI, Places, Stages, Outcomes

\* PostTaskHelper() changes its own locals, the lock, and at its end a queue.
LEMMA PostTypes ==
  ASSUME Types, NEW p \in Threads,
         (\E i \in Ids, t \in Tasks : PostTask(p, i, t)) \/ Posting(p)
  PROVE  PosterTypes' /\ Locals' /\ RegistryTypes' /\ LoopTypes' /\ HistoryTypes'
  <1> USE ObjectAssumption, IdAssumption
      DEF Types, TypeOK, Threads, Ids, UI, Stages, Outcomes, registryVars, loopVars,
          uiVars, postVars, historyVars, unchangedByPost
  <1>1. ASSUME NEW i \in Ids, NEW t \in Tasks, PostTask(p, i, t)
        PROVE  /\ PosterTypes' /\ HistoryTypes' /\ Locals'
               /\ UNCHANGED <<registryVars, loopVars>>
    BY <1>1 DEF PostTask, PosterTypes, HistoryTypes, Locals
  <1>2. ASSUME Scan(p)
        PROVE  PosterTypes' /\ Locals' /\ UNCHANGED <<registryVars, loopVars, historyVars>>
    <2>1. index[p] \in Ids /\ profiler_threads_[index[p]] \in Objects \cup {NoObject}
      BY <1>2 DEF Scan, PosterTypes, RegistryTypes
    <2>2. CASE profiler_threads_[index[p]] = NoObject
      BY <1>2, <2>1, <2>2 DEF Scan, NextIdentifier, PosterTypes, Locals
    <2>3. CASE profiler_threads_[index[p]] # NoObject
      BY <1>2, <2>1, <2>3 DEF Scan, PosterTypes, Locals
    <2> QED
      BY <2>2, <2>3
  <1>3. ASSUME Compare(p)
        PROVE  PosterTypes' /\ Locals' /\ UNCHANGED <<registryVars, loopVars, historyVars>>
    BY <1>3 DEF Compare, NextIdentifier, PosterTypes, Locals
  <1>4. ASSUME Acquire(p)
        PROVE  PosterTypes' /\ Locals' /\ RegistryTypes' /\ UNCHANGED <<loopVars, historyVars>>
    BY <1>4 DEF Acquire, PosterTypes, RegistryTypes, Locals
  <1>5. ASSUME ReadLoop(p)
        PROVE  PosterTypes' /\ Locals' /\ UNCHANGED <<registryVars, loopVars, historyVars>>
    BY <1>5 DEF ReadLoop, HasLoop, PosterTypes, RegistryTypes, Locals
  <1>6. ASSUME ReadNull(p)
        PROVE  /\ PosterTypes' /\ Locals' /\ RegistryTypes' /\ HistoryTypes'
               /\ UNCHANGED loopVars
    BY <1>6 DEF ReadNull, Return, PosterTypes, RegistryTypes, HistoryTypes, Locals
  <1>7. ASSUME Post(p)
        PROVE  PosterTypes' /\ Locals' /\ RegistryTypes' /\ LoopTypes' /\ HistoryTypes'
    <2>1. PosterTypes' /\ Locals' /\ RegistryTypes'
      BY <1>7 DEF Post, Return, PosterTypes, RegistryTypes, Locals
    <2>2. found[p] \in Objects /\ closure[p] \in Tasks
      BY <1>7 DEF Post, Locals
    <2>3. LoopTypes'
      <3>1. queue[found[p]] \in Seq(Tasks \cup {Quit})
        BY <2>2 DEF LoopTypes
      <3>2. Append(queue[found[p]], closure[p]) \in Seq(Tasks \cup {Quit})
        BY <2>2, <3>1
      <3>3. queue' \in [Objects -> Seq(Tasks \cup {Quit})]
        BY <1>7, <3>2 DEF Post, LoopTypes
      <3> QED
        BY <1>7, <3>3 DEF Post, LoopTypes
    <2>4. HistoryTypes'
      BY <1>7, <2>2 DEF Post, Return, HistoryTypes
    <2> QED
      BY <2>1, <2>3, <2>4
  <1>8. ASSUME UNCHANGED registryVars PROVE RegistryTypes'
    BY <1>8 DEF RegistryTypes
  <1>9. ASSUME UNCHANGED loopVars PROVE LoopTypes'
    BY <1>9 DEF LoopTypes
  <1>10. ASSUME UNCHANGED historyVars PROVE HistoryTypes'
    BY <1>10 DEF HistoryTypes
  <1> QED
    BY <1>1, <1>2, <1>3, <1>4, <1>5, <1>6, <1>7, <1>8, <1>9, <1>10 DEF Posting

\* The steps of a thread take tasks from its own queue.
LEMMA ThreadTypes ==
  ASSUME Types, NEW o \in Objects, ThreadMain(o)
  PROVE  Types'
  <1> USE ObjectAssumption
      DEF Types, TypeOK, Threads, Ids, UI, Places, Outcomes, registryVars, loopVars, uiVars,
          postVars, historyVars, unchangedByThread
  <1>1. queue[o] # <<>> => /\ Tail(queue[o]) \in Seq(Tasks \cup {Quit})
                           /\ Head(queue[o]) \in Tasks \cup {Quit}
    BY RangeOfTail DEF LoopTypes
  <1>2. at' \in [Objects -> Places] /\ quitting' \in [Objects -> BOOLEAN]
    BY DEF ThreadMain, Enter, RunTask, EndTask, QuitWhenIdle, Idle, Leave, Clear, DeleteTask,
         Deleted, Reload, AfterReload, Exit, LoopTypes
  <1>3. LoopTypes'
    <2>1. queue' \in [Objects -> Seq(Tasks \cup {Quit})]
      <3>1. queue' = queue \/ (queue[o] # <<>> /\ queue' = [queue EXCEPT ![o] = Tail(@)])
        BY DEF ThreadMain, Enter, RunTask, EndTask, QuitWhenIdle, Idle, Leave, Clear, DeleteTask,
           Deleted, Reload, Exit
      <3> QED
        BY <1>1, <3>1 DEF LoopTypes
    <2>2. task' \in [Objects -> Tasks \cup {NoTask}]
      BY <1>1 DEF ThreadMain, Enter, RunTask, EndTask, QuitWhenIdle, Idle, Leave, Clear,
         DeleteTask, Deleted, Reload, Exit, LoopTypes
    <2>3. taken' \in [Objects -> Nat] /\ passes' \in [Objects -> 0 .. MaxPasses]
      <3>1. CASE DeleteTask(o)
        BY <3>1 DEF DeleteTask, LoopTypes
      <3>2. CASE Reload(o)
        <4>1. Len(queue[o]) \in Nat
          BY DEF LoopTypes
        <4>2. passes[o] + 1 \in 0 .. MaxPasses
          BY <3>2, IdAssumption DEF Reload, LoopTypes
        <4> QED
          BY <3>2, <4>1, <4>2 DEF Reload, LoopTypes
      <3>3. CASE UNCHANGED <<taken, passes>>
        BY <3>3 DEF LoopTypes
      <3> QED
        BY <3>1, <3>2, <3>3 DEF ThreadMain, Enter, RunTask, EndTask, QuitWhenIdle, Idle,
           Leave, Clear, Deleted, Exit
    <2> QED
      BY <1>2, <2>1, <2>2, <2>3 DEF LoopTypes
  <1>4. RegistryTypes'
    BY DEF ThreadMain, Enter, RunTask, EndTask, QuitWhenIdle, Idle, Leave, Clear, DeleteTask,
         Deleted, Reload, Exit, RegistryTypes
  <1>5. HistoryTypes'
    <2>1. ASSUME RunTask(o) \/ DeleteTask(o)
          PROVE  HistoryTypes'
      BY <1>1, <2>1 DEF RunTask, DeleteTask, HistoryTypes
    <2>2. ASSUME EndTask(o)
          PROVE  HistoryTypes'
      BY <2>2 DEF EndTask, HistoryTypes, Locals
    <2>3. ASSUME UNCHANGED historyVars
          PROVE  HistoryTypes'
      BY <2>3 DEF HistoryTypes, historyVars
    <2> QED
      BY <2>1, <2>2, <2>3 DEF ThreadMain, Enter, QuitWhenIdle, Idle, Leave, Clear, Deleted,
         Reload, Exit
  <1>6. PosterTypes' /\ MainTypes'
    BY DEF ThreadMain, Enter, RunTask, EndTask, QuitWhenIdle, Idle, Leave, Clear, DeleteTask,
         Deleted, Reload, Exit, PosterTypes, MainTypes
  <1>7. Locals'
    BY <1>1 DEF ThreadMain, Enter, RunTask, EndTask, QuitWhenIdle, Idle, Leave, Clear, DeleteTask,
         Deleted, Reload, AfterReload, Exit, LoopTypes, Locals
  <1> QED
    BY <1>3, <1>4, <1>5, <1>6, <1>7

\* What the UI thread does besides.
UIThread == ProfilerMain \/ Shutdown \/ \E i \in Ids : ResetThread(i)

\* It starts, stops and frees the object that it has taken for subject.
LEMMA UITypes ==
  ASSUME Types, UIThread
  PROVE  Types'
  <1> USE ObjectAssumption, IdAssumption
      DEF Types, TypeOK, Threads, Ids, UI, Places, registryVars, loopVars, uiVars,
          postVars, historyVars, unchangedByMain, StepAfter
  <1> DEFINE Goal == RegistryTypes' /\ at' \in [Objects -> Places] /\ MainTypes' /\ Locals'
  <1>1. ASSUME NEW i \in Ids, NEW o \in Objects, CreateThread(i, o)
        PROVE  Goal
    BY <1>1 DEF CreateThread, RegistryTypes, LoopTypes, MainTypes, Locals
  <1>2. ASSUME NEW i \in Ids, ResetThread(i)
        PROVE  Goal
    BY <1>2 DEF ResetThread, RegistryTypes, LoopTypes, MainTypes, Locals
  <1>3. ASSUME StartThread
        PROVE  Goal
    BY <1>3 DEF StartThread, RegistryTypes, LoopTypes, MainTypes, Locals
  <1>4. ASSUME Started
        PROVE  Goal
    BY <1>4 DEF Started, RegistryTypes, LoopTypes, MainTypes, Locals
  <1>5. ASSUME RunUIMessageLoop \/ Shutdown
        PROVE  Goal
    <2>1. /\ UNCHANGED <<lock_, profiler_threads_, life, identifier_, message_loop_, stage,
                         closure, found, task, created_, thread_, doing, subject>>
          /\ phase' \in {"run", "shutdown"}
          /\ at' = at \/ at' = [at EXCEPT ![Main] = "left"]
      BY <1>5 DEF RunUIMessageLoop, Shutdown
    <2>2. RegistryTypes' /\ MainTypes'
      BY <2>1 DEF RegistryTypes, MainTypes
    <2>3. at' \in [Objects -> Places]
      BY <2>1 DEF LoopTypes
    <2>4. Locals'
      BY <2>1 DEF LoopTypes, Locals
    <2> QED
      BY <2>2, <2>3, <2>4
  <1>6. ASSUME DestroyNext
        PROVE  Goal
    BY <1>6 DEF DestroyNext, RegistryTypes, LoopTypes, MainTypes, Locals
  <1>7. ASSUME StopSoon \/ Join
        PROVE  Goal
    BY <1>7 DEF StopSoon, Join, RegistryTypes, LoopTypes, MainTypes, Locals
  <1>8. ASSUME Unregister
        PROVE  Goal
    BY <1>8 DEF Unregister, RegistryTypes, LoopTypes, MainTypes, Locals
  <1>9. ASSUME FreeObject
        PROVE  Goal
    BY <1>9 DEF FreeObject, RegistryTypes, LoopTypes, MainTypes, Locals
  <1>10. queue' \in [Objects -> Seq(Tasks \cup {Quit})]
    <2>1. CASE StopSoon
      <3>1. subject \in Objects
        BY <2>1 DEF StopSoon, Locals
      <3>2. queue[subject] \in Seq(Tasks \cup {Quit})
        BY <3>1 DEF LoopTypes
      <3>3. Append(queue[subject], Quit) \in Seq(Tasks \cup {Quit})
        BY <3>2
      <3> QED
        BY <2>1, <3>3 DEF StopSoon, LoopTypes
    <2>2. CASE UNCHANGED queue
      BY <2>2 DEF LoopTypes
    <2> QED
      BY <2>1, <2>2
      DEF UIThread, ProfilerMain, CreateThread, StartThread, Started, RunUIMessageLoop,
          DestroyNext, Join, Unregister, FreeObject, ResetThread, Shutdown
  <1>11. /\ UNCHANGED <<quitting, task, passes, postVars, historyVars>>
         /\ taken' \in [Objects -> Nat]
    <2>1. UNCHANGED taken \/ \E n \in Nat : taken' = [taken EXCEPT ![Main] = n]
      <3>1. CASE Shutdown
        <4>1. Len(queue[Main]) \in Nat
          BY DEF LoopTypes
        <4>2. \A n \in 0 .. Len(queue[Main]) : n \in Nat
          BY <4>1
        <4> QED
          BY <3>1, <4>2 DEF Shutdown
      <3> QED
        BY <3>1 DEF UIThread, ProfilerMain, CreateThread, StartThread, Started,
           RunUIMessageLoop, DestroyNext, StopSoon, Join, Unregister, FreeObject, ResetThread
    <2>2. taken' \in [Objects -> Nat]
      BY <2>1 DEF LoopTypes
    <2> QED
      BY <2>2 DEF UIThread, ProfilerMain, CreateThread, StartThread, Started, RunUIMessageLoop,
           DestroyNext, StopSoon, Join, Unregister, FreeObject, ResetThread, Shutdown
  <1>12. PosterTypes' /\ HistoryTypes'
    BY <1>11 DEF PosterTypes, HistoryTypes
  <1>13. Goal
    BY <1>1, <1>2, <1>3, <1>4, <1>5, <1>6, <1>7, <1>8, <1>9 DEF UIThread, ProfilerMain
  <1> QED
    BY <1>10, <1>11, <1>12, <1>13 DEF LoopTypes

\* A step is one of posting, of a thread, or of the UI thread.
LEMMA TypesStep == Types /\ [Next]_vars => Types'
  <1> SUFFICES ASSUME Types, [Next]_vars
               PROVE  Types'
    OBVIOUS
  <1>1. ASSUME NEW p \in Threads,
               (\E i \in Ids, t \in Tasks : PostTask(p, i, t)) \/ Posting(p)
        PROVE  Types'
    <2>1. UNCHANGED uiVars
      BY <1>1 DEF PostTask, Posting, Scan, Compare, Acquire, ReadLoop, ReadNull, Post,
         unchangedByPost
    <2>2. MainTypes'
      BY <2>1 DEF Types, TypeOK, MainTypes, uiVars
    <2> QED
      BY <1>1, <2>2, PostTypes DEF Types, TypeOK
  <1>2. CASE UNCHANGED vars
    BY <1>2 DEF vars, Types, TypeOK, RegistryTypes, LoopTypes, MainTypes, PosterTypes,
       HistoryTypes, Locals, registryVars, loopVars, uiVars, postVars, historyVars
  <1> QED
    BY <1>1, <1>2, ThreadTypes, UITypes DEF Next, UIThread

-----------------------------------------------------------------------------
\* The inductive invariant.

\* The thread of o exists.
Live(o) == at[o] \notin {"none", "exited"}

\* The UI thread constructs or destroys o.
Busy(o) == doing # "nothing" /\ subject = o

\* Which objects are in the registry and in the fields of ProfilerProcess.
Registered ==
  /\ \A i \in Ids : LET o == profiler_threads_[i] IN o # NoObject =>
       /\ life[o] = "alive" /\ identifier_[o] = i
       /\ o = Main \/ thread_[i] = o \/ Busy(o)
  /\ \A i \in Ids : LET o == thread_[i] IN o # NoObject =>
       /\ o # Main /\ life[o] = "alive" /\ identifier_[o] = i
       /\ created_[i] \/ Busy(o)
       /\ profiler_threads_[i] = o \/ (doing = "free" /\ subject = o)
  /\ \A o \in Objects : life[o] = "unborn" => at[o] = "none" /\ ~Busy(o)
  /\ \A o \in Objects \ {Main} : life[o] # "unborn" => identifier_[o] \in Created
  /\ \A o \in Objects \ {Main} : Live(o) => profiler_threads_[identifier_[o]] = o

\* How far the construction or destruction of an object is.
Progress ==
  /\ doing \in {"start", "wait"} =>
       /\ created_[identifier_[subject]] /\ subject # Main /\ life[subject] = "alive"
  /\ doing \in {"start", "wait", "stop", "join", "unregister"} =>
       profiler_threads_[identifier_[subject]] = subject
  /\ doing = "free" =>
       profiler_threads_[identifier_[subject]] = NoObject /\ life[subject] = "alive"
  /\ doing \in {"stop", "join"} => subject # Main
  /\ doing = "start" => at[subject] = "none"
  /\ doing \in {"unregister", "free"} => subject = Main \/ ~Live(subject)

\* The UI thread and its object.
MainThread ==
  /\ identifier_[Main] = UI /\ life[Main] # "unborn"
  /\ phase # "over" =>
       /\ life[Main] = "alive" /\ at[Main] \in {"loop", "task", "left"}
       /\ profiler_threads_[UI] = Main \/ (doing = "free" /\ subject = Main)
  /\ at[Main] = "task" => phase \in {"run", "reset"}
  /\ Busy(Main) => phase = "shutdown" /\ \A i \in Ids : thread_[i] = NoObject
  /\ phase \in {"run", "over"} => doing = "nothing"
  /\ phase = "over" => \A i \in Ids : profiler_threads_[i] = NoObject

\* The thread of an object whose thread is being stopped is the only one that leaves
\* its loop, and no thread that is to die before it is left.
Stopping ==
  /\ \A o \in Objects \ {Main} :
       (\/ RunsNoMore(o)
        \/ at[o] # "exited" /\ (quitting[o] \/ Quit \in Range(queue[o])))
         => doing = "join" /\ subject = o
  /\ ~quitting[Main] /\ Quit \notin Range(queue[Main])
  /\ doing # "nothing" /\ subject # Main =>
       \A q \in Objects \ {Main} : Live(q) => identifier_[q] <= identifier_[subject]
  /\ \A o \in Objects \ {Main} : message_loop_[o] <=> at[o] \in {"loop", "task", "idle", "left"}
  /\ message_loop_[Main]

\* Tasks that are found in a loop that has quit came late.
Late ==
  \A o \in Objects \ {Main} :
    RunsNoMore(o) => Range(queue[o]) \subseteq late

\* What a thread that posts has seen.
Posters ==
  /\ \A p \in Objects : stage[p] # "idle" =>
       IF p = Main
       THEN phase = "run" \/ (phase = "over" /\ at[Main] = "deleting")
       ELSE at[p] \in {"task", "deleting"}
  /\ \A p \in Threads : stage[p] = "compare" =>
       life[found[p]] # "unborn" /\ identifier_[found[p]] = index[p]
  /\ \A p \in Objects : stage[p] \in {"read", "post"} /\ lock_ # p =>
       target[p] <= identifier_[p]
  /\ \A p \in Threads : stage[p] = "post" /\ (p \in Objects \/ lock_ = p) =>
       /\ identifier_[found[p]] = target[p]
       /\ profiler_threads_[target[p]] = found[p]
       /\ lock_ # p => Live(found[p])

\* In which order the threads are created.
Ascending ==
  \A i, j \in Created : created_[j] /\ ~created_[i] => j <= i

\* What a known thread has seen when it looks for itself in the registry: it finds itself
\* at the latest under its own identifier, unless it has no loop any more. In that case
\* the UI thread waits for it.
Scanners ==
  \A p \in Objects :
    /\ stage[p] \in {"scan", "compare"} => index[p] <= identifier_[p] \/ at[p] = "deleting"
    /\ stage[p] = "compare" =>
         /\ life[found[p]] = "alive"
         /\ index[p] = identifier_[p] /\ at[p] # "deleting" => found[p] = p

IInv ==
  /\ Types /\ Registered /\ Progress /\ MainThread /\ Stopping /\ Late
  /\ Posters /\ Ascending /\ Scanners

\* Initially the invariant holds.
LEMMA IInvInit == Init => IInv
  <1> SUFFICES ASSUME Init
               PROVE  IInv
    OBVIOUS
  <1> USE ObjectAssumption, IdAssumption DEF Init, Ids, UI, Threads
  <1>1. Types
    BY TypesInit
  <1>2. Registered
    BY DEF Registered, Busy, Live
  <1>3. Progress /\ MainThread /\ Posters /\ Ascending /\ Scanners
    BY DEF Progress, MainThread, Posters, Ascending, Scanners, Busy
  <1>4. \A o \in Objects : Range(queue[o]) = {}
    BY DEF Range
  <1>5. Stopping /\ Late
    BY <1>4 DEF Stopping, Late, Live, RunsNoMore
  <1> QED
    BY <1>1, <1>2, <1>3, <1>5 DEF IInv

-----------------------------------------------------------------------------
\* The registry.

\* A thread that takes a step exists, and goes on to exist or exits.
LEMMA ThreadPlaces ==
  ASSUME Types, NEW o \in Objects, ThreadMain(o)
  PROVE  /\ at[o] \notin {"none", "exited"}
         /\ \E x \in Places \ {"none"} : at' = [at EXCEPT ![o] = x]
         /\ UNCHANGED <<lock_, profiler_threads_, life, identifier_, uiVars, postVars, late,
                        missed>>
  <1> USE DEF Types, TypeOK, LoopTypes, Places, unchangedByThread
  <1>1. at[o] \notin {"none", "exited"} /\ UNCHANGED unchangedByThread
    BY DEF ThreadMain, Enter, RunTask, EndTask, QuitWhenIdle, Idle, Leave, Clear, DeleteTask,
       Deleted, Reload, Exit, Ready
  <1>2. at' = at \/ \E x \in Places \ {"none"} : at' = [at EXCEPT ![o] = x]
    BY DEF ThreadMain, Enter, RunTask, EndTask, QuitWhenIdle, Idle, Leave, Clear, DeleteTask,
       Deleted, Reload, AfterReload, Exit
  <1>3. at = [at EXCEPT ![o] = at[o]] /\ at[o] \in Places
    OBVIOUS
  <1> QED
    BY <1>1, <1>2, <1>3

\* Posting changes nothing that the registry's part is about.
LEMMA PostRegistry ==
  ASSUME IInv, NEW p \in Threads,
         (\E i \in Ids, t \in Tasks : PostTask(p, i, t)) \/ Posting(p)
  PROVE  Registered' /\ Progress' /\ MainThread'
  <1>1. UNCHANGED <<profiler_threads_, life, identifier_, at, uiVars>>
    BY DEF PostTask, Posting, Scan, Compare, Acquire, ReadLoop, ReadNull, Post,
       unchangedByPost, registryVars, loopVars
  <1>2. IInv /\ UNCHANGED <<profiler_threads_, life, identifier_, at, phase, created_,
                            thread_, doing, subject>>
    BY <1>1 DEF uiVars
  <1>3. Registered'
    BY <1>2 DEF IInv, Registered, Live, Busy
  <1>4. Progress'
    BY <1>2 DEF IInv, Progress, Live
  <1>5. MainThread'
    BY <1>2 DEF IInv, MainThread, Busy
  <1> QED
    BY <1>3, <1>4, <1>5

\* A thread's steps do not start a thread.
LEMMA ThreadRegistry ==
  ASSUME IInv, NEW o \in Objects, ThreadMain(o)
  PROVE  Registered' /\ Progress' /\ MainThread'
  <1> USE ObjectAssumption
  <1>1. Types
    BY DEF IInv
  <1>2. /\ at[o] \notin {"none", "exited"}
        /\ \E x \in Places \ {"none"} : at' = [at EXCEPT ![o] = x]
        /\ UNCHANGED <<profiler_threads_, life, identifier_, phase, created_,
                       thread_, doing, subject>>
    BY <1>1, ThreadPlaces DEF uiVars
  <1>3. at \in [Objects -> Places]
    BY <1>1 DEF Types, TypeOK, LoopTypes
  <1>4. \A q \in Objects : /\ at[q] = "none" <=> at'[q] = "none"
                           /\ at'[q] \notin {"none", "exited"} => Live(q)
    BY <1>2, <1>3 DEF Live
  <1>5. doing # "nothing" => subject \in Objects
    BY <1>1 DEF Types, Locals
  <1>6. identifier_ \in [Objects -> Ids]
    BY <1>1 DEF Types, TypeOK, RegistryTypes
  <1>7. Registered'
    BY <1>2, <1>4 DEF IInv, Registered, Live, Busy
  <1>8. Progress'
    BY <1>2, <1>4, <1>5 DEF IInv, Progress, Live
  <1>9. MainThread'
    <2>1. UNCHANGED at[Main] \/ (o = Main /\ phase = "run" /\ at'[Main] \in {"loop", "task"})
                             \/ phase = "over"
      <3>1. ASSUME o = Main, phase # "over"
            PROVE  UNCHANGED at[Main] \/ (phase = "run" /\ at'[Main] \in {"loop", "task"})
        <4>1. at[Main] \in {"loop", "task", "left"} /\ ~quitting[Main]
          BY <3>1 DEF IInv, MainThread, Stopping
        <4> QED
          BY <1>3, <3>1, <4>1
          DEF ThreadMain, Enter, RunTask, EndTask, QuitWhenIdle, Idle, Leave, Clear, DeleteTask,
              Deleted, Reload, Exit, Ready, Quits
      <3>2. o # Main => UNCHANGED at[Main]
        BY <1>2, <1>3
      <3> QED
        BY <3>1, <3>2
    <2>2. phase = "over" => at'[Main] # "task"
      <3>1. CASE o = Main /\ phase = "over"
        <4>1. at[Main] # "task"
          BY <3>1 DEF IInv, MainThread
        <4> QED
          BY <1>3, <3>1, <4>1
          DEF ThreadMain, Enter, RunTask, EndTask, QuitWhenIdle, Idle, Leave, Clear, DeleteTask,
              Deleted, Reload, AfterReload, Exit, Ready
      <3>2. CASE o # Main /\ phase = "over"
        <4>1. at[Main] # "task"
          BY <3>2 DEF IInv, MainThread
        <4> QED
          BY <1>2, <1>3, <3>2, <4>1
      <3> QED
        BY <3>1, <3>2
    <2> QED
      BY <1>2, <2>1, <2>2 DEF IInv, MainThread, Busy
  <1> QED
    BY <1>7, <1>8, <1>9

\* The constructor registers an object under an identifier that is free; the destructor
\* takes it from there, and then the object is freed.
LEMMA UIRegistry ==
  ASSUME IInv, UIThread
  PROVE  Registered' /\ Progress' /\ MainThread'
  <1> USE ObjectAssumption, IdAssumption
      DEF StepAfter, Live, Busy
  <1> DEFINE Goal == Registered' /\ Progress' /\ MainThread'
  <1>1. /\ Types /\ Registered /\ Progress /\ MainThread /\ Stopping
        /\ at \in [Objects -> Places] /\ life \in [Objects -> {"unborn", "alive", "deleted"}]
        /\ identifier_ \in [Objects -> Ids]
        /\ profiler_threads_ \in [Ids -> Objects \cup {NoObject}]
        /\ thread_ \in [Ids -> Objects \cup {NoObject}] /\ created_ \in [Ids -> BOOLEAN]
        /\ doing # "nothing" => subject \in Objects
    BY DEF IInv, Types, TypeOK, Locals, RegistryTypes, LoopTypes, MainTypes
  <1>2. ASSUME NEW i \in Ids, NEW o \in Objects, CreateThread(i, o)
        PROVE  Goal
    <2>1. /\ phase \in {"setup", "reset"} /\ doing = "nothing" /\ i \in Created /\ ~created_[i]
          /\ life[o] = "unborn" /\ at[o] = "none" /\ o # Main /\ i # UI
          /\ created_' = [created_ EXCEPT ![i] = TRUE]
          /\ life' = [life EXCEPT ![o] = "alive"]
          /\ identifier_' = [identifier_ EXCEPT ![o] = i]
          /\ profiler_threads_' = [profiler_threads_ EXCEPT ![i] = o]
          /\ doing' = "start" /\ subject' = o
          /\ UNCHANGED <<at, phase, thread_>>
      BY <1>1, <1>2 DEF CreateThread, NextCreated, MainThread, Registered
    <2>2. profiler_threads_[i] = NoObject
      BY <1>1, <2>1 DEF Registered, MainThread
    <2>3. Registered'
      BY <1>1, <2>1, <2>2 DEF Registered
    <2>4. Progress'
      BY <1>1, <2>1 DEF Progress
    <2>5. MainThread'
      BY <1>1, <2>1 DEF MainThread
    <2> QED
      BY <2>3, <2>4, <2>5
  <1>3. ASSUME StartThread
        PROVE  Goal
    <2>1. /\ doing = "start" /\ subject \in Objects \ {Main} /\ at[subject] = "none"
          /\ life[subject] = "alive"
          /\ \/ doing' = "wait" /\ at' = [at EXCEPT ![subject] = "entry"]
             \/ doing' = "unregister" /\ UNCHANGED at
          /\ UNCHANGED <<profiler_threads_, life, identifier_, phase, created_, thread_, subject>>
      BY <1>1, <1>3 DEF StartThread, Progress
    <2>2. Registered'
      BY <1>1, <2>1 DEF Registered, Progress
    <2>3. Progress'
      BY <1>1, <2>1 DEF Progress
    <2>4. MainThread'
      BY <1>1, <2>1 DEF MainThread
    <2> QED
      BY <2>2, <2>3, <2>4
  <1>4. ASSUME Started
        PROVE  Goal
    <2>1. /\ doing = "wait" /\ subject \in Objects \ {Main}
          /\ thread_' = [thread_ EXCEPT ![identifier_[subject]] = subject]
          /\ doing' = "nothing" /\ subject' = NoObject
          /\ UNCHANGED <<profiler_threads_, life, identifier_, at, phase, created_>>
          /\ life[subject] = "alive" /\ created_[identifier_[subject]]
          /\ profiler_threads_[identifier_[subject]] = subject
      BY <1>1, <1>4 DEF Started, Progress
    <2>2. Registered'
      BY <1>1, <2>1 DEF Registered
    <2>3. Progress'
      BY <1>1, <2>1 DEF Progress
    <2>4. MainThread'
      BY <1>1, <2>1 DEF MainThread
    <2> QED
      BY <2>2, <2>3, <2>4
  <1>5. ASSUME RunUIMessageLoop
        PROVE  Goal
    BY <1>1, <1>5 DEF RunUIMessageLoop, Registered, Progress, MainThread
  <1>6. ASSUME NEW i \in Ids, ResetThread(i)
        PROVE  Goal
    <2>1. /\ phase = "run" /\ doing = "nothing" /\ phase' = "reset"
          /\ created_' = [created_ EXCEPT ![i] = FALSE]
          /\ subject' = thread_[i]
          /\ doing' = IF thread_[i] = NoObject THEN "nothing" ELSE "stop"
          /\ UNCHANGED <<profiler_threads_, life, identifier_, at, thread_>>
      BY <1>1, <1>6 DEF ResetThread, MainThread
    <2>2. Registered'
      BY <1>1, <2>1 DEF Registered
    <2>3. Progress'
      <3>1. thread_[i] # NoObject =>
              profiler_threads_[identifier_[thread_[i]]] = thread_[i] /\ thread_[i] # Main
        BY <1>1, <2>1 DEF Registered
      <3> QED
        BY <1>1, <2>1, <3>1 DEF Progress
    <2>4. MainThread'
      BY <1>1, <2>1 DEF MainThread, Registered
    <2> QED
      BY <2>2, <2>3, <2>4
  <1>7. ASSUME Shutdown
        PROVE  Goal
    <2>1. /\ phase = "run" /\ doing = "nothing" /\ phase' = "shutdown" /\ at[Main] = "loop"
          /\ at' = [at EXCEPT ![Main] = "left"]
          /\ UNCHANGED <<profiler_threads_, life, identifier_, created_, thread_, doing, subject>>
      BY <1>1, <1>7 DEF Shutdown, MainThread
    <2>2. Registered'
      BY <1>1, <2>1 DEF Registered, MainThread
    <2> QED
      BY <1>1, <2>1, <2>2 DEF Progress, MainThread
  <1>8. ASSUME DestroyNext
        PROVE  Goal
    <2>1. /\ phase = "shutdown" /\ doing = "nothing"
          /\ UNCHANGED <<profiler_threads_, life, identifier_, at, phase, created_, thread_>>
          /\ \/ /\ doing' = "stop"
                /\ \E i \in Ids : thread_[i] # NoObject /\ subject' = thread_[i]
             \/ /\ doing' = "unregister" /\ subject' = Main
                /\ \A i \in Ids : thread_[i] = NoObject
      BY <1>8 DEF DestroyNext
    <2>2. Registered'
      BY <1>1, <2>1 DEF Registered, MainThread
    <2>3. Progress' /\ MainThread'
      <3>1. CASE doing' = "stop"
        BY <1>1, <2>1, <3>1 DEF Registered, Progress, MainThread
      <3>2. CASE doing' = "unregister"
        BY <1>1, <2>1, <3>2 DEF Registered, Progress, MainThread
      <3> QED
        BY <2>1, <3>1, <3>2
    <2> QED
      BY <2>2, <2>3
  <1>9. ASSUME StopSoon \/ Join
        PROVE  Goal
    <2>1. /\ \/ doing = "stop" /\ doing' = "join"
             \/ doing = "join" /\ doing' = "unregister" /\ at[subject] = "exited"
          /\ UNCHANGED <<profiler_threads_, life, identifier_, at, phase, created_, thread_,
                         subject>>
      BY <1>9 DEF StopSoon, Join, Joins
    <2> QED
      BY <1>1, <2>1 DEF Registered, Progress, MainThread
  <1>10. ASSUME Unregister
         PROVE  Goal
    <2>1. /\ doing = "unregister" /\ doing' = "free" /\ subject \in Objects
          /\ profiler_threads_' = [profiler_threads_ EXCEPT ![identifier_[subject]] = NoObject]
          /\ UNCHANGED <<life, identifier_, at, phase, created_, thread_, subject>>
          /\ profiler_threads_[identifier_[subject]] = subject
          /\ subject = Main \/ ~Live(subject)
      BY <1>1, <1>10 DEF Unregister, Progress
    <2>2. Registered'
      BY <1>1, <2>1 DEF Registered
    <2>3. life[subject] = "alive"
      BY <1>1, <2>1 DEF Registered
    <2>4. Progress'
      BY <1>1, <2>1, <2>3 DEF Progress
    <2>5. MainThread'
      BY <1>1, <2>1 DEF MainThread
    <2> QED
      BY <2>2, <2>4, <2>5
  <1>11. ASSUME FreeObject
         PROVE  Goal
    <2>1. /\ doing = "free" /\ subject \in Objects
          /\ life' = [life EXCEPT ![subject] = "deleted"]
          /\ thread_' = [thread_ EXCEPT ![identifier_[subject]] = NoObject]
          /\ doing' = "nothing" /\ subject' = NoObject
          /\ \/ subject = Main /\ phase' = "over" /\ at' = [at EXCEPT ![Main] = "cleared"]
             \/ subject # Main /\ UNCHANGED <<phase, at>>
          /\ UNCHANGED <<profiler_threads_, identifier_, created_>>
          /\ profiler_threads_[identifier_[subject]] = NoObject
      BY <1>1, <1>11 DEF FreeObject, Progress
    <2>2. /\ \A i \in Ids : profiler_threads_[i] # subject
          /\ \A i \in Ids : i # identifier_[subject] => thread_[i] # subject
      BY <1>1, <2>1 DEF Registered
    <2>3. Registered'
      BY <1>1, <2>1, <2>2 DEF Registered, MainThread
    <2>4. Progress'
      BY <1>1, <2>1 DEF Progress
    <2>5. MainThread'
      BY <1>1, <2>1 DEF Registered, MainThread
    <2> QED
      BY <2>3, <2>4, <2>5
  <1> QED
    BY <1>2, <1>3, <1>4, <1>5, <1>6, <1>7, <1>8, <1>9, <1>10, <1>11 DEF UIThread, ProfilerMain

-----------------------------------------------------------------------------
\* Stopping a thread.

\* A task that is posted is not the one that quits, and comes late to a loop that was left.
LEMMA PostStopping ==
  ASSUME IInv, NEW p \in Threads,
         (\E i \in Ids, t \in Tasks : PostTask(p, i, t)) \/ Posting(p)
  PROVE  Stopping' /\ Late'
  <1> USE ObjectAssumption
  <1>1. CASE Post(p)
    <2>1. /\ found[p] \in Objects /\ closure[p] \in Tasks
          /\ queue \in [Objects -> Seq(Tasks \cup {Quit})]
          /\ at \in [Objects -> Places]
          /\ Stopping /\ Late
      BY <1>1 DEF Post, IInv, Types, TypeOK, LoopTypes, Locals
    <2> DEFINE o == found[p]
               t == closure[p]
    <2>2. /\ UNCHANGED <<at, quitting, message_loop_, doing, subject, identifier_>>
          /\ \/ /\ queue' = [queue EXCEPT ![o] = Append(queue[o], t)]
                /\ late' = IF RunsNoMore(o) THEN late \cup {t} ELSE late
             \/ UNCHANGED <<queue, late>>
      BY <1>1 DEF Post, unchangedByPost, uiVars
    <2>3. Range(Append(queue[o], t)) = Range(queue[o]) \cup {t}
      <3>1. queue[o] \in Seq(Tasks \cup {Quit}) /\ t \in Tasks \cup {Quit}
        BY <2>1
      <3> QED
        BY <3>1, RangeOfAppend
    <2>4. \A q \in Objects : Quit \in Range(queue'[q]) => Quit \in Range(queue[q])
      BY <2>1, <2>2, <2>3
    <2>5. Stopping'
      BY <2>1, <2>2, <2>4 DEF Stopping, Live, RunsNoMore
    <2>6. Late'
      <3>1. late \subseteq late'
        BY <2>2
      <3>2. \A q \in Objects : q # o => Range(queue'[q]) = Range(queue[q])
        BY <2>1, <2>2
      <3>3. RunsNoMore(o) => Range(queue'[o]) \subseteq Range(queue[o]) \cup late'
        BY <2>1, <2>2, <2>3
      <3> QED
        BY <2>1, <2>2, <3>1, <3>2, <3>3 DEF Late, RunsNoMore
    <2> QED
      BY <2>5, <2>6
  <1>2. ASSUME UNCHANGED <<at, quitting, message_loop_, doing, subject, identifier_, queue, late>>
        PROVE  Stopping' /\ Late'
    <2>1. Stopping /\ Late
      BY DEF IInv
    <2>2. Stopping'
      BY <1>2, <2>1 DEF Stopping, Live, RunsNoMore
    <2>3. Late'
      BY <1>2, <2>1 DEF Late, RunsNoMore
    <2> QED
      BY <2>2, <2>3
  <1> QED
    BY <1>1, <1>2
    DEF PostTask, Posting, Scan, Compare, Acquire, ReadLoop, ReadNull, unchangedByPost,
        registryVars, loopVars, uiVars, historyVars

\* A thread leaves its loop after it has run the task that quits, and when it has none.
LEMMA ThreadStopping ==
  ASSUME IInv, NEW o \in Objects, ThreadMain(o)
  PROVE  Stopping' /\ Late'
  <1> USE ObjectAssumption
  <1>1. /\ Types /\ Stopping /\ Late
        /\ at \in [Objects -> Places] /\ quitting \in [Objects -> BOOLEAN]
        /\ message_loop_ \in [Objects -> BOOLEAN]
        /\ queue \in [Objects -> Seq(Tasks \cup {Quit})]
        /\ UNCHANGED <<identifier_, doing, subject, late>>
    BY ThreadPlaces DEF IInv, Types, TypeOK, LoopTypes, RegistryTypes, uiVars
  <1>2. queue[o] # <<>> => /\ Range(Tail(queue[o])) \subseteq Range(queue[o])
                           /\ Head(queue[o]) \in Range(queue[o])
    <2>1. queue[o] \in Seq(Tasks \cup {Quit})
      BY <1>1
    <2> QED
      BY <2>1, RangeOfTail
  <1>3. at[o] \notin {"none", "exited"}
    BY <1>1, ThreadPlaces
  <1>4. \A q \in Objects : /\ Range(queue'[q]) \subseteq Range(queue[q])
                           /\ q # o => /\ at'[q] = at[q] /\ quitting'[q] = quitting[q]
                                       /\ message_loop_'[q] = message_loop_[q]
    <2>1. queue' = queue \/ (queue[o] # <<>> /\ queue' = [queue EXCEPT ![o] = Tail(@)])
      BY DEF ThreadMain, Enter, RunTask, EndTask, QuitWhenIdle, Idle, Leave, Clear, DeleteTask,
         Deleted, Reload, Exit
    <2>2. \A q \in Objects : Range(queue'[q]) \subseteq Range(queue[q])
      BY <1>1, <1>2, <2>1
    <2>3. \A q \in Objects : q # o => /\ at'[q] = at[q] /\ quitting'[q] = quitting[q]
                                      /\ message_loop_'[q] = message_loop_[q]
      BY <1>1 DEF ThreadMain, Enter, RunTask, EndTask, QuitWhenIdle, Idle, Leave, Clear, DeleteTask,
         Deleted, Reload, Exit
    <2> QED
      BY <2>2, <2>3
  <1>5. quitting'[o] => quitting[o] \/ Quit \in Range(queue[o])
    BY <1>1, <1>2
    DEF ThreadMain, Enter, RunTask, EndTask, QuitWhenIdle, Idle, Leave, Clear, DeleteTask,
        Deleted, Reload, Exit
  <1>6. RunsNoMore(o)' => RunsNoMore(o) \/ (quitting[o] /\ queue'[o] = <<>>)
    BY <1>1
    DEF ThreadMain, Enter, RunTask, EndTask, QuitWhenIdle, Idle, Leave, Clear, DeleteTask,
        Deleted, Reload, Exit, Quits, RunsNoMore, AfterReload
  <1>7. /\ o # Main => (message_loop_'[o] <=> at'[o] \in {"loop", "task", "idle", "left"})
        /\ message_loop_'[Main]
    BY <1>1
    DEF ThreadMain, Enter, RunTask, EndTask, QuitWhenIdle, Idle, Leave, Clear, DeleteTask,
        Deleted, Reload, Exit, Stopping, Ready, AfterReload
  <1>8. \A q \in Objects : Live(q)' => Live(q)
    BY <1>3, <1>4 DEF Live
  <1>9. Stopping'
    <2>1. \A q \in Objects : Quit \in Range(queue'[q]) => Quit \in Range(queue[q])
      BY <1>4
    <2>2. \A q \in Objects \ {Main} :
            (\/ RunsNoMore(q)'
             \/ at'[q] # "exited" /\ (quitting'[q] \/ Quit \in Range(queue'[q])))
              => doing = "join" /\ subject = q
      BY <1>1, <1>3, <1>4, <1>5, <1>6, <2>1 DEF Stopping, RunsNoMore
    <2>3. ~quitting'[Main] /\ Quit \notin Range(queue'[Main])
      BY <1>1, <1>4, <1>5, <2>1 DEF Stopping
    <2>4. /\ \A q \in Objects \ {Main} :
               message_loop_'[q] <=> at'[q] \in {"loop", "task", "idle", "left"}
          /\ message_loop_'[Main]
      BY <1>1, <1>4, <1>7 DEF Stopping
    <2>5. doing # "nothing" /\ subject # Main =>
            \A q \in Objects \ {Main} : Live(q)' => identifier_[q] <= identifier_[subject]
      BY <1>1, <1>8 DEF Stopping
    <2> QED
      BY <1>1, <2>2, <2>3, <2>4, <2>5 DEF Stopping
  <1>10. Late'
    <2>1. queue'[o] = <<>> => Range(queue'[o]) = {}
      BY DEF Range
    <2> QED
      BY <1>1, <1>4, <1>6, <2>1 DEF Late, RunsNoMore
  <1> QED
    BY <1>9, <1>10

\* The thread that is stopped is the one with the greatest identifier.
LEMMA UIStopping ==
  ASSUME IInv, UIThread
  PROVE  Stopping' /\ Late'
  <1> USE ObjectAssumption, IdAssumption
      DEF StepAfter, RunsNoMore
  <1> DEFINE Goal == Stopping' /\ Late'
  <1>1. /\ Types /\ Registered /\ Progress /\ MainThread /\ Stopping /\ Late /\ Ascending
        /\ at \in [Objects -> Places] /\ life \in [Objects -> {"unborn", "alive", "deleted"}]
        /\ identifier_ \in [Objects -> Ids]
        /\ queue \in [Objects -> Seq(Tasks \cup {Quit})]
        /\ thread_ \in [Ids -> Objects \cup {NoObject}]
        /\ doing # "nothing" => subject \in Objects
    BY DEF IInv, Types, TypeOK, Locals, RegistryTypes, LoopTypes, MainTypes
  <1>2. UNCHANGED <<message_loop_, quitting, late>>
    BY DEF UIThread, ProfilerMain, CreateThread, StartThread, Started, RunUIMessageLoop,
       DestroyNext, StopSoon, Join, Unregister, FreeObject, ResetThread, Shutdown,
       unchangedByMain, historyVars
  <1>3. ASSUME NEW i \in Ids, NEW o \in Objects, CreateThread(i, o)
        PROVE  Goal
    <2>1. /\ doing = "nothing" /\ doing' = "start" /\ subject' = o /\ UNCHANGED <<at, queue>>
          /\ i \in Created /\ ~created_[i] /\ at[o] = "none"
          /\ identifier_' = [identifier_ EXCEPT ![o] = i]
      BY <1>1, <1>3 DEF CreateThread, NextCreated, Registered
    <2>2. \A q \in Objects \ {Main} : Live(q) => identifier_[q] \in Created
      BY <1>1 DEF Registered, Live
    <2>3. \A q \in Objects \ {Main} : Live(q) => created_[identifier_[q]]
      BY <1>1, <2>1 DEF Registered, Busy
    <2>4. \A q \in Objects \ {Main} : Live(q) => identifier_'[q] <= i
      BY <1>1, <2>1, <2>2, <2>3 DEF Ascending, Live
    <2>5. identifier_'[o] = i
      BY <1>1, <2>1
    <2> QED
      BY <1>1, <1>2, <2>1, <2>4, <2>5 DEF Stopping, Late, Live
  <1>4. ASSUME StartThread
        PROVE  Goal
    <2>1. /\ doing = "start" /\ doing' \in {"wait", "unregister"}
          /\ UNCHANGED <<queue, subject, identifier_>>
          /\ subject \in Objects \ {Main} /\ at[subject] = "none"
          /\ at' = [at EXCEPT ![subject] = "entry"] \/ UNCHANGED at
      BY <1>1, <1>4 DEF StartThread, Progress
    <2>2. \A q \in Objects : at'[q] = at[q] \/ (q = subject /\ at'[q] = "entry")
      BY <1>1, <2>1
    <2>3. identifier_[subject] <= identifier_[subject]
      BY <1>1, <2>1 DEF Ids
    <2>4. Stopping'
      BY <1>1, <1>2, <2>1, <2>2, <2>3 DEF Stopping, Live
    <2>5. Late'
      BY <1>1, <1>2, <2>1, <2>2 DEF Late
    <2> QED
      BY <2>4, <2>5
  <1>5. ASSUME Started \/ RunUIMessageLoop
        PROVE  Goal
    <2>1. /\ doing # "join" /\ doing' = "nothing"
          /\ UNCHANGED <<at, queue>>
      BY <1>5 DEF Started, RunUIMessageLoop
    <2> QED
      BY <1>1, <1>2, <2>1 DEF Stopping, Late
  <1>6. ASSUME NEW i \in Ids, ResetThread(i)
        PROVE  Goal
    <2>1. /\ doing = "nothing" /\ i \in Replaced /\ UNCHANGED <<at, queue, identifier_>>
          /\ subject' = thread_[i]
          /\ doing' = IF thread_[i] = NoObject THEN "nothing" ELSE "stop"
      BY <1>1, <1>6 DEF ResetThread, MainThread
    <2>2. \A q \in Objects \ {Main} : Live(q) => identifier_[q] <= i
      BY <1>1, <2>1 DEF Registered, Live
    <2>3. thread_[i] # NoObject => identifier_[thread_[i]] = i
      BY <1>1 DEF Registered
    <2> QED
      BY <1>1, <1>2, <2>1, <2>2, <2>3 DEF Stopping, Late, Live
  <1>7. ASSUME Shutdown
        PROVE  Goal
    <2>1. /\ doing = "nothing" /\ doing' = "nothing" /\ UNCHANGED queue
          /\ at' = [at EXCEPT ![Main] = "left"]
      BY <1>1, <1>7 DEF Shutdown, MainThread
    <2> QED
      BY <1>1, <1>2, <2>1 DEF Stopping, Late
  <1>8. ASSUME DestroyNext
        PROVE  Goal
    <2>1. doing = "nothing" /\ UNCHANGED <<at, queue, identifier_>>
      BY <1>8 DEF DestroyNext
    <2>2. CASE doing' = "unregister"
      <3>1. subject' = Main
        BY <1>8, <2>2 DEF DestroyNext, StepAfter
      <3> QED
        BY <1>1, <1>2, <2>1, <2>2, <3>1 DEF Stopping, Late, Live
    <2>3. ASSUME NEW i \in Ids, thread_[i] # NoObject, StoppedNext(i), subject' = thread_[i],
                 doing' = "stop"
          PROVE  Goal
      <3>1. \A q \in Objects \ {Main} : Live(q) => thread_[identifier_[q]] = q
        BY <1>1, <2>1 DEF Registered, Busy
      <3>2. \A q \in Objects \ {Main} : Live(q) => identifier_[q] <= i
        BY <1>1, <2>3, <3>1 DEF StoppedNext
      <3>3. identifier_[thread_[i]] = i
        BY <1>1, <2>3 DEF Registered
      <3> QED
        BY <1>1, <1>2, <2>1, <2>3, <3>2, <3>3 DEF Stopping, Late, Live
    <2> QED
      BY <1>8, <2>2, <2>3 DEF DestroyNext
  <1>9. ASSUME StopSoon
        PROVE  Goal
    <2>1. /\ doing = "stop" /\ doing' = "join" /\ subject \in Objects \ {Main}
          /\ queue' = [queue EXCEPT ![subject] = Append(@, Quit)]
          /\ UNCHANGED <<at, subject, identifier_>>
      BY <1>1, <1>9 DEF StopSoon, Progress
    <2>2. \A q \in Objects : q # subject => Range(queue'[q]) = Range(queue[q])
      BY <1>1, <2>1
    <2>3. Stopping'
      BY <1>1, <1>2, <2>1, <2>2 DEF Stopping, Live
    <2>4. \A q \in Objects \ {Main} : ~RunsNoMore(q)
      BY <1>1, <2>1 DEF Stopping
    <2>5. Late'
      BY <2>1, <2>4 DEF Late
    <2> QED
      BY <2>3, <2>5
  <1>10. ASSUME Join
         PROVE  Goal
    <2>1. /\ doing = "join" /\ doing' = "unregister" /\ at[subject] = "exited"
          /\ UNCHANGED <<at, queue, subject, identifier_>>
      BY <1>10 DEF Join, Joins
    <2> QED
      BY <1>1, <1>2, <2>1 DEF Stopping, Late, Live
  <1>11. ASSUME Unregister
         PROVE  Goal
    <2>1. /\ doing = "unregister" /\ doing' = "free" /\ UNCHANGED <<at, queue, subject, identifier_>>
      BY <1>11 DEF Unregister
    <2> QED
      BY <1>1, <1>2, <2>1 DEF Stopping, Late, Live
  <1>12. ASSUME FreeObject
         PROVE  Goal
    <2>1. /\ doing = "free" /\ doing' = "nothing" /\ UNCHANGED <<queue, identifier_>>
          /\ at' = [at EXCEPT ![Main] = "cleared"] \/ UNCHANGED at
      BY <1>12 DEF FreeObject
    <2> QED
      BY <1>1, <1>2, <2>1 DEF Stopping, Late, Live
  <1> QED
    BY <1>3, <1>4, <1>5, <1>6, <1>7, <1>8, <1>9, <1>10, <1>11, <1>12 DEF UIThread, ProfilerMain

-----------------------------------------------------------------------------
\* Posting.

\* What one thread reads while it posts is as another thread's posting leaves it.
LEMMA PostPosters ==
  ASSUME IInv, NEW p \in Threads,
         (\E i \in Ids, t \in Tasks : PostTask(p, i, t)) \/ Posting(p)
  PROVE  Posters'
  <1> USE ObjectAssumption DEF Threads
  <1>1. /\ Types /\ Registered /\ MainThread /\ Stopping /\ Posters
        /\ stage \in [Threads -> Stages] /\ target \in [Threads -> Ids]
        /\ index \in [Threads -> 0 .. ID_COUNT]
        /\ found \in [Threads -> Objects \cup {NoObject}]
        /\ identifier_ \in [Objects -> Ids] /\ at \in [Objects -> Places]
        /\ profiler_threads_ \in [Ids -> Objects \cup {NoObject}]
        /\ stage[p] \in {"scan", "compare"} => index[p] \in Ids
        /\ stage[p] \in {"compare", "post"} => found[p] \in Objects
    BY DEF IInv, Types, TypeOK, Locals, RegistryTypes, LoopTypes, PosterTypes
  <1>2. UNCHANGED <<profiler_threads_, life, identifier_, at, phase>>
    BY DEF PostTask, Posting, Scan, Compare, Acquire, ReadLoop, ReadNull, Post,
       unchangedByPost, registryVars, loopVars, uiVars
  <1>3. ASSUME NEW q \in Threads, q # p
        PROVE  /\ stage'[q] = stage[q] /\ target'[q] = target[q] /\ index'[q] = index[q]
               /\ found'[q] = found[q]
               /\ lock_' = q <=> lock_ = q
    BY <1>1, <1>3 DEF PostTask, Posting, Scan, Compare, Acquire, ReadLoop, ReadNull, Post,
       NextIdentifier, Return, unchangedByPost, registryVars
  <1>4. p \in Objects /\ stage'[p] # "idle" =>
          IF p = Main THEN phase = "run" \/ (phase = "over" /\ at[Main] = "deleting")
                      ELSE at[p] \in {"task", "deleting"}
    <2>1. CASE stage[p] # "idle"
      BY <1>1, <2>1 DEF Posters
    <2>2. CASE stage[p] = "idle"
      <3>1. p \in Objects => MayPost(p)
        BY <2>2 DEF PostTask, Posting, Scan, Compare, Acquire, ReadLoop, ReadNull, Post
      <3> QED
        BY <1>1, <3>1 DEF MayPost, MainThread
    <2> QED
      BY <2>1, <2>2
  <1>5. stage'[p] = "compare" => life[found'[p]] # "unborn" /\ identifier_[found'[p]] = index'[p]
    <2>1. stage'[p] = "compare" =>
            /\ stage[p] = "scan" /\ profiler_threads_[index[p]] # NoObject
            /\ found'[p] = profiler_threads_[index[p]] /\ index'[p] = index[p]
      BY <1>1 DEF PostTask, Posting, Scan, Compare, Acquire, ReadLoop, ReadNull, Post,
         NextIdentifier, Return
    <2> QED
      BY <1>1, <2>1 DEF Registered
  <1>6. p \in Objects /\ stage'[p] \in {"read", "post"} /\ lock_' # p =>
          target'[p] <= identifier_[p]
    <2>1. CASE stage[p] = "read"
      BY <1>1, <2>1 DEF Posters, PostTask, Posting, Scan, Compare, Acquire, ReadLoop, ReadNull,
         Post, MayPost, Return, unchangedByPost
    <2>2. CASE Compare(p) /\ p \in Objects /\ stage'[p] = "read"
      <3>1. SameLoop(p, found[p]) /\ Outlives(index[p], target[p]) /\ target' = target
        BY <1>1, <2>2 DEF Compare, NextIdentifier, unchangedByPost
      <3>2. p = found[p] /\ identifier_[p] = index[p]
        BY <1>1, <2>2, <3>1 DEF SameLoop, Posters, Compare
      <3> QED
        BY <1>1, <3>1, <3>2 DEF Outlives, Ids
    <2>3. stage'[p] \in {"read", "post"} /\ lock_' # p => stage[p] = "read" \/ Compare(p)
      BY <1>1 DEF PostTask, Posting, Scan, Acquire, ReadLoop, ReadNull, Post,
         NextIdentifier, Return
    <2>4. Compare(p) => stage'[p] # "post"
      BY <1>1 DEF Compare, NextIdentifier
    <2> QED
      BY <2>1, <2>2, <2>3, <2>4
  <1>7. stage'[p] = "post" /\ (p \in Objects \/ lock_' = p) =>
          /\ identifier_[found'[p]] = target'[p]
          /\ profiler_threads_[target'[p]] = found'[p]
          /\ lock_' # p => Live(found'[p])
    <2>1. stage'[p] = "post" =>
            /\ target' = target /\ found'[p] = profiler_threads_[target[p]]
            /\ HasLoop(profiler_threads_[target[p]])
      BY <1>1 DEF PostTask, Posting, Scan, Compare, Acquire, ReadLoop, ReadNull, Post,
         NextIdentifier, Return, unchangedByPost
    <2>2. \A i \in Ids : HasLoop(profiler_threads_[i]) =>
            identifier_[profiler_threads_[i]] = i /\ Live(profiler_threads_[i])
      BY <1>1 DEF Registered, MainThread, Stopping, HasLoop, Live
    <2> QED
      BY <1>1, <2>1, <2>2
  <1> DEFINE Seen(q) ==
        /\ q \in Objects /\ stage'[q] # "idle" =>
             IF q = Main THEN phase = "run" \/ (phase = "over" /\ at[Main] = "deleting")
                         ELSE at[q] \in {"task", "deleting"}
        /\ stage'[q] = "compare" =>
             life[found'[q]] # "unborn" /\ identifier_[found'[q]] = index'[q]
        /\ q \in Objects /\ stage'[q] \in {"read", "post"} /\ lock_' # q =>
             target'[q] <= identifier_[q]
        /\ stage'[q] = "post" /\ (q \in Objects \/ lock_' = q) =>
             /\ identifier_[found'[q]] = target'[q]
             /\ profiler_threads_[target'[q]] = found'[q]
             /\ lock_' # q => Live(found'[q])
  <1>8. \A q \in Threads : Seen(q)
    <2>1. Seen(p)
      BY <1>4, <1>5, <1>6, <1>7
    <2>2. ASSUME NEW q \in Threads, q # p
          PROVE  Seen(q)
      BY <1>1, <1>3, <2>2 DEF Posters
    <2> QED
      BY <2>1, <2>2
  <1> QED
    BY <1>2, <1>8 DEF Posters, Live

\* A thread does not leave its task, or the deletion of one, while it posts; and the loop
\* that a thread posts to without the lock does not end: only the thread that is being
\* stopped exits, and it is the one with the greatest identifier.
LEMMA ThreadPosters ==
  ASSUME IInv, NEW o \in Objects, ThreadMain(o)
  PROVE  Posters'
  <1> USE ObjectAssumption DEF Threads
  <1>1. /\ Types /\ Registered /\ MainThread /\ Stopping /\ Posters
        /\ target \in [Threads -> Ids] /\ found \in [Threads -> Objects \cup {NoObject}]
        /\ identifier_ \in [Objects -> Ids] /\ at \in [Objects -> Places]
        /\ \A p \in Threads : stage[p] \in {"compare", "post"} => found[p] \in Objects
    BY DEF IInv, Types, TypeOK, Locals, RegistryTypes, LoopTypes, PosterTypes
  <1>2. /\ \E x \in Places : at' = [at EXCEPT ![o] = x]
        /\ UNCHANGED <<lock_, profiler_threads_, life, identifier_, phase, stage, closure,
                       target, index, found>>
    BY <1>1, ThreadPlaces DEF uiVars, postVars
  <1>3. at[o] \in {"task", "deleting"} => stage[o] = "idle"
    BY DEF ThreadMain, Enter, RunTask, EndTask, QuitWhenIdle, Idle, Leave, Clear, DeleteTask,
       Deleted, Reload, Exit, Ready
  <1>4. \A p \in Objects : stage[p] # "idle" /\ at[p] \in {"task", "deleting"} => at'[p] = at[p]
    BY <1>1, <1>2, <1>3
  <1>5. at'[o] = "exited" => at[o] \in {"cleared", "emptied"}
    BY <1>1 DEF ThreadMain, Enter, RunTask, EndTask, QuitWhenIdle, Idle, Leave, Clear,
       DeleteTask, AfterReload,
       Deleted, Reload, Exit, Ready
  <1>6. ASSUME NEW p \in Objects, stage[p] = "post", lock_ # p
        PROVE  at'[found[p]] \notin {"none", "exited"}
    <2>1. /\ found[p] \in Objects /\ identifier_[found[p]] = target[p]
          /\ profiler_threads_[target[p]] = found[p] /\ Live(found[p])
          /\ target[p] <= identifier_[p]
      BY <1>1, <1>6 DEF Posters
    <2>2. CASE found[p] # o \/ at'[o] # "exited"
      BY <1>1, <1>2, <2>1, <2>2, ThreadPlaces DEF Live
    <2>3. CASE found[p] = o /\ at'[o] = "exited" /\ o = Main
      <3>1. phase = "over"
        BY <1>1, <1>5, <2>3 DEF MainThread
      <3>2. profiler_threads_[target[p]] = NoObject
        BY <1>1, <3>1 DEF MainThread
      <3> QED
        BY <2>1, <3>2
    <2>4. CASE found[p] = o /\ at'[o] = "exited" /\ o # Main
      <3>1. doing = "join" /\ subject = o
        BY <1>1, <1>5, <2>4 DEF Stopping, RunsNoMore
      <3>2. p # Main /\ at[p] \in {"task", "deleting"}
        BY <1>1, <1>6, <3>1 DEF Posters, MainThread
      <3>3. identifier_[p] <= identifier_[o]
        BY <1>1, <2>4, <3>1, <3>2 DEF Stopping, Live
      <3>4. identifier_[p] = identifier_[o]
        BY <1>1, <2>1, <2>4, <3>3 DEF Ids
      <3>5. profiler_threads_[identifier_[p]] = p
        BY <1>1, <3>2 DEF Registered, Live
      <3> QED
        BY <1>5, <2>1, <2>4, <3>2, <3>4, <3>5
    <2> QED
      BY <2>2, <2>3, <2>4
  <1>7. \A p \in Objects : stage[p] # "idle" =>
          IF p = Main THEN phase = "run" \/ (phase = "over" /\ at'[Main] = "deleting")
                      ELSE at'[p] \in {"task", "deleting"}
    BY <1>1, <1>4 DEF Posters
  <1> QED
    BY <1>1, <1>2, <1>6, <1>7 DEF Posters, Live

\* The UI thread does not post while it starts or stops threads, and does not change the
\* places of those that post meanwhile.
LEMMA UIPlaces ==
  ASSUME IInv, UIThread
  PROVE  /\ UNCHANGED <<lock_, stage, target, index, found>>
         /\ stage[Main] = "idle"
         /\ \A p \in Objects \ {Main} : stage[p] # "idle" =>
              at[p] \in {"task", "deleting"} /\ at'[p] = at[p]
         /\ \A p \in Objects : Live(p) => at'[p] \notin {"none", "exited"}
         /\ \A p \in Objects : life[p] # "unborn" =>
              life'[p] # "unborn" /\ identifier_'[p] = identifier_[p]
  <1> USE ObjectAssumption DEF Threads
  <1>1. /\ Types /\ Registered /\ Progress /\ MainThread /\ Stopping /\ Posters
        /\ target \in [Threads -> Ids] /\ found \in [Threads -> Objects \cup {NoObject}]
        /\ identifier_ \in [Objects -> Ids] /\ at \in [Objects -> Places]
        /\ life \in [Objects -> {"unborn", "alive", "deleted"}]
        /\ profiler_threads_ \in [Ids -> Objects \cup {NoObject}]
        /\ thread_ \in [Ids -> Objects \cup {NoObject}]
        /\ \A p \in Threads : stage[p] \in {"compare", "post"} => found[p] \in Objects
        /\ doing # "nothing" => subject \in Objects
    BY DEF IInv, Types, TypeOK, Locals, RegistryTypes, LoopTypes, PosterTypes, MainTypes
  <1>2. UNCHANGED <<lock_, stage, target, index, found>>
    BY DEF UIThread, ProfilerMain, CreateThread, StartThread, Started, RunUIMessageLoop,
       DestroyNext, StopSoon, Join, Unregister, FreeObject, ResetThread, Shutdown,
       unchangedByMain, postVars
  <1>3. stage[Main] = "idle"
    <2>1. phase \in {"run", "over"} => stage[Main] = "idle"
      <3>1. phase \in {"run", "over"} => doing = "nothing"
        BY <1>1 DEF MainThread
      <3> QED
        BY <3>1 DEF UIThread, ProfilerMain, CreateThread, StartThread, Started,
           RunUIMessageLoop, DestroyNext, StopSoon, Join, Unregister, FreeObject,
           ResetThread, Shutdown
    <2> QED
      BY <1>1, <2>1 DEF Posters
  <1>4. /\ at' = at
        \/ (doing = "start" /\ at' = [at EXCEPT ![subject] = "entry"] /\ at[subject] = "none")
        \/ at' = [at EXCEPT ![Main] = "left"] \/ at' = [at EXCEPT ![Main] = "cleared"]
    BY <1>1 DEF UIThread, ProfilerMain, CreateThread, StartThread, Started, RunUIMessageLoop,
       DestroyNext, StopSoon, Join, Unregister, FreeObject, ResetThread, Shutdown, Progress
  <1>5. \A p \in Objects \ {Main} : stage[p] # "idle" =>
          at[p] \in {"task", "deleting"} /\ at'[p] = at[p]
    BY <1>1, <1>4 DEF Posters
  <1>6. \A p \in Objects : Live(p) => at'[p] \notin {"none", "exited"}
    BY <1>1, <1>4 DEF Live
  <1>7. \A p \in Objects : life[p] # "unborn" =>
          life'[p] # "unborn" /\ identifier_'[p] = identifier_[p]
    BY <1>1 DEF UIThread, ProfilerMain, CreateThread, StartThread, Started, RunUIMessageLoop,
       DestroyNext, StopSoon, Join, Unregister, FreeObject, ResetThread, Shutdown
  <1> QED
    BY <1>2, <1>3, <1>5, <1>6, <1>7

\* The UI thread changes the registry when no other has the lock, and it takes from it no
\* object whose thread can be posted to without the lock.
LEMMA UIPosters ==
  ASSUME IInv, UIThread
  PROVE  Posters'
  <1> USE ObjectAssumption DEF Threads
  <1>1. /\ Types /\ Registered /\ Progress /\ MainThread /\ Stopping /\ Posters
        /\ target \in [Threads -> Ids] /\ found \in [Threads -> Objects \cup {NoObject}]
        /\ identifier_ \in [Objects -> Ids] /\ at \in [Objects -> Places]
        /\ life \in [Objects -> {"unborn", "alive", "deleted"}]
        /\ profiler_threads_ \in [Ids -> Objects \cup {NoObject}]
        /\ thread_ \in [Ids -> Objects \cup {NoObject}]
        /\ \A p \in Threads : stage[p] \in {"compare", "post"} => found[p] \in Objects
        /\ doing # "nothing" => subject \in Objects
    BY DEF IInv, Types, TypeOK, Locals, RegistryTypes, LoopTypes, PosterTypes, MainTypes
  <1>2. UNCHANGED <<lock_, stage, target, index, found>>
    BY UIPlaces
  <1>3. stage[Main] = "idle"
    BY UIPlaces
  <1>5. \A p \in Objects \ {Main} : stage[p] # "idle" => at'[p] \in {"task", "deleting"}
    BY UIPlaces
  <1>6. \A p \in Objects : Live(p) => at'[p] \notin {"none", "exited"}
    BY UIPlaces
  <1>7. \A p \in Objects : life[p] # "unborn" =>
          life'[p] # "unborn" /\ identifier_'[p] = identifier_[p]
    BY UIPlaces
  <1>8. ASSUME NEW p \in Threads, stage[p] = "post", p \in Objects \/ lock_ = p
        PROVE  profiler_threads_'[target[p]] = found[p]
    <2>1. /\ found[p] \in Objects /\ identifier_[found[p]] = target[p]
          /\ profiler_threads_[target[p]] = found[p] /\ target[p] \in Ids
          /\ lock_ # p => Live(found[p])
      BY <1>1, <1>8 DEF Posters
    <2>2. CASE profiler_threads_' = profiler_threads_
      BY <2>1, <2>2
    <2>3. ASSUME NEW i \in Ids, NEW o \in Objects, CreateThread(i, o)
          PROVE  profiler_threads_'[target[p]] = found[p]
      <3>1. /\ doing = "nothing" /\ ~created_[i] /\ i # UI /\ phase \in {"setup", "reset"}
            /\ profiler_threads_' = [profiler_threads_ EXCEPT ![i] = o]
        BY <2>3, IdAssumption DEF CreateThread, NextCreated
      <3>2. profiler_threads_[i] = NoObject
        BY <1>1, <3>1 DEF Registered, MainThread, Busy
      <3> QED
        BY <1>1, <2>1, <3>1, <3>2
    <2>4. CASE Unregister
      <3>1. /\ lock_ = Free /\ doing = "unregister" /\ subject \in Objects
            /\ profiler_threads_' = [profiler_threads_ EXCEPT ![identifier_[subject]] = NoObject]
            /\ profiler_threads_[identifier_[subject]] = subject
            /\ subject = Main \/ ~Live(subject)
        BY <1>1, <2>4 DEF Unregister, AutoLock, Progress
      <3>2. p \in Objects /\ p # Main /\ lock_ # p
        BY <1>3, <1>8, <3>1
      <3>3. subject # Main
        <4>1. at[p] \in {"task", "deleting"}
          BY <1>1, <1>8, <3>2 DEF Posters
        <4>2. thread_[identifier_[p]] = p \/ subject = p
          BY <1>1, <3>2, <4>1 DEF Registered, Live, Busy
        <4>3. Busy(Main) => thread_[identifier_[p]] = NoObject
          BY <1>1, <3>2 DEF MainThread
        <4> QED
          BY <1>1, <3>1, <3>2, <4>2, <4>3 DEF Busy
      <3>4. subject # found[p]
        BY <2>1, <3>1, <3>2, <3>3
      <3>5. identifier_[subject] # target[p]
        BY <2>1, <3>1, <3>4
      <3> QED
        BY <1>1, <2>1, <3>1, <3>5
    <2> QED
      BY <2>2, <2>3, <2>4
      DEF UIThread, ProfilerMain, StartThread, Started, RunUIMessageLoop,
          DestroyNext, StopSoon, Join, FreeObject, ResetThread, Shutdown
  <1>9. \A p \in Objects : stage[p] # "idle" => life[p] # "unborn"
    BY <1>1, <1>3 DEF Posters, Registered
  <1>10. \A p \in Threads : stage[p] = "compare" =>
           life'[found[p]] # "unborn" /\ identifier_'[found[p]] = index[p]
    BY <1>1, <1>7 DEF Posters
  <1>11. \A p \in Objects : stage[p] \in {"read", "post"} /\ lock_ # p =>
           target[p] <= identifier_'[p]
    BY <1>1, <1>7, <1>9 DEF Posters
  <1>12. \A p \in Threads : stage[p] = "post" /\ (p \in Objects \/ lock_ = p) =>
           /\ identifier_'[found[p]] = target[p]
           /\ lock_ # p => at'[found[p]] \notin {"none", "exited"}
    <2>1. \A p \in Threads : stage[p] = "post" /\ (p \in Objects \/ lock_ = p) =>
            life[found[p]] = "alive"
      BY <1>1 DEF Posters, Registered
    <2> QED
      BY <1>1, <1>6, <1>7, <2>1 DEF Posters
  <1> QED
    BY <1>2, <1>3, <1>5, <1>8, <1>10, <1>11, <1>12 DEF Posters, Live

-----------------------------------------------------------------------------
\* Looking for the current thread.

\* The threads are created in the order of their identifiers; the one that is replaced has
\* the greatest.
LEMMA UIAscends ==
  ASSUME IInv, UIThread
  PROVE  Ascending'
  <1>1. Ascending /\ created_ \in [Ids -> BOOLEAN] /\ Created \subseteq Ids
    BY IdAssumption DEF IInv, Types, TypeOK, MainTypes
  <1>2. ASSUME NEW i \in Ids, NEW o \in Objects, CreateThread(i, o)
        PROVE  Ascending'
    <2>1. /\ created_' = [created_ EXCEPT ![i] = TRUE]
          /\ \A j \in Created : ~created_[j] => i <= j
      BY <1>2 DEF CreateThread, NextCreated
    <2> QED
      BY <1>1, <2>1 DEF Ascending
  <1>3. ASSUME NEW i \in Ids, ResetThread(i)
        PROVE  Ascending'
    <2>1. created_' = [created_ EXCEPT ![i] = FALSE] /\ \A j \in Created : j <= i
      BY <1>3, IdAssumption DEF ResetThread
    <2> QED
      BY <1>1, <2>1 DEF Ascending
  <1>4. CASE UNCHANGED created_
    BY <1>1, <1>4 DEF Ascending
  <1> QED
    BY <1>2, <1>3, <1>4
    DEF UIThread, ProfilerMain, StartThread, Started, RunUIMessageLoop, DestroyNext,
        StopSoon, Join, Unregister, FreeObject, Shutdown

\* A thread that posts creates none.
LEMMA PostAscends ==
  ASSUME IInv, NEW p \in Threads,
         (\E i \in Ids, t \in Tasks : PostTask(p, i, t)) \/ Posting(p)
  PROVE  Ascending'
  <1>1. UNCHANGED created_
    BY DEF PostTask, Posting, Scan, Compare, Acquire, ReadLoop, ReadNull, Post,
       unchangedByPost, uiVars
  <1> QED
    BY <1>1 DEF IInv, Ascending

\* A step of a thread of the registry creates none either.
LEMMA ThreadAscends ==
  ASSUME IInv, NEW o \in Objects, ThreadMain(o)
  PROVE  Ascending'
  <1>1. UNCHANGED created_
    BY ThreadPlaces DEF IInv, uiVars
  <1> QED
    BY <1>1 DEF IInv, Ascending

\* A thread that posts, but for one whose loop is being destroyed, is in the registry and
\* has a loop.
LEMMA PosterRegistered ==
  ASSUME IInv, NEW p \in Objects, stage[p] # "idle", at[p] # "deleting"
  PROVE  profiler_threads_[identifier_[p]] = p /\ message_loop_[p]
  <1> USE ObjectAssumption
  <1>1. Registered /\ MainThread /\ Stopping /\ Posters
    BY DEF IInv
  <1>2. CASE p = Main
    <2>1. phase = "run" /\ identifier_[Main] = UI
      BY <1>1, <1>2 DEF Posters, MainThread
    <2> QED
      BY <1>1, <1>2, <2>1 DEF MainThread, Stopping
  <1>3. CASE p # Main
    <2>1. at[p] = "task"
      BY <1>1, <1>3 DEF Posters
    <2> QED
      BY <1>1, <1>3, <2>1 DEF Registered, Stopping, Live
  <1> QED
    BY <1>2, <1>3

\* The scan goes on only past other threads' identifiers.
LEMMA PostScanners ==
  ASSUME IInv, NEW p \in Threads,
         (\E i \in Ids, t \in Tasks : PostTask(p, i, t)) \/ Posting(p)
  PROVE  Scanners'
  <1> USE ObjectAssumption DEF Threads
  <1>1. /\ Types /\ Registered /\ Scanners
        /\ stage \in [Threads -> Stages] /\ index \in [Threads -> 0 .. ID_COUNT]
        /\ found \in [Threads -> Objects \cup {NoObject}]
        /\ identifier_ \in [Objects -> Ids]
        /\ stage[p] \in {"scan", "compare"} => index[p] \in Ids
    BY DEF IInv, Types, TypeOK, RegistryTypes, PosterTypes
  <1>2. UNCHANGED <<profiler_threads_, life, identifier_, at>>
    BY DEF PostTask, Posting, Scan, Compare, Acquire, ReadLoop, ReadNull, Post,
       unchangedByPost, registryVars, loopVars
  <1>3. ASSUME NEW q \in Threads, q # p
        PROVE  stage'[q] = stage[q] /\ index'[q] = index[q] /\ found'[q] = found[q]
    BY <1>1, <1>3 DEF PostTask, Posting, Scan, Compare, Acquire, ReadLoop, ReadNull, Post,
       NextIdentifier, Return
  <1> DEFINE Bound == index'[p] <= identifier_[p] \/ at[p] = "deleting"
  <1>4. ASSUME p \in Objects, stage'[p] \in {"scan", "compare"}
        PROVE  Bound
    <2>1. ASSUME NEW i \in Ids, NEW t \in Tasks, PostTask(p, i, t)
          PROVE  Bound
      <3>1. index'[p] = 0 /\ identifier_[p] \in Ids
        BY <1>1, <1>4, <2>1 DEF PostTask
      <3> QED
        BY <3>1, IdAssumption DEF Ids
    <2>2. ASSUME stage[p] \in {"scan", "compare"}, UNCHANGED index
          PROVE  Bound
      BY <1>1, <1>4, <2>2 DEF Scanners
    <2>3. ASSUME Scan(p) \/ Compare(p), NextIdentifier(p), at[p] # "deleting"
          PROVE  Bound
      <3>1. /\ stage[p] \in {"scan", "compare"} /\ index'[p] = index[p] + 1
            /\ index[p] <= identifier_[p] /\ index[p] \in Ids /\ identifier_[p] \in Ids
        BY <1>1, <1>4, <2>3 DEF Scan, Compare, NextIdentifier, Scanners
      <3>2. profiler_threads_[identifier_[p]] = p /\ message_loop_[p]
        BY <1>4, <2>3, <3>1, PosterRegistered
      <3>3. ASSUME Scan(p)
            PROVE  index[p] # identifier_[p]
        <4>1. profiler_threads_[index[p]] = NoObject
          BY <1>1, <2>3, <3>1, <3>3 DEF Scan, NextIdentifier
        <4> QED
          BY <1>4, <3>2, <4>1
      <3>4. ASSUME Compare(p)
            PROVE  index[p] # identifier_[p]
        <4>1. stage[p] = "compare" /\ life[found[p]] = "alive"
          BY <1>1, <1>4, <3>4 DEF Compare, Scanners
        <4>2. ~SameLoop(p, found[p])
          BY <1>1, <2>3, <3>1, <3>4, <4>1 DEF Compare, NextIdentifier
        <4>3. found[p] # p
          BY <3>2, <4>2 DEF SameLoop
        <4> QED
          BY <1>1, <1>4, <2>3, <4>1, <4>3 DEF Scanners
      <3>5. index[p] # identifier_[p]
        BY <2>3, <3>3, <3>4
      <3> QED
        BY <3>1, <3>5 DEF Ids
    <2>4. at[p] = "deleting" => Bound
      OBVIOUS
    <2> QED
      BY <1>1, <1>4, <2>1, <2>2, <2>3, <2>4
      DEF Posting, Scan, Compare, Acquire, ReadLoop, ReadNull, Post, Return
  <1>5. ASSUME p \in Objects, stage'[p] = "compare"
        PROVE  /\ life[found'[p]] = "alive"
               /\ index'[p] = identifier_[p] /\ at[p] # "deleting" => found'[p] = p
    <2>1. /\ stage[p] = "scan" /\ profiler_threads_[index[p]] # NoObject
          /\ found'[p] = profiler_threads_[index[p]] /\ index'[p] = index[p]
      BY <1>1, <1>5 DEF PostTask, Posting, Scan, Compare, Acquire, ReadLoop, ReadNull, Post,
         NextIdentifier, Return
    <2>2. index[p] \in Ids
      BY <1>1, <2>1
    <2>3. at[p] # "deleting" => profiler_threads_[identifier_[p]] = p
      BY <1>5, <2>1, PosterRegistered
    <2> QED
      BY <1>1, <2>1, <2>2, <2>3 DEF Registered
  <1> HIDE DEF Bound
  <1>6. \A q \in Objects :
          /\ stage'[q] \in {"scan", "compare"} =>
               index'[q] <= identifier_[q] \/ at[q] = "deleting"
          /\ stage'[q] = "compare" =>
               /\ life[found'[q]] = "alive"
               /\ index'[q] = identifier_[q] /\ at[q] # "deleting" => found'[q] = q
    <2> SUFFICES ASSUME NEW q \in Objects
                 PROVE  /\ stage'[q] \in {"scan", "compare"} =>
                             index'[q] <= identifier_[q] \/ at[q] = "deleting"
                        /\ stage'[q] = "compare" =>
                             /\ life[found'[q]] = "alive"
                             /\ index'[q] = identifier_[q] /\ at[q] # "deleting" =>
                                  found'[q] = q
      OBVIOUS
    <2>1. CASE q = p
      BY <1>4, <1>5, <2>1 DEF Bound
    <2>2. CASE q # p
      BY <1>1, <1>3, <2>2 DEF Scanners
    <2> QED
      BY <2>1, <2>2
  <1> QED
    BY <1>2, <1>6 DEF Scanners

\* A thread goes on to destroy its loop only when it does not post any more.
LEMMA ThreadScanners ==
  ASSUME IInv, NEW o \in Objects, ThreadMain(o)
  PROVE  Scanners'
  <1>1. Types /\ Scanners /\ at \in [Objects -> Places]
    BY DEF IInv, Types, TypeOK, LoopTypes
  <1>2. /\ \E x \in Places : at' = [at EXCEPT ![o] = x]
        /\ UNCHANGED <<life, identifier_, stage, index, found>>
    BY <1>1, ThreadPlaces DEF uiVars, postVars
  <1>3. at[o] = "deleting" => stage[o] = "idle"
    BY DEF ThreadMain, Enter, RunTask, EndTask, QuitWhenIdle, Idle, Leave, Clear, DeleteTask,
       Deleted, Reload, Exit, Ready
  <1>4. \A p \in Objects : stage[p] # "idle" /\ at[p] = "deleting" => at'[p] = "deleting"
    BY <1>1, <1>2, <1>3
  <1> QED
    BY <1>1, <1>2, <1>4 DEF Scanners

\* The object that is freed had the greatest identifier: a thread that looks for itself does
\* not come to it.
LEMMA UIScanners ==
  ASSUME IInv, UIThread
  PROVE  Scanners'
  <1> USE ObjectAssumption DEF Threads
  <1>1. /\ Types /\ Registered /\ Progress /\ MainThread /\ Stopping /\ Posters /\ Scanners
        /\ identifier_ \in [Objects -> Ids] /\ index \in [Threads -> 0 .. ID_COUNT]
        /\ life \in [Objects -> {"unborn", "alive", "deleted"}]
        /\ \A p \in Threads : stage[p] \in {"compare", "post"} => found[p] \in Objects
        /\ doing # "nothing" => subject \in Objects
    BY DEF IInv, Types, TypeOK, Locals, RegistryTypes, PosterTypes
  <1>2. ASSUME NEW p \in Objects, stage[p] \in {"scan", "compare"}
        PROVE  /\ p # Main /\ at[p] \in {"task", "deleting"} /\ at'[p] = at[p]
               /\ identifier_'[p] = identifier_[p] /\ Live(p)
    <2>1. p # Main /\ at[p] \in {"task", "deleting"} /\ at'[p] = at[p]
      BY <1>2, UIPlaces
    <2>2. life[p] # "unborn"
      BY <1>1, <2>1 DEF Registered
    <2> QED
      BY <2>1, <2>2, UIPlaces DEF Live
  <1>3. ASSUME NEW p \in Objects, stage[p] = "compare"
        PROVE  life'[found[p]] = "alive"
    <2>1. life[found[p]] = "alive" /\ identifier_[found[p]] = index[p] /\ found[p] \in Objects
      BY <1>1, <1>3 DEF Scanners, Posters
    <2>2. CASE FreeObject
      <3>1. /\ doing = "free" /\ life' = [life EXCEPT ![subject] = "deleted"]
            /\ subject \in Objects /\ profiler_threads_[identifier_[subject]] = NoObject
        BY <1>1, <2>2 DEF FreeObject, Progress
      <3>2. /\ p # Main /\ at[p] \in {"task", "deleting"}
            /\ profiler_threads_[identifier_[p]] = p
        BY <1>1, <1>2, <1>3 DEF Registered
      <3>3. subject # Main
        <4>1. thread_[identifier_[p]] = p \/ subject = p
          BY <1>1, <3>2 DEF Registered, Busy
        <4> QED
          BY <1>1, <3>1, <3>2, <4>1 DEF MainThread, Busy
      <3>4. at[p] # "deleting"
        BY <1>1, <3>1, <3>2 DEF Stopping, RunsNoMore
      <3>5. index[p] <= identifier_[p]
        BY <1>1, <1>3, <3>4 DEF Scanners
      <3>6. identifier_[p] <= identifier_[subject]
        BY <1>1, <1>2, <1>3, <3>1, <3>3 DEF Stopping
      <3>7. identifier_[p] # identifier_[subject]
        BY <3>1, <3>2
      <3>8. found[p] # subject
        BY <1>1, <2>1, <3>1, <3>5, <3>6, <3>7 DEF Ids
      <3> QED
        BY <1>1, <2>1, <3>1, <3>8
    <2>3. CASE ~FreeObject
      <3>1. life' = life \/ \E o \in Objects : life' = [life EXCEPT ![o] = "alive"]
        BY <2>3 DEF UIThread, ProfilerMain, CreateThread, StartThread, Started,
           RunUIMessageLoop, DestroyNext, StopSoon, Join, Unregister, ResetThread, Shutdown
      <3> QED
        BY <1>1, <2>1, <3>1
    <2> QED
      BY <2>2, <2>3
  <1>4. UNCHANGED <<stage, index, found>>
    BY UIPlaces
  <1> QED
    BY <1>1, <1>2, <1>3, <1>4 DEF Scanners


-----------------------------------------------------------------------------
\* The theorems.

\* Every step keeps it.
LEMMA IInvStep == IInv /\ [Next]_vars => IInv'
  <1> SUFFICES ASSUME IInv, [Next]_vars
               PROVE  IInv'
    OBVIOUS
  <1>1. Types'
    BY TypesStep DEF IInv
  <1>2. ASSUME NEW p \in Threads,
               (\E i \in Ids, t \in Tasks : PostTask(p, i, t)) \/ Posting(p)
        PROVE  IInv'
    BY <1>1, <1>2, PostRegistry, PostStopping, PostPosters, PostScanners, PostAscends DEF IInv
  <1>3. ASSUME NEW o \in Objects, ThreadMain(o)
        PROVE  IInv'
    BY <1>1, <1>3, ThreadRegistry, ThreadStopping, ThreadPosters, ThreadScanners, ThreadAscends
    DEF IInv
  <1>4. CASE UIThread
    BY <1>1, <1>4, UIRegistry, UIStopping, UIPosters, UIScanners, UIAscends DEF IInv
  <1>5. CASE UNCHANGED vars
    <2> USE <1>5 DEF IInv, vars, registryVars, loopVars, uiVars, postVars, historyVars, Live, Busy
    <2>1. Registered'
      BY DEF Registered
    <2>2. Progress' /\ MainThread'
      BY DEF Progress, MainThread
    <2>3. Stopping' /\ Late'
      BY DEF Stopping, Late, RunsNoMore
    <2>4. Posters' /\ Ascending' /\ Scanners'
      BY DEF Posters, Ascending, Scanners
    <2> QED
      BY <1>1, <2>1, <2>2, <2>3, <2>4
  <1> QED
    BY <1>2, <1>3, <1>4, <1>5 DEF Next, UIThread

\* It holds in every state.
LEMMA IInvInductive == Spec => []IInv
  BY IInvInit, IInvStep, PTL DEF Spec

\* Every variable of the registry, of the threads and of the threads that post keeps its
\* type, for any number of objects, threads and identifiers.
THEOREM TypeCorrect == Spec => []TypeOK
  <1>1. IInv => TypeOK
    BY DEF IInv, Types
  <1> QED
    BY <1>1, IInvInductive, PTL

\* What the registry holds exists and has the identifier that it is held under, and a
\* thread that has the lock does not lose the object that it has read.
THEOREM RegistryHoldsTheLiving == Spec => []RegistryAlive
  <1>1. IInv => RegistryAlive
    <2> SUFFICES ASSUME IInv
                 PROVE  RegistryAlive
      OBVIOUS
    <2>1. /\ Types /\ Registered /\ Posters
          /\ target \in [Threads -> Ids]
          /\ \A p \in Threads : stage[p] \in {"compare", "post"} => found[p] \in Objects
      BY DEF IInv, Types, TypeOK, PosterTypes, Locals
    <2> QED
      BY <2>1, ObjectAssumption DEF RegistryAlive, Registered, Posters
  <1> QED
    BY <1>1, IInvInductive, PTL

\* A known thread that posts without the lock uses an object and a loop that exist: the
\* order in which the UI thread stops the others, by their identifiers, is what the
\* comparison of identifiers in PostTaskHelper() relies on.
THEOREM LockFreePosting == Spec => []LockFreeSafe
  <1>1. IInv => LockFreeSafe
    <2> SUFFICES ASSUME IInv
                 PROVE  LockFreeSafe
      OBVIOUS
    <2>1. /\ Types /\ Registered /\ Posters /\ Scanners
          /\ target \in [Threads -> Ids]
          /\ \A p \in Threads : stage[p] \in {"compare", "post"} => found[p] \in Objects
      BY DEF IInv, Types, TypeOK, PosterTypes, Locals
    <2> QED
      BY <2>1, ObjectAssumption DEF LockFreeSafe, Registered, Posters, Scanners, Live, Threads
  <1> QED
    BY <1>1, IInvInductive, PTL

\* Two threads with one identifier never exist at a time, though threads are replaced and
\* may fail to start.
THEOREM IdentifiersAreUnique == Spec => []OneThreadPerId
  <1>1. IInv => OneThreadPerId
    <2> SUFFICES ASSUME IInv, NEW o \in Objects, NEW q \in Objects, o # q, Live(o), Live(q),
                        identifier_[o] = identifier_[q]
                 PROVE  FALSE
      BY DEF OneThreadPerId, Live
    <2>1. Registered /\ MainThread
      BY DEF IInv
    <2>2. life[o] # "unborn" /\ life[q] # "unborn"
      BY <2>1 DEF Registered, Live
    <2>3. CASE o # Main /\ q # Main
      BY <2>1, <2>3 DEF Registered
    <2>4. CASE o = Main \/ q = Main
      BY <2>1, <2>2, <2>4, IdAssumption DEF Registered, MainThread
    <2> QED
      BY <2>3, <2>4
  <1> QED
    BY <1>1, IInvInductive, PTL

\* A task that runs finds CurrentlyOn() true of the thread that it was posted to, also while
\* that thread is being stopped.
THEOREM TasksKnowTheirThread == Spec => []TasksSeeTheirThread
  <1>1. IInv => TasksSeeTheirThread
    <2> SUFFICES ASSUME IInv, NEW o \in Objects, at[o] = "task"
                 PROVE  CurrentlyOn(o, identifier_[o])
      BY DEF TasksSeeTheirThread
    <2>1. Registered /\ MainThread /\ Stopping
      BY DEF IInv
    <2>2. message_loop_[o] /\ profiler_threads_[identifier_[o]] = o
      BY <2>1 DEF Registered, MainThread, Stopping, Live, Busy
    <2> QED
      BY <2>2, ObjectAssumption DEF CurrentlyOn, SameLoop
  <1> QED
    BY <1>1, IInvInductive, PTL

\* When the loop of a thread that is stopped runs tasks no more, it has none left of those
\* that were posted before it looked for the last time.
THEOREM PendingTasksAreRun == Spec => []PendingTasksRun
  <1>1. IInv => PendingTasksRun
    BY DEF IInv, Late, PendingTasksRun
  <1> QED
    BY <1>1, IInvInductive, PTL
-----------------------------------------------------------------------------
\* What became of the tasks.

\* A queue holds accepted tasks only, each at one place of one queue, and each accepted
\* task is held.
Filed ==
  /\ \A o \in Objects : \A n \in DOMAIN queue[o] :
       queue[o][n] # Quit => outcome[queue[o][n]] = "accepted"
  /\ \A o, q \in Objects : \A n \in DOMAIN queue[o], m \in DOMAIN queue[q] :
       queue[o][n] # Quit /\ queue[o][n] = queue[q][m] => o = q /\ n = m
  /\ \A t \in Tasks : outcome[t] = "accepted" =>
       \E o \in Objects : \E n \in DOMAIN queue[o] : queue[o][n] = t

\* The tasks that threads post, and those that they run, are each one thread's.
Callers ==
  /\ \A p \in Threads : stage[p] # "idle" => outcome[closure[p]] = "posting"
  /\ \A p, q \in Threads :
       stage[p] # "idle" /\ stage[q] # "idle" /\ closure[p] = closure[q] => p = q
  /\ \A o \in Objects : at[o] = "task" => outcome[task[o]] = "running"
  /\ \A o, q \in Objects : at[o] = "task" /\ at[q] = "task" /\ task[o] = task[q] => o = q

\* The destructor of o's loop looks into the queue no more.
LooksNoMore(o) == DeletesNoMore(o) \/ at[o] = "exited"

\* What it has not taken from there then was posted since.
Leftovers ==
  \A o \in Objects :
    /\ at[o] \notin {"cleared", "deleting", "emptied", "exited"} => passes[o] = 0
    /\ at[o] \in {"emptied", "exited"} => taken[o] = 0
    /\ LooksNoMore(o) =>
         \A n \in DOMAIN queue[o] : n > taken[o] => queue[o][n] \in missed \cup {Quit}

\* An element that is appended is held at the new place only.
LEMMA FiledByAppend ==
  ASSUME queue \in [Objects -> Seq(Tasks \cup {Quit})], Filed,
         NEW o \in Objects, NEW e \in Tasks \cup {Quit},
         queue' = [queue EXCEPT ![o] = Append(@, e)],
         e # Quit => outcome[e] # "accepted",
         \A t \in Tasks : outcome'[t] = "accepted" <=> (outcome[t] = "accepted" \/ t = e)
  PROVE  Filed'
  <1> USE ObjectAssumption
  <1> DEFINE last == Len(queue[o]) + 1
  <1>1. /\ \A q \in Objects : queue[q] \in Seq(Tasks \cup {Quit})
        /\ \A q \in Objects : q # o => queue'[q] = queue[q]
        /\ queue'[o] = Append(queue[o], e)
    OBVIOUS
  <1>2. /\ DOMAIN queue'[o] = DOMAIN queue[o] \cup {last} /\ last \notin DOMAIN queue[o]
        /\ queue'[o][last] = e
        /\ \A n \in DOMAIN queue[o] : queue'[o][n] = queue[o][n]
    <2>1. queue[o] \in Seq(Tasks \cup {Quit})
      BY <1>1
    <2>2. /\ DOMAIN Append(queue[o], e) = 1 .. last /\ DOMAIN queue[o] = 1 .. Len(queue[o])
          /\ Append(queue[o], e)[last] = e
          /\ \A n \in 1 .. Len(queue[o]) : Append(queue[o], e)[n] = queue[o][n]
          /\ Len(queue[o]) \in Nat
      BY <2>1
    <2> QED
      BY <1>1, <2>2
  <1> HIDE DEF last
  <1>3. \A q \in Objects : \A n \in DOMAIN queue[q] :
          queue[q][n] \in Tasks \cup {Quit}
    BY <1>1
  <1>4. \A q \in Objects : \A n \in DOMAIN queue'[q] :
          \/ q = o /\ n = last /\ queue'[q][n] = e
          \/ n \in DOMAIN queue[q] /\ queue'[q][n] = queue[q][n] /\ (q = o => n # last)
    BY <1>1, <1>2
  <1>5. \A q \in Objects : \A n \in DOMAIN queue[q] :
          n \in DOMAIN queue'[q] /\ queue'[q][n] = queue[q][n]
    BY <1>1, <1>2
  <1>6. e # Quit => \A q \in Objects : \A n \in DOMAIN queue[q] : queue[q][n] # e
    BY DEF Filed
  <1>7. \A q \in Objects : \A n \in DOMAIN queue'[q] :
          queue'[q][n] # Quit => outcome'[queue'[q][n]] = "accepted"
    <2> SUFFICES ASSUME NEW q \in Objects, NEW n \in DOMAIN queue'[q], queue'[q][n] # Quit
                 PROVE  outcome'[queue'[q][n]] = "accepted"
      OBVIOUS
    <2>1. CASE q = o /\ n = last /\ queue'[q][n] = e
      BY <2>1
    <2>2. CASE n \in DOMAIN queue[q] /\ queue'[q][n] = queue[q][n]
      <3>1. outcome[queue[q][n]] = "accepted"
        BY <2>2 DEF Filed
      <3>2. outcome'[queue[q][n]] = "accepted"
        BY <1>3, <2>2, <3>1
      <3> QED
        BY <2>2, <3>2
    <2> QED
      BY <1>4, <2>1, <2>2
  <1>8. \A p, q \in Objects : \A n \in DOMAIN queue'[p], m \in DOMAIN queue'[q] :
          queue'[p][n] # Quit /\ queue'[p][n] = queue'[q][m] => p = q /\ n = m
    BY <1>4, <1>6 DEF Filed
  <1>9. \A t \in Tasks : outcome'[t] = "accepted" =>
          \E q \in Objects : \E n \in DOMAIN queue'[q] : queue'[q][n] = t
    <2> SUFFICES ASSUME NEW t \in Tasks, outcome'[t] = "accepted"
                 PROVE  \E q \in Objects : \E n \in DOMAIN queue'[q] : queue'[q][n] = t
      OBVIOUS
    <2>1. CASE t = e
      BY <1>2, <2>1
    <2>2. CASE t # e
      <3>1. outcome[t] = "accepted"
        BY <2>2
      <3>2. PICK q \in Objects : \E n \in DOMAIN queue[q] : queue[q][n] = t
        BY <3>1 DEF Filed
      <3> QED
        BY <1>5, <3>2
    <2> QED
      BY <2>1, <2>2
  <1> QED
    BY <1>7, <1>8, <1>9 DEF Filed

\* A task that is taken from its queue is held no more, and the others move up.
LEMMA FiledByTail ==
  ASSUME queue \in [Objects -> Seq(Tasks \cup {Quit})], Filed,
         NEW o \in Objects, queue[o] # <<>>,
         queue' = [queue EXCEPT ![o] = Tail(@)],
         \A t \in Tasks : outcome'[t] = "accepted" <=>
                           (outcome[t] = "accepted" /\ t # Head(queue[o]))
  PROVE  Filed'
  <1> USE ObjectAssumption
  <1> DEFINE h == Head(queue[o])
             old(q, n) == IF q = o THEN n + 1 ELSE n
  <1>1. /\ \A q \in Objects : queue[q] \in Seq(Tasks \cup {Quit})
        /\ \A q \in Objects : q # o => queue'[q] = queue[q]
        /\ queue'[o] = Tail(queue[o])
    OBVIOUS
  <1>2. /\ Len(queue[o]) \in Nat \ {0} /\ DOMAIN queue[o] = 1 .. Len(queue[o])
        /\ h = queue[o][1] /\ h \in Tasks \cup {Quit}
        /\ DOMAIN queue'[o] = 1 .. (Len(queue[o]) - 1)
        /\ \A n \in 1 .. (Len(queue[o]) - 1) : queue'[o][n] = queue[o][n + 1]
    <2>1. queue[o] \in Seq(Tasks \cup {Quit}) /\ queue[o] # <<>>
      BY <1>1
    <2>2. /\ Len(queue[o]) \in Nat \ {0} /\ DOMAIN queue[o] = 1 .. Len(queue[o])
          /\ Head(queue[o]) = queue[o][1] /\ Head(queue[o]) \in Tasks \cup {Quit}
          /\ DOMAIN Tail(queue[o]) = 1 .. (Len(queue[o]) - 1)
          /\ \A n \in 1 .. (Len(queue[o]) - 1) : Tail(queue[o])[n] = queue[o][n + 1]
      BY <2>1
    <2> QED
      BY <1>1, <2>2
  <1> HIDE DEF h
  <1>3. \A q \in Objects : \A n \in DOMAIN queue'[q] :
          /\ old(q, n) \in DOMAIN queue[q] /\ queue'[q][n] = queue[q][old(q, n)]
          /\ q = o => old(q, n) # 1
          /\ n \in Int
    <2>1. \A q \in Objects : DOMAIN queue[q] = 1 .. Len(queue[q])
      BY <1>1
    <2> QED
      BY <1>1, <1>2, <2>1
  <1>4. \A q \in Objects : \A m \in DOMAIN queue[q] : (q = o => m # 1) =>
          \E n \in DOMAIN queue'[q] : queue'[q][n] = queue[q][m]
    <2>1. \A m \in 2 .. Len(queue[o]) :
            m - 1 \in 1 .. (Len(queue[o]) - 1) /\ queue'[o][m - 1] = queue[o][m]
      <3> SUFFICES ASSUME NEW m \in 2 .. Len(queue[o])
                   PROVE  m - 1 \in 1 .. (Len(queue[o]) - 1) /\ queue'[o][m - 1] = queue[o][m]
        OBVIOUS
      <3>1. m - 1 \in 1 .. (Len(queue[o]) - 1) /\ (m - 1) + 1 = m
        BY <1>2
      <3> QED
        BY <1>2, <3>1
    <2>2. \A m \in DOMAIN queue[o] : m # 1 => m \in 2 .. Len(queue[o])
      BY <1>2
    <2>3. \A m \in DOMAIN queue[o] : m # 1 =>
            m - 1 \in DOMAIN queue'[o] /\ queue'[o][m - 1] = queue[o][m]
      BY <1>2, <2>1, <2>2
    <2> QED
      BY ONLY <1>1, <2>3
  <1>5. \A p, q \in Objects : \A n \in DOMAIN queue'[p], m \in DOMAIN queue'[q] :
          p = q /\ old(p, n) = old(q, m) => n = m
    BY <1>3
  <1>6. \A q \in Objects : \A n \in DOMAIN queue[q] : queue[q][n] \in Tasks \cup {Quit}
    BY <1>1
  <1> HIDE DEF old
  <1>7. ASSUME NEW q \in Objects, NEW n \in DOMAIN queue'[q], queue'[q][n] # Quit
        PROVE  outcome'[queue'[q][n]] = "accepted"
    <2>1. outcome[queue'[q][n]] = "accepted"
      BY <1>3, <1>7 DEF Filed
    <2>2. queue'[q][n] # h
      <3>1. 1 \in DOMAIN queue[o] /\ h = queue[o][1]
        BY <1>2
      <3> QED
        BY <1>3, <1>7, <3>1 DEF Filed
    <2>3. queue'[q][n] \in Tasks
      BY <1>3, <1>6, <1>7
    <2> QED
      BY <2>1, <2>2, <2>3 DEF h
  <1>8. ASSUME NEW p \in Objects, NEW q \in Objects, NEW n \in DOMAIN queue'[p],
               NEW m \in DOMAIN queue'[q], queue'[p][n] # Quit, queue'[p][n] = queue'[q][m]
        PROVE  p = q /\ n = m
    BY <1>3, <1>5, <1>8 DEF Filed
  <1>9. ASSUME NEW t \in Tasks, outcome'[t] = "accepted"
        PROVE  \E q \in Objects : \E n \in DOMAIN queue'[q] : queue'[q][n] = t
    <2>1. outcome[t] = "accepted" /\ (t = h => h = Quit)
      BY <1>2, <1>9 DEF h
    <2>2. PICK q \in Objects : \E m \in DOMAIN queue[q] : queue[q][m] = t
      BY <2>1 DEF Filed
    <2>3. PICK m \in DOMAIN queue[q] : queue[q][m] = t
      BY <2>2
    <2>4. q = o => m # 1
      BY <1>2, <2>1, <2>3
    <2> QED
      BY <1>4, <2>3, <2>4
  <1> QED
    BY ONLY <1>7, <1>8, <1>9 DEF Filed

\* A step that moves no task leaves them filed.
LEMMA FiledByOther ==
  ASSUME queue \in [Objects -> Seq(Tasks \cup {Quit})], Filed, UNCHANGED queue,
         \A t \in Tasks : outcome'[t] = "accepted" <=> outcome[t] = "accepted"
  PROVE  Filed'
  <1>1. \A o \in Objects : \A n \in DOMAIN queue[o] : queue[o][n] \in Tasks \cup {Quit}
    <2> SUFFICES ASSUME NEW o \in Objects, NEW n \in DOMAIN queue[o]
                 PROVE  queue[o][n] \in Tasks \cup {Quit}
      OBVIOUS
    <2>1. queue[o] \in Seq(Tasks \cup {Quit})
      OBVIOUS
    <2> QED
      BY <2>1
  <1>2. \A o \in Objects : \A n \in DOMAIN queue[o] :
          queue[o][n] # Quit => outcome'[queue[o][n]] = "accepted"
    BY <1>1 DEF Filed
  <1>3. \A t \in Tasks : outcome'[t] = "accepted" =>
          \E o \in Objects : \E n \in DOMAIN queue[o] : queue[o][n] = t
    BY DEF Filed
  <1>4. queue' = queue
    OBVIOUS
  <1>5. \A o, q \in Objects : \A n \in DOMAIN queue[o], m \in DOMAIN queue[q] :
          queue[o][n] # Quit /\ queue[o][n] = queue[q][m] => o = q /\ n = m
    BY DEF Filed
  <1> QED
    BY ONLY <1>2, <1>3, <1>4, <1>5 DEF Filed

\* A thread that posts takes a new task, and at the end gives it to a queue or to none.
LEMMA PostConserves ==
  ASSUME Types, Filed, Callers, NEW p \in Threads,
         (\E i \in Ids, t \in Tasks : PostTask(p, i, t)) \/ Posting(p)
  PROVE  Filed' /\ Callers'
  <1> USE ObjectAssumption DEF Threads
  <1>1. /\ queue \in [Objects -> Seq(Tasks \cup {Quit})] /\ outcome \in [Tasks -> Outcomes]
        /\ stage \in [Threads -> Stages] /\ closure \in [Threads -> Tasks \cup {NoTask}]
        /\ \A q \in Threads : stage[q] # "idle" => closure[q] \in Tasks
        /\ \A q \in Threads : stage[q] \in {"compare", "post"} => found[q] \in Objects
        /\ \A o \in Objects : at[o] = "task" => task[o] \in Tasks
    BY DEF Types, TypeOK, LoopTypes, PosterTypes, HistoryTypes, Locals
  <1>2. UNCHANGED <<at, task>>
    BY DEF PostTask, Posting, Scan, Compare, Acquire, ReadLoop, ReadNull, Post,
       unchangedByPost, loopVars
  <1>4. ASSUME NEW i \in Ids, NEW t \in Tasks, PostTask(p, i, t)
        PROVE  Filed' /\ Callers'
    <2>1. /\ stage[p] = "idle" /\ outcome[t] = "new" /\ UNCHANGED queue
          /\ stage' = [stage EXCEPT ![p] = "scan"] /\ closure' = [closure EXCEPT ![p] = t]
          /\ outcome' = [outcome EXCEPT ![t] = "posting"]
      BY <1>4 DEF PostTask, MayPost, loopVars
    <2>2. Filed'
      BY <1>1, <2>1, FiledByOther
    <2>3. Callers'
      BY <1>1, <1>2, <2>1 DEF Callers
    <2> QED
      BY <2>2, <2>3
  <1>5. CASE Scan(p) \/ Compare(p) \/ Acquire(p) \/ ReadLoop(p)
    <2>1. /\ stage[p] # "idle" /\ UNCHANGED <<queue, outcome, closure>>
          /\ \A q \in Threads : stage'[q] # "idle" => stage[q] # "idle"
      BY <1>1, <1>5 DEF Scan, Compare, Acquire, ReadLoop, NextIdentifier, unchangedByPost,
         historyVars
    <2>2. Filed'
      BY <1>1, <2>1, FiledByOther
    <2>3. Callers'
      BY <1>1, <1>2, <2>1 DEF Callers
    <2> QED
      BY <2>2, <2>3
  <1>6. ASSUME NEW x, x # "posting", stage[p] # "idle", closure' = closure,
               outcome' = [outcome EXCEPT ![closure[p]] = x],
               stage' = [stage EXCEPT ![p] = "idle"]
        PROVE  Callers'
    BY <1>1, <1>2, <1>6 DEF Callers
  <1>7. CASE ReadNull(p)
    <2>1. /\ stage[p] # "idle" /\ UNCHANGED <<queue, closure>>
          /\ outcome' = [outcome EXCEPT ![closure[p]] = "refused"]
          /\ stage' = [stage EXCEPT ![p] = "idle"]
      BY <1>7 DEF ReadNull, Return, unchangedByPost
    <2>2. closure[p] \in Tasks /\ outcome[closure[p]] = "posting"
      BY <1>1, <2>1 DEF Callers
    <2>3. Filed'
      BY <1>1, <2>1, <2>2, FiledByOther
    <2> QED
      BY <1>6, <2>1, <2>3
  <1>8. CASE Post(p)
    <2>1. /\ stage[p] = "post" /\ UNCHANGED closure
          /\ stage' = [stage EXCEPT ![p] = "idle"]
          /\ \/ /\ at[found[p]] # "exited"
                /\ queue' = [queue EXCEPT ![found[p]] = Append(@, closure[p])]
                /\ outcome' = [outcome EXCEPT ![closure[p]] = "accepted"]
             \/ UNCHANGED queue /\ outcome' = [outcome EXCEPT ![closure[p]] = "lost"]
      BY <1>8 DEF Post, Return, unchangedByPost
    <2>2. closure[p] \in Tasks /\ outcome[closure[p]] = "posting" /\ found[p] \in Objects
      BY <1>1, <2>1 DEF Callers
    <2>3. CASE queue' = queue /\ outcome' = [outcome EXCEPT ![closure[p]] = "lost"]
      <3>1. Filed'
        BY <1>1, <2>2, <2>3, FiledByOther
      <3> QED
        BY <1>6, <2>1, <2>3, <3>1
    <2>4. CASE /\ at[found[p]] # "exited"
               /\ queue' = [queue EXCEPT ![found[p]] = Append(@, closure[p])]
               /\ outcome' = [outcome EXCEPT ![closure[p]] = "accepted"]
      <3>1. closure[p] # Quit
        BY <2>2
      <3>2. Filed'
        BY <1>1, <2>2, <2>4, <3>1, FiledByAppend
      <3> QED
        BY <1>6, <2>1, <2>4, <3>2
    <2> QED
      BY <2>1, <2>3, <2>4
  <1> QED
    BY <1>4, <1>5, <1>7, <1>8 DEF Posting

\* A thread takes tasks from its queue one by one, to run them or to delete them.
LEMMA ThreadConserves ==
  ASSUME Types, Filed, Callers, NEW o \in Objects, ThreadMain(o)
  PROVE  Filed' /\ Callers'
  <1> USE ObjectAssumption DEF Threads
  <1>1. /\ queue \in [Objects -> Seq(Tasks \cup {Quit})] /\ outcome \in [Tasks -> Outcomes]
        /\ at \in [Objects -> Places] /\ task \in [Objects -> Tasks \cup {NoTask}]
        /\ \A q \in Threads : stage[q] # "idle" => closure[q] \in Tasks
        /\ \A q \in Objects : at[q] = "task" => task[q] \in Tasks
    BY DEF Types, TypeOK, LoopTypes, PosterTypes, HistoryTypes, Locals
  <1>2. UNCHANGED <<stage, closure>>
    BY DEF ThreadMain, Enter, RunTask, EndTask, QuitWhenIdle, Idle, Leave, Clear, DeleteTask,
       Deleted, Reload, Exit, unchangedByThread, postVars
  <1>4. queue[o] # <<>> /\ Head(queue[o]) # Quit =>
          Head(queue[o]) \in Tasks /\ outcome[Head(queue[o])] = "accepted"
    <2> SUFFICES ASSUME queue[o] # <<>>, Head(queue[o]) # Quit
                 PROVE  Head(queue[o]) \in Tasks /\ outcome[Head(queue[o])] = "accepted"
      OBVIOUS
    <2>1. queue[o] \in Seq(Tasks \cup {Quit})
      BY <1>1
    <2>2. Head(queue[o]) = queue[o][1] /\ 1 \in DOMAIN queue[o]
      BY <2>1
    <2>3. Head(queue[o]) \in Tasks \cup {Quit}
      BY <2>1
    <2> QED
      BY <2>2, <2>3 DEF Filed
  <1>5. CASE RunTask(o)
    <2>1. /\ queue[o] # <<>> /\ Head(queue[o]) # Quit /\ at[o] = "loop"
          /\ task' = [task EXCEPT ![o] = Head(queue[o])]
          /\ queue' = [queue EXCEPT ![o] = Tail(@)]
          /\ at' = [at EXCEPT ![o] = "task"]
          /\ outcome' = [outcome EXCEPT ![Head(queue[o])] = "running"]
      BY <1>5 DEF RunTask, Ready
    <2>2. Filed'
      BY <1>1, <2>1, FiledByTail
    <2>3. Callers'
      <3> DEFINE h == Head(queue[o])
      <3>1. /\ h \in Tasks /\ outcome[h] = "accepted" /\ outcome' = [outcome EXCEPT ![h] = "running"]
            /\ task' = [task EXCEPT ![o] = h]
        BY <1>4, <2>1
      <3> HIDE DEF h
      <3> QED
        BY <1>1, <1>2, <2>1, <3>1 DEF Callers
    <2> QED
      BY <2>2, <2>3
  <1>6. CASE EndTask(o)
    <2>1. /\ at[o] = "task" /\ UNCHANGED queue
          /\ task' = [task EXCEPT ![o] = NoTask] /\ at' = [at EXCEPT ![o] = "loop"]
          /\ outcome' = [outcome EXCEPT ![task[o]] = "done"]
      BY <1>6 DEF EndTask
    <2>2. task[o] \in Tasks /\ outcome[task[o]] = "running"
      BY <1>1, <2>1 DEF Callers
    <2>3. Filed'
      BY <1>1, <2>1, <2>2, FiledByOther
    <2>4. Callers'
      BY <1>1, <1>2, <2>1, <2>2 DEF Callers
    <2> QED
      BY <2>3, <2>4
  <1>7. CASE QuitWhenIdle(o)
    <2>1. /\ queue[o] # <<>> /\ Head(queue[o]) = Quit /\ UNCHANGED <<at, task, outcome>>
          /\ queue' = [queue EXCEPT ![o] = Tail(@)]
      BY <1>7 DEF QuitWhenIdle
    <2>2. Filed'
      BY <1>1, <2>1, FiledByTail
    <2>3. Callers'
      BY <1>2, <2>1 DEF Callers
    <2> QED
      BY <2>2, <2>3
  <1>8. CASE DeleteTask(o)
    <2>0. queue[o] # <<>>
      BY <1>8 DEF DeleteTask
    <2>1. /\ queue[o] # <<>> /\ UNCHANGED task
          /\ queue' = [queue EXCEPT ![o] = Tail(@)] /\ at' = [at EXCEPT ![o] = "deleting"]
          /\ outcome' = [outcome EXCEPT ![Head(queue[o])] = "deleted"]
      BY <1>8, <2>0 DEF DeleteTask
    <2>2. Head(queue[o]) = Quit => outcome' = outcome
      BY <1>1, <2>1
    <2>3. Filed'
      BY <1>1, <2>1, <2>2, FiledByTail
    <2>4. Callers'
      <3> DEFINE h == Head(queue[o])
      <3>1. \A t \in Tasks : outcome[t] # "accepted" => outcome'[t] = outcome[t]
        BY <1>1, <1>4, <2>1, <2>2
      <3> QED
        BY <1>1, <1>2, <2>1, <3>1 DEF Callers
    <2> QED
      BY <2>3, <2>4
  <1>9. CASE Enter(o) \/ Idle(o) \/ Leave(o) \/ Clear(o) \/ Deleted(o) \/ Reload(o)
            \/ Exit(o)
    <2>1. /\ UNCHANGED <<queue, outcome, task>>
          /\ \A q \in Objects : at'[q] = "task" => at[q] = "task"
      BY <1>1, <1>9 DEF Enter, Idle, Leave, Clear, Deleted, Reload, Exit, AfterReload
    <2>2. Filed'
      BY <1>1, <2>1, FiledByOther
    <2>3. Callers'
      BY <1>2, <2>1 DEF Callers
    <2> QED
      BY <2>2, <2>3
  <1> QED
    BY <1>5, <1>6, <1>7, <1>8, <1>9 DEF ThreadMain

\* The UI thread puts the task that quits into a queue, and no thread of it exits.
LEMMA UIConserves ==
  ASSUME Types, Filed, Callers, UIThread
  PROVE  Filed' /\ Callers'
  <1> USE ObjectAssumption DEF Threads
  <1>1. /\ queue \in [Objects -> Seq(Tasks \cup {Quit})] /\ outcome \in [Tasks -> Outcomes]
        /\ at \in [Objects -> Places]
        /\ doing # "nothing" => subject \in Objects
    BY DEF Types, TypeOK, LoopTypes, PosterTypes, HistoryTypes, Locals
  <1>2. UNCHANGED <<stage, closure, task, outcome>>
    BY DEF UIThread, ProfilerMain, CreateThread, StartThread, Started, RunUIMessageLoop,
       DestroyNext, StopSoon, Join, Unregister, FreeObject, ResetThread, Shutdown,
       unchangedByMain, postVars, historyVars
  <1>3. \A q \in Objects : at'[q] = "task" => at[q] = "task"
    BY <1>1 DEF UIThread, ProfilerMain, CreateThread, StartThread, Started,
       RunUIMessageLoop, DestroyNext, StopSoon, Join, Unregister, FreeObject, ResetThread,
       Shutdown
  <1>4. Callers'
    BY <1>2, <1>3 DEF Callers
  <1>5. CASE StopSoon
    <2>1. subject \in Objects /\ queue' = [queue EXCEPT ![subject] = Append(@, Quit)]
      BY <1>1, <1>5 DEF StopSoon
    <2> QED
      BY <1>1, <1>2, <1>4, <2>1, FiledByAppend
  <1>6. CASE ~StopSoon
    <2>1. UNCHANGED queue
      BY <1>6 DEF UIThread, ProfilerMain, CreateThread, StartThread, Started,
         RunUIMessageLoop, DestroyNext, Join, Unregister, FreeObject, ResetThread, Shutdown
    <2> QED
      BY <1>1, <1>2, <1>4, <2>1, FiledByOther
  <1> QED
    BY <1>5, <1>6

\* What is appended to a queue that is not looked at any more is noted.
LEMMA LeftByAppend ==
  ASSUME queue \in [Objects -> Seq(Tasks \cup {Quit})], taken \in [Objects -> Nat], Leftovers,
         NEW o \in Objects, NEW e \in Tasks \cup {Quit},
         queue' = [queue EXCEPT ![o] = Append(@, e)],
         UNCHANGED <<at, taken, passes>>, missed \subseteq missed',
         LooksNoMore(o) => e \in missed' \cup {Quit}
  PROVE  Leftovers'
  <1>1. ASSUME NEW q \in Objects, LooksNoMore(q), NEW n \in DOMAIN queue'[q], n > taken[q]
        PROVE  queue'[q][n] \in missed' \cup {Quit}
    <2>1. CASE q # o
      <3>1. queue'[q] = queue[q]
        BY <2>1
      <3> QED
        BY <1>1, <3>1 DEF Leftovers
    <2>2. CASE q = o
      <3>1. queue[o] \in Seq(Tasks \cup {Quit}) /\ queue'[o] = Append(queue[o], e)
        OBVIOUS
      <3>2. \A k \in DOMAIN Append(queue[o], e) :
              IF k = Len(queue[o]) + 1 THEN Append(queue[o], e)[k] = e
              ELSE k \in DOMAIN queue[o] /\ Append(queue[o], e)[k] = queue[o][k]
        BY <3>1
      <3> QED
        BY <1>1, <2>2, <3>1, <3>2 DEF Leftovers
    <2> QED
      BY <2>1, <2>2
  <1>2. \A q \in Objects : LooksNoMore(q)' <=> LooksNoMore(q)
    BY DEF LooksNoMore, DeletesNoMore
  <1> QED
    BY <1>1, <1>2 DEF Leftovers

\* A task that is posted is noted when it is posted too late.
LEMMA PostLeaves ==
  ASSUME Types, Leftovers, NEW p \in Threads,
         (\E i \in Ids, t \in Tasks : PostTask(p, i, t)) \/ Posting(p)
  PROVE  Leftovers'
  <1>1. UNCHANGED <<at, taken, passes>>
    BY DEF PostTask, Posting, Scan, Compare, Acquire, ReadLoop, ReadNull, Post,
       unchangedByPost, loopVars
  <1>2. CASE UNCHANGED <<queue, missed>>
    BY <1>1, <1>2 DEF Leftovers, LooksNoMore, DeletesNoMore
  <1>3. ASSUME Post(p), at[found[p]] # "exited",
               queue' = [queue EXCEPT ![found[p]] = Append(@, closure[p])],
               missed' = IF DeletesNoMore(found[p]) THEN missed \cup {closure[p]} ELSE missed
        PROVE  Leftovers'
    <2>1. /\ found[p] \in Objects /\ closure[p] \in Tasks \cup {Quit}
          /\ queue \in [Objects -> Seq(Tasks \cup {Quit})] /\ taken \in [Objects -> Nat]
      BY <1>3 DEF Post, Types, TypeOK, LoopTypes, Locals
    <2>2. LooksNoMore(found[p]) => closure[p] \in missed'
      BY <1>3 DEF LooksNoMore
    <2> QED
      BY <1>1, <1>3, <2>1, <2>2, LeftByAppend
  <1> QED
    BY <1>2, <1>3
    DEF PostTask, Posting, Scan, Compare, Acquire, ReadLoop, ReadNull, Post, loopVars,
        historyVars

\* What a pass takes it deletes, and the last one takes what was there.
LEMMA ThreadLeaves ==
  ASSUME Types, Leftovers, NEW o \in Objects, ThreadMain(o)
  PROVE  Leftovers'
  <1>1. /\ queue \in [Objects -> Seq(Tasks \cup {Quit})] /\ at \in [Objects -> Places]
        /\ taken \in [Objects -> Nat] /\ passes \in [Objects -> 0 .. MaxPasses]
        /\ UNCHANGED missed
    BY ThreadPlaces DEF Types, TypeOK, LoopTypes
  <1>2. \A q \in Objects \ {o} : /\ at'[q] = at[q] /\ queue'[q] = queue[q]
                                 /\ taken'[q] = taken[q] /\ passes'[q] = passes[q]
    BY <1>1 DEF ThreadMain, Enter, RunTask, EndTask, QuitWhenIdle, Idle, Leave, Clear,
       DeleteTask, Deleted, Reload, Exit
  <1> DEFINE Fine(q) ==
               /\ at[q] \notin {"cleared", "deleting", "emptied", "exited"} => passes[q] = 0
               /\ at[q] \in {"emptied", "exited"} => taken[q] = 0
               /\ LooksNoMore(q) =>
                    \A n \in DOMAIN queue[q] : n > taken[q] =>
                      queue[q][n] \in missed \cup {Quit}
  <1>3. \A q \in Objects : Fine(q)
    BY DEF Leftovers
  <1>4. \A q \in Objects \ {o} : Fine(q)'
    BY <1>1, <1>2, <1>3 DEF LooksNoMore, DeletesNoMore
  <1>5. ASSUME at[o] \notin {"cleared", "deleting", "emptied", "exited"}, UNCHANGED passes,
               at'[o] \notin {"deleting", "emptied", "exited"}
        PROVE  Fine(o)'
    <2>1. passes'[o] = 0 /\ passes'[o] # MaxPasses
      BY <1>3, <1>5, IdAssumption
    <2> QED
      BY <1>5, <2>1 DEF LooksNoMore, DeletesNoMore
  <1>6. ASSUME \/ Enter(o) \/ RunTask(o) \/ EndTask(o) \/ QuitWhenIdle(o)
               \/ Idle(o) \/ Leave(o) \/ Clear(o)
        PROVE  Fine(o)'
    BY <1>1, <1>5, <1>6 DEF Enter, RunTask, EndTask, QuitWhenIdle, Idle, Leave, Clear, Ready
  <1>7. ASSUME DeleteTask(o)
        PROVE  Fine(o)'
    <2>1. /\ at[o] = "cleared" /\ at'[o] = "deleting" /\ UNCHANGED passes
          /\ queue'[o] = Tail(queue[o]) /\ taken'[o] = taken[o] - 1
          /\ queue[o] \in Seq(Tasks \cup {Quit}) /\ queue[o] # <<>> /\ taken[o] \in Nat
      BY <1>1, <1>7 DEF DeleteTask
    <2>2. \A n \in DOMAIN Tail(queue[o]) :
            n \in Int /\ n + 1 \in DOMAIN queue[o] /\ Tail(queue[o])[n] = queue[o][n + 1]
      BY <2>1
    <2>3. ASSUME LooksNoMore(o), NEW n \in DOMAIN queue'[o], n > taken'[o]
          PROVE  queue'[o][n] \in missed \cup {Quit}
      <3>1. n + 1 \in DOMAIN queue[o] /\ queue'[o][n] = queue[o][n + 1] /\ n + 1 > taken[o]
        BY <2>1, <2>2, <2>3
      <3> QED
        BY <1>3, <2>3, <3>1
    <2> QED
      BY <1>1, <2>1, <2>3 DEF LooksNoMore, DeletesNoMore
  <1>8. ASSUME Deleted(o)
        PROVE  Fine(o)'
    <2>1. at[o] = "deleting" /\ at'[o] = "cleared" /\ UNCHANGED <<queue, taken, passes>>
      BY <1>1, <1>8 DEF Deleted
    <2> QED
      BY <1>1, <1>3, <2>1 DEF LooksNoMore, DeletesNoMore
  <1>9. ASSUME Reload(o)
        PROVE  Fine(o)'
    <2>1. /\ at[o] = "cleared" /\ at'[o] = AfterReload(o) /\ UNCHANGED queue
          /\ taken'[o] = Len(queue[o]) /\ queue[o] \in Seq(Tasks \cup {Quit})
      BY <1>1, <1>9 DEF Reload
    <2>2. \A n \in DOMAIN queue[o] : ~(n > Len(queue[o]))
      BY <2>1
    <2>3. at'[o] \in {"cleared", "emptied"} /\ (at'[o] = "emptied" => Len(queue[o]) = 0)
      BY <2>1 DEF AfterReload
    <2> QED
      BY <2>1, <2>2, <2>3
  <1>10. ASSUME Exit(o)
        PROVE  Fine(o)'
    <2>1. /\ at[o] \in {"cleared", "emptied"} /\ at'[o] = "exited"
          /\ UNCHANGED <<queue, taken, passes>> /\ LooksNoMore(o) /\ taken[o] = 0
      BY <1>1, <1>3, <1>10 DEF Exit, LooksNoMore, DeletesNoMore
    <2> QED
      BY <1>1, <1>3, <2>1
  <1>11. Fine(o)'
    BY <1>6, <1>7, <1>8, <1>9, <1>10 DEF ThreadMain
  <1> HIDE DEF Fine
  <1>12. \A q \in Objects : Fine(q)'
    BY <1>4, <1>11
  <1> QED
    BY <1>12 DEF Fine, Leftovers

\* The UI thread starts threads and stops them, but its own loop only when that was left.
LEMMA UILeaves ==
  ASSUME IInv, Leftovers, UIThread
  PROVE  Leftovers'
  <1> USE ObjectAssumption, IdAssumption
  <1>1. /\ queue \in [Objects -> Seq(Tasks \cup {Quit})] /\ at \in [Objects -> Places]
        /\ taken \in [Objects -> Nat] /\ (doing # "nothing" => subject \in Objects)
        /\ Progress /\ MainThread
    BY DEF IInv, Types, TypeOK, LoopTypes, Locals
  <1>2. UNCHANGED <<passes, missed>>
    BY DEF UIThread, ProfilerMain, CreateThread, StartThread, Started, RunUIMessageLoop,
       DestroyNext, StopSoon, Join, Unregister, FreeObject, ResetThread, Shutdown,
       unchangedByMain, historyVars
  <1>3. CASE StopSoon
    <2>1. /\ subject \in Objects /\ queue' = [queue EXCEPT ![subject] = Append(@, Quit)]
          /\ UNCHANGED <<at, taken>>
      BY <1>1, <1>3 DEF StopSoon
    <2> QED
      BY <1>1, <1>2, <2>1, LeftByAppend
  <1>4. ASSUME NEW o \in Objects, NEW x, UNCHANGED queue, at' = [at EXCEPT ![o] = x],
               \A q \in Objects \ {o} : taken'[q] = taken[q],
               at[o] \notin {"cleared", "deleting", "emptied", "exited"},
               x \in {"entry", "left", "cleared"}
        PROVE  Leftovers'
    <2>1. at'[o] = x /\ \A q \in Objects \ {o} : at'[q] = at[q]
      BY <1>1, <1>4
    <2>2. passes[o] = 0 /\ 0 # MaxPasses
      BY <1>4 DEF Leftovers
    <2>3. ~LooksNoMore(o)'
      BY <1>2, <1>4, <2>1, <2>2 DEF LooksNoMore, DeletesNoMore
    <2>4. \A q \in Objects \ {o} : LooksNoMore(q)' <=> LooksNoMore(q)
      BY <1>2, <2>1 DEF LooksNoMore, DeletesNoMore
    <2> QED
      BY <1>2, <1>4, <2>1, <2>2, <2>3, <2>4 DEF Leftovers
  <1>5. ASSUME UNCHANGED <<at, queue, taken>>
        PROVE  Leftovers'
    BY <1>2, <1>5 DEF Leftovers, LooksNoMore, DeletesNoMore
  <1>6. CASE StartThread
    <2>1. subject \in Objects /\ at[subject] = "none"
      BY <1>1, <1>6 DEF StartThread, Progress
    <2> QED
      BY <1>4, <1>5, <1>6, <2>1 DEF StartThread
  <1>7. CASE Shutdown
    <2>1. /\ UNCHANGED queue /\ at' = [at EXCEPT ![Main] = "left"] /\ at[Main] = "loop"
          /\ \E n : taken' = [taken EXCEPT ![Main] = n]
      BY <1>7 DEF Shutdown
    <2>2. \A q \in Objects \ {Main} : taken'[q] = taken[q]
      BY <1>1, <2>1
    <2> QED
      BY <1>4, <2>1, <2>2
  <1>8. CASE FreeObject
    <2>1. at[Main] \in {"loop", "task", "left"}
      BY <1>1, <1>8 DEF FreeObject, MainThread
    <2> QED
      BY <1>4, <1>5, <1>8, <2>1 DEF FreeObject
  <1>9. CASE ~(StopSoon \/ StartThread \/ Shutdown \/ FreeObject)
    <2>1. UNCHANGED <<at, queue, taken>>
      BY <1>9 DEF UIThread, ProfilerMain, CreateThread, Started, RunUIMessageLoop,
         DestroyNext, Join, Unregister, ResetThread
    <2> QED
      BY <1>5, <2>1
  <1> QED
    BY <1>3, <1>6, <1>7, <1>8, <1>9

\* No task is lost between two queues or held twice: one that was accepted is held until
\* its thread takes it to run or to delete it, and is left behind only if it was accepted
\* after the destructor of the loop had looked for the last time.
THEOREM NoTaskLost == Spec => []TasksConserved
  <1>1. Init => Filed /\ Callers /\ Leftovers
    <2> SUFFICES ASSUME Init
                 PROVE  Filed /\ Callers /\ Leftovers
      OBVIOUS
    <2>1. /\ \A o \in Objects : DOMAIN queue[o] = {}
          /\ \A t \in Tasks : outcome[t] = "new"
      BY DEF Init
    <2>2. Filed
      BY <2>1 DEF Filed
    <2>3. Callers
      BY DEF Init, Callers, Threads
    <2>4. Leftovers
      BY <2>1 DEF Init, Leftovers
    <2> QED
      BY <2>2, <2>3, <2>4
  <1>2. IInv /\ Filed /\ Callers /\ Leftovers /\ [Next]_vars => (Filed /\ Callers /\ Leftovers)'
    <2> SUFFICES ASSUME IInv, Filed, Callers, Leftovers, [Next]_vars
                 PROVE  Filed' /\ Callers' /\ Leftovers'
      OBVIOUS
    <2>1. Types
      BY DEF IInv
    <2>2. CASE UNCHANGED vars
      <3> USE <2>2 DEF vars, registryVars, loopVars, uiVars, postVars, historyVars
      <3>1. Filed' /\ Callers'
        BY DEF Filed, Callers
      <3>2. Leftovers'
        BY DEF Leftovers, LooksNoMore, DeletesNoMore
      <3> QED
        BY <3>1, <3>2
    <2> QED
      BY <2>1, <2>2, PostConserves, ThreadConserves, UIConserves, PostLeaves, ThreadLeaves,
         UILeaves DEF Next, UIThread
  <1>3. IInv /\ Filed /\ Leftovers => TasksConserved
    <2> SUFFICES ASSUME IInv, Filed, Leftovers, NEW t \in Tasks
                 PROVE  /\ outcome[t] = "accepted" =>
                             \E o \in Objects : \E n \in DOMAIN queue[o] : queue[o][n] = t
                        /\ \A o, q \in Objects :
                             \A n \in DOMAIN queue[o], m \in DOMAIN queue[q] :
                               queue[o][n] = t /\ queue[q][m] = t =>
                                 outcome[t] = "accepted" /\ o = q /\ n = m
                        /\ \A o \in Objects :
                             at[o] = "exited" /\ t \in Range(queue[o]) => t \in missed
      BY DEF TasksConserved
    <2>1. t # Quit
      BY ObjectAssumption
    <2>2. ASSUME NEW o \in Objects, at[o] = "exited", t \in Range(queue[o])
          PROVE  t \in missed
      <3>1. PICK n \in DOMAIN queue[o] : queue[o][n] = t
        BY <2>2 DEF Range
      <3>2. queue[o] \in Seq(Tasks \cup {Quit})
        BY DEF IInv, Types, TypeOK, LoopTypes
      <3>3. n > 0
        BY <3>1, <3>2
      <3> QED
        BY <2>1, <2>2, <3>1, <3>3 DEF Leftovers, LooksNoMore
    <2> QED
      BY <2>1, <2>2 DEF Filed
  <1> QED
    BY <1>1, <1>2, <1>3, IInvInductive, PTL DEF Spec
=============================================================================
