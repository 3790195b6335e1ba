-------------------------- MODULE ProfilerLogProofs --------------------------
(***************************************************************************)
(* Theorems of ProfilerLog: the types; that the log is faithful: each      *)
(* action comes to it at most once, after all that its thread reported     *)
(* earlier, and apart from the actions of other processes; and what the    *)
(* liveness of the log rests on: that none is lost on the way, and that a  *)
(* failed channel of the daemon is replaced once.                          *)
(***************************************************************************)
EXTENDS ProfilerLog, QueueLemmas

-----------------------------------------------------------------------------
(***************************************************************************)
(* The types.                                                              *)
(***************************************************************************)

\* Adding to one client's queue and taking from it.
LEMMA PushTypes ==
  ASSUME NEW S, NEW f \in [Clients -> Seq(S)], NEW p \in Clients, NEW x \in S
  PROVE  Push(f, p, x) \in [Clients -> Seq(S)]
  BY AppendProperties DEF Push

\* Taking from it.
LEMMA PopTypes ==
  ASSUME NEW S, NEW f \in [Clients -> Seq(S)], NEW p \in Clients, f[p] # <<>>
  PROVE  Pop(f, p) \in [Clients -> Seq(S)] /\ Head(f[p]) \in S
  BY HeadTailProperties DEF Pop

\* Only that client's queue gets the element,
LEMMA PushAt ==
  ASSUME NEW f, DOMAIN f = Clients, NEW p \in Clients, NEW x
  PROVE  /\ Push(f, p, x)[p] = Append(f[p], x)
         /\ \A r \in Clients \ {p} : Push(f, p, x)[r] = f[r]
  BY DEF Push

\* and only it loses one.
LEMMA PopAt ==
  ASSUME NEW f, DOMAIN f = Clients, NEW p \in Clients
  PROVE  /\ Pop(f, p)[p] = Tail(f[p])
         /\ \A r \in Clients \ {p} : Pop(f, p)[r] = f[r]
  BY DEF Pop

\* A queue of messages is a queue of tasks.
LEMMA MessagesAreTasks ==
  /\ \A q \in Seq(Messages) : q \in Seq(Tasks)
  /\ Signal \in Tasks /\ Signal \notin Messages
  /\ \A m \in Tasks : m # Signal => m \in Messages
  <1>1. Messages \subseteq Tasks
    BY DEF Tasks
  <1>2. ASSUME NEW q \in Seq(Messages)
        PROVE  q \in Seq(Tasks)
    <2>1. q \in [1 .. Len(q) -> Messages] /\ Len(q) \in Nat
      BY SeqDef, LenProperties
    <2> QED
      BY <1>1, <2>1, SeqDef
  <1>3. Signal \notin Messages
    BY LogAssumption DEF Signal, Messages
  <1> QED
    BY <1>2, <1>3 DEF Tasks

\* The messages of the threads and of Init() itself.
LEMMA MessageTypes ==
  ASSUME NEW p \in Clients
  PROVE  /\ \A th \in Threads : \A n \in Nat \ {0} : Message(p, th, n) \in Messages
         /\ Message(p, WinMain, 1) \in Messages
  BY DEF Message, Messages

\* A thread that is about to cache a message has reported it.
Reporting == \A p \in Clients : \A th \in caching[p] : reported[p][th] \in Nat \ {0}

\* Initially every variable has its type.
LEMMA TypesInit == Init => TypeOK /\ Reporting
  <1> SUFFICES ASSUME Init
               PROVE  TypeOK /\ Reporting
    OBVIOUS
  <1>1. \A S : <<>> \in Seq(S) /\ Len(<<>>) = 0
    BY EmptySeq
  <1>2. HookTypes
    BY <1>1, LogAssumption DEF Init, HookTypes, MainPlaces
  <1>3. ClientTypes
    BY <1>1 DEF Init, ClientTypes
  <1>4. DaemonTypes
    BY <1>1, LogAssumption DEF Init, DaemonTypes, DaemonPipes
  <1>5. Reporting
    BY DEF Init, Reporting
  <1> QED
    BY <1>2, <1>3, <1>4, <1>5 DEF TypeOK

\* Every step keeps the types.
LEMMA TypesStep == TypeOK /\ Reporting /\ [Next]_vars => TypeOK'
  <1> SUFFICES ASSUME TypeOK, Reporting, [Next]_vars
               PROVE  TypeOK'
    OBVIOUS
  <1> USE DEF TypeOK, hookVars, cacheVars, clientVars, ioVars, pipeVars, daemonVars
  <1>a. \A p \in Clients : \A th \in Threads : reported[p][th] \in Nat
    BY DEF HookTypes
  <1>b. \A p \in Clients : Push(ui_tasks, p, Signal) \in [Clients -> Seq(Tasks)]
    BY PushTypes, MessagesAreTasks DEF ClientTypes
  <1>1. ASSUME NEW p \in Clients, NEW th \in Threads, Report(p, th)
        PROVE  TypeOK'
    <2> DEFINE m == Message(p, th, reported[p][th] + 1)
    <2>1. m \in Tasks
      <3>1. reported[p][th] + 1 \in Nat \ {0}
        BY <1>a
      <3> QED
        BY <3>1, MessageTypes DEF Tasks
    <2>2. Push(ui_tasks, p, m) \in [Clients -> Seq(Tasks)]
      BY <2>1, PushTypes DEF ClientTypes
    <2>3. /\ reported' = [reported EXCEPT ![p][th] = @ + 1] /\ reported[p][th] < Actions[p]
          /\ caching' = caching \/ caching' = [caching EXCEPT ![p] = @ \cup {th}]
          /\ UNCHANGED <<main, g_logclient_init, g_message_cache>>
      BY <1>1 DEF Report
    <2>4. Actions[p] \in Nat
      BY LogAssumption
    <2>5. \A q \in Clients, t \in Threads : reported'[q][t] <= Actions[q]
      BY <1>a, <2>3, <2>4 DEF HookTypes
    <2>6. HookTypes'
      <3>1. reported' \in [Clients -> [Threads -> Nat]]
        BY <1>a, <2>3 DEF HookTypes
      <3>2. caching' \in [Clients -> SUBSET Threads]
        <4>1. caching \in [Clients -> SUBSET Threads]
          BY DEF HookTypes
        <4>2. CASE caching' = caching
          BY ONLY <4>1, <4>2
        <4>3. CASE caching' = [caching EXCEPT ![p] = @ \cup {th}]
          BY ONLY <4>1, <4>3, p \in Clients, th \in Threads
        <4> QED
          BY <2>3, <4>2, <4>3
      <3>3. /\ main' \in [Clients -> MainPlaces]
            /\ g_logclient_init' \in [Clients -> BOOLEAN]
            /\ g_message_cache' \in [Clients -> Seq(Messages)]
        <4>1. /\ main \in [Clients -> MainPlaces]
              /\ g_logclient_init \in [Clients -> BOOLEAN]
              /\ g_message_cache \in [Clients -> Seq(Messages)]
          BY DEF HookTypes
        <4> QED
          BY ONLY <2>3, <4>1
      <3> QED
        BY <2>5, <3>1, <3>2, <3>3 DEF HookTypes
    <2>7. ClientTypes' /\ DaemonTypes'
      BY <1>1, <2>2 DEF Report, ClientTypes, DaemonTypes
    <2> QED
      BY <2>6, <2>7
  <1>2. ASSUME NEW p \in Clients, NEW th \in Threads, Cache(p, th)
        PROVE  TypeOK'
    <2> DEFINE m == Message(p, th, reported[p][th])
    <2>1. m \in Messages
      BY <1>2, MessageTypes DEF Cache, Reporting
    <2>2. Push(g_message_cache, p, m) \in [Clients -> Seq(Messages)]
      BY <2>1, PushTypes DEF HookTypes
    <2>3. HookTypes'
      BY <1>2, <2>2 DEF Cache, HookTypes
    <2>4. ClientTypes' /\ DaemonTypes'
      BY <1>2 DEF Cache, ClientTypes, DaemonTypes
    <2> QED
      BY <2>3, <2>4
  <1>3. ASSUME NEW p \in Clients, CreateChannel(p)
        PROVE  TypeOK'
    <2>1. HookTypes'
      BY <1>3 DEF CreateChannel, HookTypes, MainPlaces
    <2>2. Push(io_tasks, p, Signal) \in [Clients -> Seq(Tasks)]
      BY PushTypes, MessagesAreTasks DEF ClientTypes
    <2>3. ClientTypes'
      BY <1>3, <2>2 DEF CreateChannel, ClientTypes
    <2>4. DaemonTypes'
      BY <1>3 DEF CreateChannel, DaemonTypes
    <2> QED
      BY <2>1, <2>3, <2>4
  <1>4. ASSUME NEW p \in Clients, Flag(p)
        PROVE  TypeOK'
    <2>1. HookTypes'
      BY <1>4 DEF Flag, HookTypes, MainPlaces
    <2>2. ClientTypes' /\ DaemonTypes'
      BY <1>4 DEF Flag, ClientTypes, DaemonTypes
    <2> QED
      BY <2>1, <2>2
  <1>5. ASSUME NEW p \in Clients, NEW s \in Seq(Messages), Send(p, s)
        PROVE  /\ io_tasks' \in [Clients -> Seq(Tasks)]
               /\ queued_messages_' \in [Clients -> Seq(Messages)]
    <2>1. s \in Seq(Tasks)
      BY MessagesAreTasks
    <2>2. io_tasks[p] \o s \in Seq(Tasks) /\ queued_messages_[p] \o s \in Seq(Messages)
      BY <2>1, ConcatProperties DEF ClientTypes
    <2> QED
      BY <1>5, <2>2 DEF Send, ClientTypes
  <1>6. ASSUME NEW p \in Clients, Drain(p)
        PROVE  TypeOK'
    <2>1. \A S : <<>> \in Seq(S)
      BY EmptySeq
    <2>2. HookTypes'
      BY <1>6, <2>1 DEF Drain, HookTypes, MainPlaces
    <2>3. Append(g_message_cache[p], Message(p, WinMain, 1)) \in Seq(Messages)
      BY MessageTypes, AppendProperties DEF HookTypes
    <2>4. /\ io_tasks' \in [Clients -> Seq(Tasks)]
          /\ queued_messages_' \in [Clients -> Seq(Messages)]
      BY <1>5, <1>6, <2>3 DEF Drain
    <2>5. ClientTypes' /\ DaemonTypes'
      BY <1>6, <2>4 DEF Drain, ClientTypes, DaemonTypes
    <2> QED
      BY <2>2, <2>5
  <1>7. ASSUME NEW p \in Clients, DoAction(p)
        PROVE  TypeOK'
    <2>1. HookTypes'
      BY <1>7 DEF DoAction, HookTypes
    <2>2. Pop(ui_tasks, p) \in [Clients -> Seq(Tasks)] /\ Head(ui_tasks[p]) \in Tasks
      BY <1>7, PopTypes DEF DoAction, HasAction, ClientTypes
    <2>3. <<Head(ui_tasks[p])>> \in Seq(Messages)
      BY <1>7, <2>2, MessagesAreTasks DEF DoAction, HasAction
    <2>4. /\ io_tasks' \in [Clients -> Seq(Tasks)]
          /\ queued_messages_' \in [Clients -> Seq(Messages)]
      BY <1>5, <1>7, <2>3 DEF DoAction
    <2>5. ClientTypes' /\ DaemonTypes'
      BY <1>7, <2>2, <2>4 DEF DoAction, ClientTypes, DaemonTypes
    <2> QED
      BY <2>1, <2>5
  <1>8. ASSUME NEW p \in Clients, OnChannelError(p)
        PROVE  TypeOK'
    <2>1. Pop(ui_tasks, p) \in [Clients -> Seq(Tasks)]
      BY <1>8, PopTypes DEF OnChannelError, HasSignal, ClientTypes
    <2>2. HookTypes'
      BY <1>8 DEF OnChannelError, HookTypes
    <2>3. ClientTypes'
      BY <1>8, <2>1 DEF OnChannelError, ChannelKept, ClientTypes
    <2>4. DaemonTypes'
      BY <1>8 DEF OnChannelError, DaemonTypes
    <2> QED
      BY <2>2, <2>3, <2>4
  <1>9. ASSUME NEW p \in Clients, OnChannelOpened(p)
        PROVE  TypeOK'
    <2>1. Pop(io_tasks, p) \in [Clients -> Seq(Tasks)]
      BY <1>9, PopTypes DEF OnChannelOpened, HasSignal, ClientTypes
    <2>2. HookTypes' /\ DaemonTypes'
      BY <1>9 DEF OnChannelOpened, HookTypes, DaemonTypes
    <2>3. ClientTypes'
      BY <1>b, <1>9, <2>1 DEF OnChannelOpened, ClientTypes
    <2> QED
      BY <2>2, <2>3
  <1>10. ASSUME NEW p \in Clients, OnSendMessage(p)
         PROVE  TypeOK'
    <2>1. Pop(io_tasks, p) \in [Clients -> Seq(Tasks)] /\ Head(io_tasks[p]) \in Tasks
      BY <1>10, PopTypes DEF OnSendMessage, HasAction, ClientTypes
    <2>2. Head(io_tasks[p]) \in Messages
      BY <1>10, <2>1, MessagesAreTasks DEF OnSendMessage, HasAction
    <2>3. Push(output_queue_, p, Head(io_tasks[p])) \in [Clients -> Seq(Messages)]
      BY <2>2, PushTypes DEF ClientTypes
    <2>4. HookTypes' /\ DaemonTypes'
      BY <1>10 DEF OnSendMessage, HookTypes, DaemonTypes
    <2>5. ClientTypes'
      BY <1>b, <1>10, <2>1, <2>3 DEF OnSendMessage, ClientTypes
    <2> QED
      BY <2>4, <2>5
  <1>11. ASSUME NEW p \in Clients, ProcessOutgoingMessages(p)
         PROVE  TypeOK'
    <2>1. /\ Pop(output_queue_, p) \in [Clients -> Seq(Messages)]
          /\ Head(output_queue_[p]) \in Messages
      BY <1>11, PopTypes DEF ProcessOutgoingMessages, ClientTypes
    <2>2. /\ Append(pipe, Head(output_queue_[p])) \in Seq(Messages)
          /\ Len(Append(pipe, Head(output_queue_[p]))) = Len(pipe) + 1 /\ Len(pipe) \in Nat
      BY <2>1, AppendProperties, LenProperties DEF DaemonTypes
    <2>3. Len(pipe) + 1 <= PipeSize
      BY <1>11, <2>2, LogAssumption DEF ProcessOutgoingMessages, Room
    <2>4. HookTypes' /\ ClientTypes'
      BY <1>11, <2>1 DEF ProcessOutgoingMessages, HookTypes, ClientTypes
    <2>5. DaemonTypes'
      BY <1>11, <2>2, <2>3 DEF ProcessOutgoingMessages, DaemonTypes
    <2> QED
      BY <2>4, <2>5
  <1>12. ASSUME NEW p \in Clients, PipeBroken(p)
         PROVE  TypeOK'
    <2>1. \A S : <<>> \in Seq(S)
      BY EmptySeq
    <2>2. HookTypes' /\ DaemonTypes'
      BY <1>12 DEF PipeBroken, HookTypes, DaemonTypes
    <2>3. ClientTypes'
      BY <1>b, <1>12, <2>1 DEF PipeBroken, ClientTypes
    <2> QED
      BY <2>2, <2>3
  <1>13. ASSUME NEW p \in Clients, Exit(p)
         PROVE  TypeOK'
    <2>1. \A S : <<>> \in Seq(S)
      BY EmptySeq
    <2>2. HookTypes' /\ DaemonTypes'
      BY <1>13 DEF Exit, HookTypes, MainPlaces, DaemonTypes
    <2>3. ClientTypes'
      BY <1>13, <2>1 DEF Exit, ClientTypes
    <2> QED
      BY <2>2, <2>3
  <1>14. ASSUME UNCHANGED unchangedByDaemon
         PROVE  HookTypes' /\ ClientTypes'
    BY <1>14 DEF unchangedByDaemon, HookTypes, ClientTypes
  <1>15. CASE DaemonIO
    <2>1. CASE DaemonOpened \/ DaemonConnected
      <3>1. DaemonTypes'
        BY <2>1 DEF DaemonOpened, DaemonConnected, ProcessConnection, Connection, DaemonTypes,
           DaemonPipes
      <3> QED
        BY <1>14, <2>1, <3>1 DEF DaemonOpened, DaemonConnected, ProcessConnection
    <2>2. CASE DaemonRead
      <3>1. pipe \in Seq(Messages) /\ pipe # <<>> /\ Len(pipe) <= PipeSize
        BY <2>2 DEF DaemonRead, DaemonTypes
      <3>2. /\ Head(pipe) \in Messages /\ Tail(pipe) \in Seq(Messages)
            /\ Len(Tail(pipe)) = Len(pipe) - 1 /\ Len(pipe) \in Nat
        BY <3>1, HeadTailProperties, LenProperties
      <3>3. Len(Tail(pipe)) <= PipeSize
        BY <3>1, <3>2, LogAssumption
      <3>4. Append(daemon_tasks, Head(pipe)) \in Seq(Tasks)
        BY <3>2, AppendProperties DEF Tasks, DaemonTypes
      <3>5. DaemonTypes'
        BY <2>2, <3>2, <3>3, <3>4 DEF DaemonRead, DaemonTypes
      <3> QED
        BY <1>14, <2>2, <3>5 DEF DaemonRead
    <2>3. CASE DaemonReadFails
      <3>1. Append(daemon_tasks, Signal) \in Seq(Tasks) /\ \A S : <<>> \in Seq(S)
        BY MessagesAreTasks, AppendProperties, EmptySeq DEF DaemonTypes
      <3>2. Len(<<>>) <= PipeSize
        BY LogAssumption
      <3>3. DaemonTypes'
        BY <2>3, <3>1, <3>2 DEF DaemonReadFails, DaemonTypes, DaemonPipes
      <3> QED
        BY <1>14, <2>3, <3>3 DEF DaemonReadFails
    <2> QED
      BY <1>15, <2>1, <2>2, <2>3 DEF DaemonIO
  <1>16. CASE DaemonUI
    <2>1. /\ daemon_tasks # <<>> /\ daemon_tasks' = Tail(daemon_tasks)
          /\ daemon_tasks \in Seq(Tasks)
      BY <1>16 DEF DaemonUI, DaemonLog, DaemonError, HasAction, HasSignal, DaemonTypes
    <2>2. daemon_tasks' \in Seq(Tasks) /\ Head(daemon_tasks) \in Tasks
      BY <2>1, HeadTailProperties
    <2>3. CASE DaemonLog
      <3>1. Append(log, Head(daemon_tasks)) \in Seq(Messages)
        BY <2>2, <2>3, MessagesAreTasks, AppendProperties DEF DaemonLog, HasAction, DaemonTypes
      <3>2. DaemonTypes'
        BY <2>2, <2>3, <3>1 DEF DaemonLog, DaemonTypes
      <3> QED
        BY <1>14, <2>3, <3>2 DEF DaemonLog
    <2>4. CASE DaemonError
      <3>1. DaemonTypes'
        BY <2>2, <2>4 DEF DaemonError, DaemonInit, DaemonTypes, DaemonPipes
      <3> QED
        BY <1>14, <2>4, <3>1 DEF DaemonError
    <2> QED
      BY <1>16, <2>3, <2>4 DEF DaemonUI
  <1>17. CASE DaemonExit
    <2>1. Len(<<>>) <= PipeSize /\ \A S : <<>> \in Seq(S)
      BY LogAssumption, EmptySeq
    <2>2. DaemonTypes'
      BY <1>17, <2>1 DEF DaemonExit, DaemonTypes, DaemonPipes
    <2> QED
      BY <1>14, <1>17, <2>2 DEF DaemonExit
  <1>18. CASE UNCHANGED vars
    <2>1. HookTypes' /\ ClientTypes'
      BY <1>18 DEF vars, HookTypes, ClientTypes
    <2>2. DaemonTypes'
      BY <1>18 DEF vars, DaemonTypes
    <2> QED
      BY <2>1, <2>2
  <1> QED
    BY <1>1, <1>2, <1>3, <1>4, <1>6, <1>7, <1>8, <1>9, <1>10, <1>11, <1>12, <1>13, <1>15,
       <1>16, <1>17, <1>18 DEF Next, Client, ClientIO

\* Every step keeps the progress of the hooks.
LEMMA ReportingStep == TypeOK /\ Reporting /\ [Next]_vars => Reporting'
  <1> SUFFICES ASSUME TypeOK, Reporting, [Next]_vars
               PROVE  Reporting'
    OBVIOUS
  <1> USE DEF hookVars
  <1>a. /\ reported \in [Clients -> [Threads -> Nat]]
        /\ caching \in [Clients -> SUBSET Threads]
    BY DEF TypeOK, HookTypes
  <1>1. ASSUME NEW p \in Clients, NEW th \in Threads, Report(p, th)
        PROVE  Reporting'
    <2>1. /\ reported' = [reported EXCEPT ![p][th] = @ + 1]
          /\ caching' = caching \/ caching' = [caching EXCEPT ![p] = @ \cup {th}]
      BY <1>1 DEF Report
    <2>2. \A q \in Clients : \A t \in Threads :
            reported'[q][t] = IF q = p /\ t = th THEN reported[p][th] + 1 ELSE reported[q][t]
      BY <1>a, <2>1
    <2>3. \A q \in Clients : \A t \in caching'[q] : t \in caching[q] \/ (q = p /\ t = th)
      BY <1>a, <2>1
    <2> QED
      BY <1>a, <2>2, <2>3 DEF Reporting
  <1>2. ASSUME NEW p \in Clients, \/ \E th \in Threads : Cache(p, th)
                                  \/ Exit(p)
        PROVE  Reporting'
    <2>1. reported' = reported /\ \A q \in Clients : caching'[q] \subseteq caching[q]
      BY <1>a, <1>2 DEF Cache, Exit
    <2> QED
      BY <2>1 DEF Reporting
  <1>3. ASSUME NEW p \in Clients, Client(p) \/ ClientIO(p)
        PROVE  Reporting'
    <2>1. UNCHANGED <<reported, caching>>
      BY <1>3 DEF Client, CreateChannel, Flag, Drain, DoAction, OnChannelError, ClientIO,
         OnChannelOpened, OnSendMessage, ProcessOutgoingMessages, PipeBroken
    <2> QED
      BY <2>1 DEF Reporting
  <1>4. CASE DaemonIO \/ DaemonUI \/ DaemonExit
    <2>1. UNCHANGED <<reported, caching>>
      BY <1>4 DEF DaemonIO, DaemonOpened, DaemonConnected, DaemonRead, DaemonReadFails,
         ProcessConnection, DaemonUI, DaemonLog, DaemonError, DaemonExit, unchangedByDaemon
    <2> QED
      BY <2>1 DEF Reporting
  <1>5. CASE UNCHANGED vars
    BY <1>5 DEF vars, Reporting
  <1> QED
    BY <1>1, <1>2, <1>3, <1>4, <1>5 DEF Next
-----------------------------------------------------------------------------
(***************************************************************************)
(* Order within a queue.                                                   *)
(***************************************************************************)

\* The messages of a queue, and of a task.
Items(q) == ToSet(q) \ {Signal}
Item(x) == {x} \ {Signal}

\* Each message of q is new, also among those that are "before" q on the way to the log,
\* and all that its thread reported earlier are in q before it, before q or "kept".
InOrder(q, before, kept) ==
  \A i \in DOMAIN q : q[i] # Signal =>
    /\ q[i] \notin before /\ \A j \in 1 .. i - 1 : q[j] # q[i]
    /\ Earlier(q[i]) \subseteq before \cup kept \cup {q[j] : j \in 1 .. i - 1}

\* The other task is no message that a thread reported.
LEMMA EarlierMessages ==
  ASSUME NEW m \in Messages
  PROVE  Signal \notin Earlier(m)
  <1>1. m.number \in Nat
    BY DEF Messages
  <1>2. \A n \in 1 .. m.number - 1 : n # 0
    BY <1>1
  <1>3. \A n \in 1 .. m.number - 1 : Message(m.process, m.thread, n).number # Signal.number
    BY <1>2 DEF Message, Signal
  <1> QED
    BY <1>3 DEF Earlier

\* What was in order stays so if what was before it is still before it or is kept.
LEMMA OrderKept ==
  ASSUME NEW q, NEW B, NEW K, NEW B2, NEW K2, InOrder(q, B, K),
         \A m \in Items(q) : m \notin B2 /\ Earlier(m) \cap (B \cup K) \subseteq B2 \cup K2
  PROVE  InOrder(q, B2, K2)
  <1> SUFFICES ASSUME NEW i \in DOMAIN q, q[i] # Signal
               PROVE  /\ q[i] \notin B2 /\ \A j \in 1 .. i - 1 : q[j] # q[i]
                      /\ Earlier(q[i]) \subseteq B2 \cup K2 \cup {q[j] : j \in 1 .. i - 1}
    BY DEF InOrder
  <1>1. q[i] \in Items(q)
    BY DEF Items, ToSet
  <1>2. /\ \A j \in 1 .. i - 1 : q[j] # q[i]
        /\ Earlier(q[i]) \subseteq B \cup K \cup {q[j] : j \in 1 .. i - 1}
    BY DEF InOrder
  <1> QED
    BY <1>1, <1>2

\* Nothing is out of order in an empty queue.
LEMMA OrderEmpty ==
  ASSUME NEW B, NEW K
  PROVE  InOrder(<<>>, B, K) /\ Items(<<>>) = {}
  BY DEF InOrder, Items, ToSet

\* A task that follows all it has to follow.
LEMMA OrderAppend ==
  ASSUME NEW q \in Seq(Tasks), NEW m \in Tasks, NEW B, NEW K, InOrder(q, B, K),
         m # Signal => m \notin B \cup Items(q) /\ Earlier(m) \subseteq B \cup K \cup Items(q)
  PROVE  /\ InOrder(Append(q, m), B, K)
         /\ Items(Append(q, m)) = Items(q) \cup Item(m)
  <1>1. ToSet(Append(q, m)) = ToSet(q) \cup {m}
    BY LastAppend
  <1>2. /\ Len(q) \in Nat /\ DOMAIN q = 1 .. Len(q) /\ DOMAIN Append(q, m) = 1 .. Len(q) + 1
        /\ \A i \in 1 .. Len(q) : Append(q, m)[i] = q[i]
        /\ Append(q, m)[Len(q) + 1] = m
    BY AppendProperties, LenProperties
  <1> DEFINE r == Append(q, m)
             n == Len(q)
  <1>3. ASSUME NEW i \in DOMAIN r, r[i] # Signal
        PROVE  /\ r[i] \notin B /\ \A j \in 1 .. i - 1 : r[j] # r[i]
               /\ Earlier(r[i]) \subseteq B \cup K \cup {r[j] : j \in 1 .. i - 1}
    <2> HIDE DEF r, n
    <2>1. CASE i \in 1 .. n
      <3>1. /\ q[i] \notin B /\ \A j \in 1 .. i - 1 : q[j] # q[i]
            /\ Earlier(q[i]) \subseteq B \cup K \cup {q[j] : j \in 1 .. i - 1}
        BY <1>2, <1>3, <2>1 DEF InOrder, r, n
      <3>2. r[i] = q[i] /\ \A j \in 1 .. i - 1 : r[j] = q[j]
        BY <1>2, <2>1 DEF r, n
      <3>3. {r[j] : j \in 1 .. i - 1} = {q[j] : j \in 1 .. i - 1}
        BY <3>2
      <3> QED
        BY <3>1, <3>2, <3>3
    <2>2. CASE i = n + 1
      <3>1. r[i] = m /\ n \in Nat /\ 1 .. i - 1 = 1 .. n /\ \A j \in 1 .. n : r[j] = q[j]
        BY <1>2, <2>2 DEF r, n
      <3>2. ToSet(q) = {q[j] : j \in 1 .. n}
        BY <1>2 DEF n, ToSet
      <3>3. {r[j] : j \in 1 .. i - 1} = ToSet(q)
        BY <3>1, <3>2
      <3>4. m \notin B \cup Items(q) /\ Earlier(m) \subseteq B \cup K \cup Items(q)
        BY <1>3, <3>1
      <3>5. m \notin ToSet(q) /\ Items(q) \subseteq ToSet(q)
        BY <1>3, <3>1, <3>4 DEF Items
      <3>6. \A j \in 1 .. i - 1 : r[j] # m
        BY <3>1, <3>2, <3>5
      <3> QED
        BY <3>1, <3>3, <3>4, <3>5, <3>6
    <2> QED
      BY <1>2, <1>3, <2>1, <2>2 DEF r, n
  <1>4. InOrder(r, B, K)
    BY <1>3 DEF InOrder
  <1> QED
    BY <1>1, <1>4 DEF Items, Item

\* The first task of a queue: it leaves the others in their order behind it.
LEMMA OrderTail ==
  ASSUME NEW q \in Seq(Tasks), q # <<>>, NEW B, NEW K, InOrder(q, B, K)
  PROVE  /\ Head(q) \in Tasks /\ Tail(q) \in Seq(Tasks)
         /\ InOrder(Tail(q), B \cup Item(Head(q)), K)
         /\ Items(q) = Item(Head(q)) \cup Items(Tail(q))
         /\ Head(q) # Signal => /\ Head(q) \notin B \cup Items(Tail(q))
                                /\ Earlier(Head(q)) \subseteq B \cup K
  <1> DEFINE h == Head(q)
             t == Tail(q)
             H == Item(h)
  <1>1. /\ h \in Tasks /\ t \in Seq(Tasks) /\ h = q[1]
        /\ Len(q) \in Nat \ {0} /\ DOMAIN q = 1 .. Len(q) /\ DOMAIN t = 1 .. Len(q) - 1
        /\ \A i \in 1 .. Len(q) - 1 : t[i] = q[i + 1]
    BY EmptySeq, HeadTailProperties, LenProperties
  <1>2. ToSet(q) = {h} \cup ToSet(t)
    BY HeadTailSet
  <1> HIDE DEF h, t, H
  <1>3. ASSUME NEW i \in DOMAIN t, t[i] # Signal
        PROVE  /\ t[i] \notin B \cup H /\ t[i] # h /\ \A j \in 1 .. i - 1 : t[j] # t[i]
               /\ Earlier(t[i]) \subseteq (B \cup H) \cup K \cup {t[j] : j \in 1 .. i - 1}
    <2>1. i + 1 \in DOMAIN q /\ q[i + 1] = t[i] /\ i + 1 - 1 = i /\ 1 \in 1 .. i
      BY <1>1
    <2>2. /\ t[i] \notin B /\ \A j \in 1 .. i : q[j] # t[i]
          /\ Earlier(t[i]) \subseteq B \cup K \cup {q[j] : j \in 1 .. i}
      BY <1>3, <2>1 DEF InOrder
    <2>3. t[i] # h
      BY <1>1, <2>1, <2>2
    <2>4. \A j \in 1 .. i - 1 : j + 1 \in 1 .. i /\ t[j] = q[j + 1]
      BY <1>1, <2>1
    <2>5. \A j \in 1 .. i - 1 : t[j] # t[i]
      BY <2>2, <2>4
    <2>6. \A j \in 1 .. i : j = 1 \/ (j - 1 \in 1 .. i - 1 /\ q[j] = t[j - 1])
      BY <1>1, <2>1
    <2>7. {q[j] : j \in 1 .. i} \subseteq {h} \cup {t[j] : j \in 1 .. i - 1}
      BY <1>1, <2>6
    <2>8. t[i] \in Messages
      BY <1>1, <1>3, ElementOfSeq, LenProperties, MessagesAreTasks
    <2>9. Signal \notin Earlier(t[i])
      BY <2>8, EarlierMessages
    <2> QED
      BY <2>2, <2>3, <2>5, <2>7, <2>9 DEF H, Item
  <1>4. InOrder(t, B \cup H, K)
    BY <1>3 DEF InOrder
  <1>5. h # Signal => h \notin B /\ Earlier(h) \subseteq B \cup K
    <2>1. 1 \in DOMAIN q /\ {q[j] : j \in 1 .. 1 - 1} = {}
      BY <1>1
    <2> QED
      BY <1>1, <2>1 DEF InOrder
  <1>6. h # Signal => h \notin Items(t)
    BY <1>3 DEF Items, ToSet
  <1> QED
    BY <1>1, <1>2, <1>4, <1>5, <1>6 DEF Items, Item, h, t, H

\* A queue of messages after tasks that are none.
LEMMA OrderConcat ==
  ASSUME NEW q \in Seq(Tasks), Items(q) = {}, NEW u \in Seq(Tasks), NEW B, NEW K,
         InOrder(u, B, K)
  PROVE  InOrder(q \o u, B, K) /\ Items(q \o u) = Items(u)
  <1> DEFINE r == q \o u
             n == Len(q)
  <1>1. /\ Len(q) \in Nat /\ Len(u) \in Nat /\ DOMAIN u = 1 .. Len(u) /\ DOMAIN q = 1 .. Len(q)
        /\ r \in Seq(Tasks) /\ Len(r) = Len(q) + Len(u) /\ DOMAIN r = 1 .. Len(q) + Len(u)
        /\ \A i \in 1 .. Len(q) + Len(u) : r[i] = IF i <= Len(q) THEN q[i] ELSE u[i - Len(q)]
    BY ConcatProperties, LenProperties
  <1>2. ToSet(r) = ToSet(q) \cup ToSet(u)
    BY ConcatSet
  <1>3. \A i \in 1 .. n : r[i] = Signal
    <2>1. \A i \in 1 .. n : r[i] = q[i]
      BY <1>1
    <2> QED
      BY <1>1, <2>1 DEF Items, ToSet
  <1>4. \A i \in 1 .. Len(u) : i + n \in DOMAIN r /\ r[i + n] = u[i]
    <2>1. \A i \in 1 .. Len(u) :
            i + n \in 1 .. Len(q) + Len(u) /\ ~(i + n <= Len(q)) /\ i + n - Len(q) = i
      BY <1>1
    <2> QED
      BY <1>1, <2>1
  <1> HIDE DEF r
  <1>5. ASSUME NEW i \in DOMAIN r, r[i] # Signal
        PROVE  /\ r[i] \notin B /\ \A j \in 1 .. i - 1 : r[j] # r[i]
               /\ Earlier(r[i]) \subseteq B \cup K \cup {r[j] : j \in 1 .. i - 1}
    <2> DEFINE k == i - n
    <2>1. k \in 1 .. Len(u) /\ k + n = i /\ k \in Int /\ n \in Nat
      BY <1>1, <1>3, <1>5
    <2> HIDE DEF k, n
    <2>2. r[i] = u[k]
      BY <1>4, <2>1
    <2>3. /\ u[k] \notin B /\ \A j \in 1 .. k - 1 : u[j] # u[k]
          /\ Earlier(u[k]) \subseteq B \cup K \cup {u[j] : j \in 1 .. k - 1}
      BY <1>1, <1>5, <2>1, <2>2 DEF InOrder
    <2>4. \A j \in 1 .. k - 1 : j + n \in 1 .. i - 1 /\ r[j + n] = u[j]
      BY <1>4, <2>1, SMTT(30)
    <2>5. {u[j] : j \in 1 .. k - 1} \subseteq {r[j] : j \in 1 .. i - 1}
      BY <2>4
    <2>6. ASSUME NEW j \in 1 .. i - 1
          PROVE  r[j] # r[i]
      <3>1. CASE j \in 1 .. n
        BY <1>3, <1>5, <3>1
      <3>2. CASE j \notin 1 .. n
        <4>1. j - n \in 1 .. k - 1 /\ j - n + n = j
          BY <2>1, <3>2
        <4> QED
          BY <2>2, <2>3, <2>4, <4>1
      <3> QED
        BY <3>1, <3>2
    <2> QED
      BY <2>2, <2>3, <2>5, <2>6
  <1>6. InOrder(r, B, K)
    BY <1>5 DEF InOrder
  <1> QED
    BY <1>2, <1>6 DEF Items, r
-----------------------------------------------------------------------------
(***************************************************************************)
(* The places of a message on the way to the log.                          *)
(***************************************************************************)

\* What is in the log, in it or posted to the daemon's UI thread, and so on upstream.
Logged == Items(log)
Posted == Logged \cup Items(daemon_tasks)
Written == Posted \cup Items(pipe)
Queued(p) == Written \cup Items(output_queue_[p])
Tasked(p) == Queued(p) \cup Items(io_tasks[p])

\* Init() has not yet sent the cache.
Early(p) == main[p] \in {"starting", "created", "flagged"}

\* What comes before the tasks of the UI thread: until the cache is sent, the cache too.
Drained(p) == Tasked(p) \cup (IF Early(p) THEN Stranded(p) ELSE {})

\* What the process itself holds.
Own(p) == Items(output_queue_[p]) \cup Items(io_tasks[p]) \cup Items(ui_tasks[p]) \cup Stranded(p)

\* The process may still write to the pipe.
Live(p) == daemon_pipe # "gone" /\ (main[p] = "starting" \/ client_pipe[p] = "open")

Numbered(m) ==
  IF m.thread = WinMain
  THEN m.number = 1 /\ ~Early(m.process)
  ELSE /\ m.number <= reported[m.process][m.thread]
       /\ m.thread \in caching[m.process] => m.number < reported[m.process][m.thread]

\* Messages are where they belong, and are not ahead of what was reported.
Owned ==
  /\ \A p \in Clients : \A m \in Own(p) : m.process = p /\ Numbered(m)
  /\ \A m \in Written : Numbered(m)

\* Until Init() has sent the cache nothing is on its way. A process that is still to write
\* to the pipe has met no error.
Opens(p) ==
  /\ main[p] \in {"flagged", "looping"} => g_logclient_init[p]
  /\ main[p] = "starting" => io_tasks[p] = <<>>
  /\ Early(p) => /\ Items(io_tasks[p]) = {} /\ output_queue_[p] = <<>>
                 /\ \A m \in Written : m.process # p
  /\ Live(p) => /\ Signal \notin ToSet(ui_tasks[p])
                /\ main[p] # "starting" => channel_[p]

Opening ==
  /\ \A p \in Clients : Opens(p)
  /\ daemon_pipe = "gone" => daemon_tasks = <<>> /\ pipe = <<>>

\* The cache is in order until it is sent; what comes to it later is the last message
\* that its thread did not post.
Caching ==
  \A p \in Clients :
    /\ Early(p) =>
         /\ InOrder(g_message_cache[p], {}, {})
         /\ \A th \in Threads : ~g_logclient_init[p] \/ th \in caching[p] =>
              \A n \in 1 .. reported[p][th] :
                \/ n = reported[p][th] /\ th \in caching[p]
                \/ Message(p, th, n) \in Stranded(p)
    /\ main[p] = "looping" =>
         /\ \A m \in Stranded(p) : m.thread \notin caching[p]
         /\ \A m1, m2 \in Stranded(p) : m1.thread = m2.thread => m1 = m2

\* Nothing that a live process reported is missing.
Complete ==
  \A p \in Clients : Live(p) =>
    \A th \in Threads : \A n \in 1 .. reported[p][th] :
      \/ n = reported[p][th] /\ th \in caching[p]
      \/ Message(p, th, n) \in Written \cup Own(p)

Aside == UNION {Stranded(p) : p \in Clients}

\* Every queue on the way is in order, with all the queues downstream before it.
ClientOrder(p) ==
  /\ InOrder(output_queue_[p], Written, Aside)
  /\ InOrder(io_tasks[p], Queued(p), Aside)
  /\ InOrder(ui_tasks[p], Drained(p), Aside)

Orderly ==
  /\ InOrder(log, {}, Aside)
  /\ InOrder(daemon_tasks, Logged, Aside)
  /\ InOrder(pipe, Posted, Aside)
  /\ \A p \in Clients : Live(p) => ClientOrder(p)

\* A task joins the messages of a queue,
LEMMA ItemsAppend ==
  ASSUME NEW q \in Seq(Tasks), NEW m \in Tasks
  PROVE  Items(Append(q, m)) = Items(q) \cup Item(m)
  BY LastAppend DEF Items, Item

\* or leaves them.
LEMMA ItemsTail ==
  ASSUME NEW q \in Seq(Tasks), q # <<>>
  PROVE  /\ Items(q) = Item(Head(q)) \cup Items(Tail(q))
         /\ Head(q) \in Tasks /\ Tail(q) \in Seq(Tasks)
  BY HeadTailSet DEF Items, Item

\* The items of a queue are messages; a queue of messages has no other element.
LEMMA ItemTypes ==
  ASSUME NEW q \in Seq(Tasks)
  PROVE  /\ Items(q) \subseteq Messages
         /\ q \in Seq(Messages) => Items(q) = ToSet(q)
  <1>1. \A m \in ToSet(q) : m \in Tasks
    BY ElementOfSeq, LenProperties DEF ToSet
  <1>2. ASSUME q \in Seq(Messages)
        PROVE  Signal \notin ToSet(q)
    <2>1. \A m \in ToSet(q) : m \in Messages
      BY <1>2, ElementOfSeq, LenProperties DEF ToSet
    <2> QED
      BY <2>1, MessagesAreTasks
  <1> QED
    BY <1>1, <1>2, MessagesAreTasks DEF Items

\* All queues are queues of tasks, and what they hold are messages.
LEMMA Queues ==
  ASSUME TypeOK
  PROVE  /\ ui_tasks \in [Clients -> Seq(Tasks)] /\ io_tasks \in [Clients -> Seq(Tasks)]
         /\ output_queue_ \in [Clients -> Seq(Tasks)]
         /\ g_message_cache \in [Clients -> Seq(Tasks)]
         /\ log \in Seq(Tasks) /\ daemon_tasks \in Seq(Tasks) /\ pipe \in Seq(Tasks)
         /\ \A p \in Clients : /\ Stranded(p) = Items(g_message_cache[p])
                               /\ Own(p) \subseteq Messages
         /\ Written \subseteq Messages /\ Aside \subseteq Messages
  <1>1. /\ ui_tasks \in [Clients -> Seq(Tasks)] /\ io_tasks \in [Clients -> Seq(Tasks)]
        /\ output_queue_ \in [Clients -> Seq(Tasks)]
        /\ g_message_cache \in [Clients -> Seq(Tasks)]
    BY MessagesAreTasks DEF TypeOK, ClientTypes, HookTypes
  <1>2. log \in Seq(Tasks) /\ daemon_tasks \in Seq(Tasks) /\ pipe \in Seq(Tasks)
    BY MessagesAreTasks DEF TypeOK, DaemonTypes
  <1>3. ASSUME NEW p \in Clients
        PROVE  Stranded(p) = Items(g_message_cache[p]) /\ Own(p) \subseteq Messages
    <2>1. g_message_cache[p] \in Seq(Messages) /\ g_message_cache[p] \in Seq(Tasks)
      BY <1>1 DEF TypeOK, HookTypes
    <2>2. Stranded(p) = Items(g_message_cache[p]) /\ Stranded(p) \subseteq Messages
      BY <2>1, ItemTypes DEF Stranded
    <2>3. /\ ui_tasks[p] \in Seq(Tasks) /\ io_tasks[p] \in Seq(Tasks)
          /\ output_queue_[p] \in Seq(Tasks)
      BY <1>1
    <2> QED
      BY <2>2, <2>3, ItemTypes DEF Own
  <1>4. Written \subseteq Messages
    BY <1>2, ItemTypes DEF Written, Posted, Logged
  <1>5. Aside \subseteq Messages
    BY <1>3 DEF Aside, Own
  <1> QED
    BY <1>1, <1>2, <1>3, <1>4, <1>5

\* Adding to and taking from the queue of one process.
LEMMA PushItems ==
  ASSUME NEW f \in [Clients -> Seq(Tasks)], NEW p \in Clients, NEW x \in Tasks
  PROVE  /\ Push(f, p, x)[p] = Append(f[p], x)
         /\ \A r \in Clients \ {p} : Push(f, p, x)[r] = f[r]
         /\ Items(Push(f, p, x)[p]) = Items(f[p]) \cup Item(x)
         /\ f[p] \in Seq(Tasks)
  <1>1. Push(f, p, x)[p] = Append(f[p], x) /\ \A r \in Clients \ {p} : Push(f, p, x)[r] = f[r]
    BY DEF Push
  <1>2. f[p] \in Seq(Tasks)
    OBVIOUS
  <1> QED
    BY <1>1, <1>2, ItemsAppend

\* Taking a client's first task takes its message.
LEMMA PopItems ==
  ASSUME NEW f \in [Clients -> Seq(Tasks)], NEW p \in Clients, f[p] # <<>>
  PROVE  /\ Pop(f, p)[p] = Tail(f[p]) /\ \A r \in Clients \ {p} : Pop(f, p)[r] = f[r]
         /\ Items(f[p]) = Item(Head(f[p])) \cup Items(Pop(f, p)[p])
         /\ Head(f[p]) \in Tasks /\ f[p] \in Seq(Tasks)
  <1>1. Pop(f, p)[p] = Tail(f[p]) /\ \A r \in Clients \ {p} : Pop(f, p)[r] = f[r]
    BY DEF Pop
  <1>2. f[p] \in Seq(Tasks)
    OBVIOUS
  <1> QED
    BY <1>1, <1>2, ItemsTail

\* Messages that go on, while nothing is reported.
LEMMA OwnedKept ==
  ASSUME TypeOK, TypeOK', Owned, UNCHANGED reported,
         \A p \in Clients : caching'[p] \subseteq caching[p] /\ (Early(p)' => Early(p)),
         \A p \in Clients : Own(p)' \subseteq Own(p),
         \A m \in Written' : m \in Written \/ \E q \in Clients : m \in Own(q)
  PROVE  Owned'
  <1>1. ASSUME NEW m \in Messages, Numbered(m)
        PROVE  Numbered(m)'
    <2>1. m.process \in Clients
      BY DEF Messages
    <2>2. m.thread \in caching'[m.process] => m.thread \in caching[m.process]
      BY <2>1
    <2>3. Early(m.process)' => Early(m.process)
      BY <2>1
    <2> QED
      BY <1>1, <2>2, <2>3 DEF Numbered
  <1>2. Written' \subseteq Messages /\ \A p \in Clients : Own(p)' \subseteq Messages
    BY Queues
  <1> QED
    BY <1>1, <1>2 DEF Owned

\* The cache of a process, and what has to do with it.
LEMMA CachingKept ==
  ASSUME Caching, UNCHANGED <<reported, caching, g_message_cache>>,
         \A p \in Clients : /\ Early(p)' => Early(p)
                            /\ main'[p] = "looping" => main[p] = "looping"
                            /\ g_logclient_init[p] => g_logclient_init'[p]
  PROVE  Caching'
  <1>1. \A p \in Clients : Stranded(p)' = Stranded(p)
    BY DEF Stranded
  <1> QED
    BY <1>1 DEF Caching

Flow == Owned /\ Opening /\ Caching /\ Complete /\ Orderly

\* The steps, one lemma for each that reports a message, moves one or drops some.

\* A hook reports to a client, or finds none.
LEMMA ReportFlow ==
  ASSUME TypeOK, TypeOK', Flow, NEW p \in Clients, NEW th \in Threads, Report(p, th)
  PROVE  Flow'
  <1> USE DEF hookVars, cacheVars, clientVars, ioVars, pipeVars, daemonVars
  <1> DEFINE n == reported[p][th] + 1
             m == Message(p, th, n)
  <1>1. /\ UNCHANGED <<main, cacheVars, io_tasks, clientVars, ioVars, pipeVars, daemonVars>>
        /\ main[p] # "dead" /\ th \notin caching[p]
        /\ reported' = [reported EXCEPT ![p][th] = @ + 1]
        /\ \/ g_logclient_init[p] /\ ui_tasks' = Push(ui_tasks, p, m) /\ UNCHANGED caching
           \/ /\ ~g_logclient_init[p] /\ UNCHANGED ui_tasks
              /\ caching' = [caching EXCEPT ![p] = @ \cup {th}]
    BY DEF Report
  <1>2. /\ reported \in [Clients -> [Threads -> Nat]] /\ caching \in [Clients -> SUBSET Threads]
        /\ \A q \in Clients : \A t \in Threads :
             reported'[q][t] = IF q = p /\ t = th THEN n ELSE reported[q][t]
        /\ n \in Nat \ {0} /\ n > reported[p][th]
    <2>1. reported \in [Clients -> [Threads -> Nat]] /\ caching \in [Clients -> SUBSET Threads]
      BY DEF TypeOK, HookTypes
    <2> QED
      BY <1>1, <2>1
  <1>3. /\ Written' = Written /\ Aside' = Aside
        /\ \A q \in Clients : /\ Early(q)' = Early(q) /\ Live(q)' = Live(q)
                              /\ Stranded(q)' = Stranded(q) /\ Queued(q)' = Queued(q)
                              /\ Drained(q)' = Drained(q)
    BY <1>1 DEF Written, Posted, Logged, Aside, Early, Live, Stranded, Queued, Drained, Tasked
  <1>4. /\ m \in Messages /\ m.process = p /\ m.thread = th /\ m.number = n
        /\ m # Signal /\ m \in Tasks /\ th # WinMain
    <2>1. m \in Messages
      BY <1>2, MessageTypes
    <2>2. m # Signal /\ m \in Tasks
      BY <2>1, MessagesAreTasks DEF Tasks
    <2> QED
      BY <2>1, <2>2, LogAssumption DEF Message
  <1> HIDE DEF m
  <1>u. ASSUME ui_tasks' = Push(ui_tasks, p, m)
        PROVE  /\ ui_tasks'[p] = Append(ui_tasks[p], m) /\ ui_tasks[p] \in Seq(Tasks)
               /\ \A r \in Clients \ {p} : ui_tasks'[r] = ui_tasks[r]
               /\ Items(ui_tasks'[p]) = Items(ui_tasks[p]) \cup Item(m)
    <2>1. ui_tasks \in [Clients -> Seq(Tasks)] /\ m \in Tasks /\ p \in Clients
      BY <1>4, Queues
    <2>2. /\ Push(ui_tasks, p, m)[p] = Append(ui_tasks[p], m) /\ ui_tasks[p] \in Seq(Tasks)
          /\ \A r \in Clients \ {p} : Push(ui_tasks, p, m)[r] = ui_tasks[r]
          /\ Items(Push(ui_tasks, p, m)[p]) = Items(ui_tasks[p]) \cup Item(m)
      <3>1. Push(ui_tasks, p, m)[p] = Append(ui_tasks[p], m)
        BY ONLY <2>1, PushItems
      <3>2. ui_tasks[p] \in Seq(Tasks)
        BY ONLY <2>1, PushItems
      <3>3. \A r \in Clients \ {p} : Push(ui_tasks, p, m)[r] = ui_tasks[r]
        BY ONLY <2>1, PushItems
      <3>4. Items(Push(ui_tasks, p, m)[p]) = Items(ui_tasks[p]) \cup Item(m)
        BY ONLY <2>1, PushItems
      <3> QED
        BY ONLY <3>1, <3>2, <3>3, <3>4
    <2> QED
      BY <1>u, <2>2
  <1>5. ASSUME NEW k \in Messages, Numbered(k)
        PROVE  Numbered(k)' /\ k # m
    <2>1. k.process \in Clients /\ (k.thread # WinMain => k.thread \in Threads) /\ k.number \in Nat
      BY DEF Messages
    <2>2. CASE k.thread = WinMain
      BY <1>3, <1>4, <1>5, <2>1, <2>2 DEF Numbered
    <2>3. CASE k.thread # WinMain /\ ~(k.process = p /\ k.thread = th)
      <3>1. /\ reported'[k.process][k.thread] = reported[k.process][k.thread]
            /\ k.thread \in caching'[k.process] => k.thread \in caching[k.process]
        BY <1>1, <1>2, <2>1, <2>3
      <3> QED
        BY <1>4, <1>5, <2>3, <3>1 DEF Numbered
    <2>4. CASE k.process = p /\ k.thread = th
      <3>1. reported'[p][th] = n /\ k.number <= reported[p][th] /\ reported[p][th] \in Nat
        BY <1>2, <1>4, <1>5, <2>4 DEF Numbered
      <3>2. k.number < n
        BY <1>2, <2>1, <3>1
      <3> QED
        BY <1>4, <2>1, <2>4, <3>1, <3>2 DEF Numbered
    <2> QED
      BY <2>2, <2>3, <2>4
  <1>6. \A q \in Clients : Own(q) \subseteq Own(q)' /\ Own(q)' \subseteq Own(q) \cup {m}
    <2>1. CASE UNCHANGED ui_tasks
      BY <1>1, <1>3, <2>1 DEF Own
    <2>2. CASE ui_tasks' = Push(ui_tasks, p, m)
      <3>1. /\ Items(ui_tasks'[p]) = Items(ui_tasks[p]) \cup Item(m)
            /\ \A q \in Clients \ {p} : ui_tasks'[q] = ui_tasks[q]
        BY <1>u, <2>2
      <3> QED
        BY <1>1, <1>3, <1>4, <3>1 DEF Own, Item
    <2> QED
      BY <1>1, <2>1, <2>2
  <1>7. Owned'
    <2>1. \A k \in Written : Numbered(k)'
      BY <1>5, Queues DEF Flow, Owned
    <2>2. ASSUME NEW q \in Clients, NEW k \in Own(q)'
          PROVE  k.process = q /\ Numbered(k)'
      <3>1. CASE k \in Own(q)
        BY <1>5, <3>1, Queues DEF Flow, Owned
      <3>2. CASE k \notin Own(q)
        <4>1. k = m /\ UNCHANGED caching /\ q = p
          <5>1. CASE UNCHANGED ui_tasks
            BY <1>1, <1>3, <2>2, <3>2, <5>1 DEF Own
          <5>2. CASE ui_tasks' = Push(ui_tasks, p, m) /\ UNCHANGED caching
            <6>1. \A r \in Clients \ {p} : ui_tasks'[r] = ui_tasks[r]
              BY <1>u, <5>2
            <6> QED
              BY <1>1, <1>3, <1>6, <2>2, <3>2, <5>2, <6>1 DEF Own
          <5> QED
            BY <1>1, <5>1, <5>2
        <4>2. reported'[p][th] = n /\ th \notin caching'[p]
          BY <1>1, <1>2, <4>1
        <4> QED
          BY <1>2, <1>4, <4>1, <4>2 DEF Numbered
      <3> QED
        BY <3>1, <3>2
    <2> QED
      BY <1>3, <2>1, <2>2 DEF Owned
  <1>8. Opening'
    <2>1. ASSUME NEW q \in Clients, Live(q)
          PROVE  Signal \notin ToSet(ui_tasks'[q])
      <3>1. Signal \notin ToSet(ui_tasks[q])
        BY <2>1 DEF Flow, Opening, Opens
      <3>2. CASE UNCHANGED ui_tasks
        BY <3>1, <3>2
      <3>3. CASE ui_tasks' = Push(ui_tasks, p, m)
        <4>1. /\ ui_tasks'[p] = Append(ui_tasks[p], m) /\ ui_tasks[p] \in Seq(Tasks)
              /\ \A r \in Clients \ {p} : ui_tasks'[r] = ui_tasks[r]
          BY <1>u, <3>3
        <4>2. ToSet(ui_tasks'[p]) = ToSet(ui_tasks[p]) \cup {m}
          BY <1>4, <4>1, LastAppend
        <4> QED
          BY <1>4, <3>1, <4>1, <4>2
      <3> QED
        BY <1>1, <3>2, <3>3
    <2> QED
      BY <1>1, <1>3, <2>1 DEF Flow, Opening, Opens
  <1>9. Caching'
    <2>1. \A q \in Clients : main[q] = "looping" => caching'[q] = caching[q]
      BY <1>1, <1>2 DEF Flow, Opening, Opens
    <2>2. ASSUME NEW q \in Clients, Early(q), NEW t \in Threads,
                 ~g_logclient_init[q] \/ t \in caching'[q], NEW k \in 1 .. reported'[q][t]
          PROVE  \/ k = reported'[q][t] /\ t \in caching'[q]
                 \/ Message(q, t, k) \in Stranded(q)
      <3>1. CASE q # p \/ t # th
        <4>1. /\ reported'[q][t] = reported[q][t]
              /\ t \in caching'[q] <=> t \in caching[q]
          BY <1>1, <1>2, <3>1
        <4> QED
          BY <2>2, <4>1 DEF Flow, Caching
      <3>2. CASE q = p /\ t = th
        <4>1. ~g_logclient_init[p] /\ th \in caching'[p] /\ reported'[p][th] = n
          BY <1>1, <1>2, <2>2, <3>2
        <4>2. k = n \/ k \in 1 .. reported[p][th]
          BY <1>2, <2>2, <3>2, <4>1
        <4> QED
          BY <1>1, <2>2, <3>2, <4>1, <4>2 DEF Flow, Caching
      <3> QED
        BY <3>1, <3>2
    <2> QED
      BY <1>1, <1>3, <2>1, <2>2 DEF Flow, Caching
  <1>10. Complete'
    <2> SUFFICES ASSUME NEW q \in Clients, Live(q), NEW t \in Threads,
                        NEW k \in 1 .. reported'[q][t]
                 PROVE  \/ k = reported'[q][t] /\ t \in caching'[q]
                        \/ Message(q, t, k) \in Written' \cup Own(q)'
      BY <1>3 DEF Complete
    <2>1. CASE q # p \/ t # th
      <3>1. reported'[q][t] = reported[q][t] /\ (t \in caching[q] <=> t \in caching'[q])
        BY <1>1, <1>2, <2>1
      <3> QED
        BY <1>3, <1>6, <3>1 DEF Flow, Complete
    <2>2. CASE q = p /\ t = th
      <3>1. reported'[p][th] = n /\ (k = n \/ k \in 1 .. reported[p][th])
        <4>1. reported[p][th] \in Nat /\ k \in 1 .. n
          BY <1>2, <2>2
        <4> QED
          BY <1>2, <4>1
      <3>2. k \in 1 .. reported[p][th] => Message(q, t, k) \in Written' \cup Own(q)'
        BY <1>1, <1>3, <1>6, <2>2 DEF Flow, Complete
      <3>3. k = n => (th \in caching'[p] \/ m \in Own(p)')
        <4>1. CASE caching' = [caching EXCEPT ![p] = @ \cup {th}]
          BY <1>2, <4>1
        <4>2. CASE ui_tasks' = Push(ui_tasks, p, m)
          <5>1. Items(ui_tasks'[p]) = Items(ui_tasks[p]) \cup Item(m)
            BY <1>u, <4>2
          <5> QED
            BY <1>4, <5>1 DEF Own, Item
        <4> QED
          BY <1>1, <4>1, <4>2
      <3> QED
        BY <2>2, <3>1, <3>2, <3>3 DEF m
    <2> QED
      BY <2>1, <2>2
  <1>11. Orderly'
    <2>1. \A q \in Clients : Live(q) => /\ InOrder(output_queue_[q], Written, Aside)
                                        /\ InOrder(io_tasks[q], Queued(q), Aside)
                                        /\ InOrder(ui_tasks[q], Drained(q), Aside)
      BY DEF Flow, Orderly, ClientOrder
    <2>2. ASSUME NEW q \in Clients, Live(q)
          PROVE  InOrder(ui_tasks'[q], Drained(q), Aside)
      <3>1. CASE ui_tasks'[q] = ui_tasks[q]
        BY <2>1, <2>2, <3>1
      <3>2. CASE ui_tasks' = Push(ui_tasks, p, m) /\ q = p
        <4>1. ui_tasks'[p] = Append(ui_tasks[p], m) /\ ui_tasks[p] \in Seq(Tasks)
          BY <1>u, <3>2
        <4>2. m \notin Written \cup Own(p)
          BY <1>5, Queues DEF Flow, Owned
        <4>3. /\ Drained(p) \subseteq Written \cup Own(p)
              /\ Items(ui_tasks[p]) \subseteq Own(p)
              /\ Written \cup Own(p) \subseteq Drained(p) \cup Aside \cup Items(ui_tasks[p])
          BY DEF Drained, Tasked, Queued, Own, Aside
        <4>4. Earlier(m) \subseteq Written \cup Own(p)
          <5>1. m.number - 1 = reported[p][th]
            BY <1>2, <1>4
          <5>2. \A k \in 1 .. reported[p][th] : Message(p, th, k) \in Written \cup Own(p)
            BY <1>1, <2>2, <3>2 DEF Flow, Complete
          <5> QED
            BY <1>4, <5>1, <5>2 DEF Earlier
        <4>5. m \notin Drained(p) \cup Items(ui_tasks[p])
          BY <4>2, <4>3
        <4>6. Earlier(m) \subseteq Drained(p) \cup Aside \cup Items(ui_tasks[p])
          BY <4>3, <4>4
        <4> QED
          BY <1>4, <2>1, <2>2, <3>2, <4>1, <4>5, <4>6, OrderAppend
      <3>3. ui_tasks'[q] = ui_tasks[q] \/ (ui_tasks' = Push(ui_tasks, p, m) /\ q = p)
        BY <1>1, <1>u
      <3> QED
        BY <3>1, <3>2, <3>3
    <2>3. /\ Logged' = Logged /\ Posted' = Posted
          /\ UNCHANGED <<log, daemon_tasks, pipe, output_queue_, io_tasks>>
      BY <1>1 DEF Logged, Posted
    <2> QED
      BY <1>3, <2>1, <2>2, <2>3 DEF Flow, Orderly, ClientOrder
  <1> QED
    BY <1>7, <1>8, <1>9, <1>10, <1>11 DEF Flow

\* ProfilerData caches what was reported.
LEMMA CacheFlow ==
  ASSUME TypeOK, TypeOK', Reporting, Flow, NEW p \in Clients, NEW th \in Threads, Cache(p, th)
  PROVE  Flow'
  <1> USE DEF hookVars, cacheVars, clientVars, ioVars, pipeVars, daemonVars
  <1> DEFINE n == reported[p][th]
             m == Message(p, th, n)
  <1>1. /\ UNCHANGED <<main, reported, g_logclient_init, ui_tasks, io_tasks, clientVars, ioVars,
                       pipeVars, daemonVars>>
        /\ main[p] # "dead" /\ th \in caching[p]
        /\ caching' = [caching EXCEPT ![p] = @ \ {th}]
        /\ g_message_cache' = Push(g_message_cache, p, m)
    BY DEF Cache
  <1>2. n \in Nat \ {0} /\ caching \in [Clients -> SUBSET Threads] /\ th # WinMain
    BY <1>1, LogAssumption DEF Reporting, TypeOK, HookTypes
  <1>3. /\ m \in Messages /\ m.process = p /\ m.thread = th /\ m.number = n
        /\ m # Signal /\ m \in Tasks
    <2>1. m \in Messages
      BY <1>2, MessageTypes
    <2>2. m # Signal /\ m \in Tasks
      BY <2>1, MessagesAreTasks DEF Tasks
    <2> QED
      BY <2>1, <2>2 DEF Message
  <1> HIDE DEF m, n
  <1>4. /\ g_message_cache'[p] = Append(g_message_cache[p], m)
        /\ g_message_cache[p] \in Seq(Tasks)
        /\ \A r \in Clients \ {p} : g_message_cache'[r] = g_message_cache[r]
        /\ Items(g_message_cache'[p]) = Items(g_message_cache[p]) \cup Item(m)
    <2>1. g_message_cache \in [Clients -> Seq(Tasks)] /\ m \in Tasks /\ p \in Clients
      BY <1>3, Queues
    <2>2. /\ Push(g_message_cache, p, m)[p] = Append(g_message_cache[p], m)
          /\ g_message_cache[p] \in Seq(Tasks)
          /\ \A r \in Clients \ {p} : Push(g_message_cache, p, m)[r] = g_message_cache[r]
          /\ Items(Push(g_message_cache, p, m)[p]) = Items(g_message_cache[p]) \cup Item(m)
      <3>1. Push(g_message_cache, p, m)[p] = Append(g_message_cache[p], m)
        BY ONLY <2>1, PushItems
      <3>2. g_message_cache[p] \in Seq(Tasks)
        BY ONLY <2>1, PushItems
      <3>3. \A r \in Clients \ {p} : Push(g_message_cache, p, m)[r] = g_message_cache[r]
        BY ONLY <2>1, PushItems
      <3>4. Items(Push(g_message_cache, p, m)[p]) = Items(g_message_cache[p]) \cup Item(m)
        BY ONLY <2>1, PushItems
      <3> QED
        BY ONLY <3>1, <3>2, <3>3, <3>4
    <2> QED
      BY <1>1, <2>2
  <1>5. /\ Stranded(p)' = Stranded(p) \cup {m}
        /\ \A q \in Clients \ {p} : Stranded(q)' = Stranded(q)
        /\ Stranded(p) = Items(g_message_cache[p])
    <2>1. /\ g_message_cache[p] \in Seq(Messages) /\ g_message_cache[p] \in Seq(Tasks)
          /\ g_message_cache'[p] \in Seq(Messages) /\ g_message_cache'[p] \in Seq(Tasks)
      BY MessagesAreTasks DEF TypeOK, HookTypes
    <2>3. Stranded(p) = Items(g_message_cache[p]) /\ Stranded(p)' = Items(g_message_cache'[p])
      BY <2>1, ItemTypes DEF Stranded
    <2>2. Item(m) = {m}
      BY <1>3 DEF Item
    <2> QED
      BY <1>4, <2>2, <2>3 DEF Stranded
  <1>6. /\ caching'[p] = caching[p] \ {th} /\ \A q \in Clients \ {p} : caching'[q] = caching[q]
        /\ Written' = Written /\ Logged' = Logged /\ Posted' = Posted
        /\ \A q \in Clients : /\ Early(q)' = Early(q) /\ Live(q)' = Live(q)
                              /\ Queued(q)' = Queued(q) /\ Tasked(q)' = Tasked(q)
    BY <1>1, <1>2 DEF Written, Posted, Logged, Early, Live, Queued, Tasked
  <1>7. /\ Aside' = Aside \cup {m} /\ Own(p)' = Own(p) \cup {m}
        /\ \A q \in Clients \ {p} : Own(q)' = Own(q) /\ Drained(q)' = Drained(q)
        /\ Drained(p)' = Drained(p) \cup (IF Early(p) THEN {m} ELSE {})
    <2>1. Aside' = Aside \cup {m}
      BY <1>5 DEF Aside
    <2>2. Own(p)' = Own(p) \cup {m} /\ \A q \in Clients \ {p} : Own(q)' = Own(q)
      BY <1>1, <1>5 DEF Own
    <2>3. \A q \in Clients \ {p} : Drained(q)' = Drained(q)
      BY <1>5, <1>6 DEF Drained
    <2>4. CASE Early(p)
      BY <1>5, <1>6, <2>1, <2>2, <2>3, <2>4 DEF Drained
    <2>5. CASE ~Early(p)
      BY <1>5, <1>6, <2>1, <2>2, <2>3, <2>5 DEF Drained
    <2> QED
      BY <2>4, <2>5
  <1>8. ASSUME NEW k \in Messages, Numbered(k)
        PROVE  Numbered(k)' /\ k # m
    <2>1. k.process \in Clients /\ k.number \in Nat
      BY DEF Messages
    <2>2. k.thread \in caching'[k.process] => k.thread \in caching[k.process]
      BY <1>6, <2>1
    <2>3. Numbered(k)'
      BY <1>1, <1>6, <1>8, <2>1, <2>2 DEF Numbered
    <2>4. k # m
      BY <1>1, <1>2, <1>3, <1>8 DEF Numbered, n
    <2> QED
      BY <2>3, <2>4
  <1>9. Owned'
    <2>1. n = reported'[p][th] /\ n \in Nat /\ n <= n /\ th \notin caching'[p]
      BY <1>1, <1>2, <1>6 DEF n
    <2>2. Written \subseteq Messages /\ \A q \in Clients : Own(q) \subseteq Messages
      BY Queues
    <2>3. ASSUME NEW q \in Clients, NEW k \in Own(q)'
          PROVE  k.process = q /\ Numbered(k)'
      <3>1. CASE k \in Own(q)
        <4>1. k.process = q /\ Numbered(k) /\ k \in Messages
          BY <2>2, <3>1 DEF Flow, Owned
        <4> QED
          BY <1>8, <4>1
      <3>2. CASE k \notin Own(q)
        <4>1. k = m /\ q = p
          BY <1>7, <2>3, <3>2
        <4> QED
          BY <1>2, <1>3, <2>1, <4>1 DEF Numbered
      <3> QED
        BY <3>1, <3>2
    <2> QED
      BY <1>6, <1>8, <2>2, <2>3 DEF Flow, Owned
  <1>10. Opening'
    BY <1>1, <1>6 DEF Flow, Opening, Opens
  <1>11. Early(p) => Earlier(m) \subseteq Stranded(p)
    <2>1. SUFFICES ASSUME Early(p), NEW k \in 1 .. n - 1
                   PROVE  Message(p, th, k) \in Stranded(p)
      BY <1>3 DEF Earlier
    <2>2. k \in 1 .. n /\ k # n
      BY <1>2, <2>1
    <2> QED
      BY <1>1, <2>1, <2>2 DEF Flow, Caching, n
  <1>12. m \notin Written \cup Own(p)
    BY <1>8, Queues DEF Flow, Owned
  <1>13. Caching'
    <2> SUFFICES ASSUME NEW q \in Clients
                 PROVE  /\ Early(q) =>
                             /\ InOrder(g_message_cache'[q], {}, {})
                             /\ \A t \in Threads : ~g_logclient_init[q] \/ t \in caching'[q] =>
                                  \A k \in 1 .. reported[q][t] :
                                    \/ k = reported[q][t] /\ t \in caching'[q]
                                    \/ Message(q, t, k) \in Stranded(q)'
                        /\ main[q] = "looping" =>
                             /\ \A k \in Stranded(q)' : k.thread \notin caching'[q]
                             /\ \A k1, k2 \in Stranded(q)' : k1.thread = k2.thread => k1 = k2
      BY <1>1, <1>6 DEF Caching
    <2>1. CASE q # p
      <3>1. /\ g_message_cache'[q] = g_message_cache[q] /\ caching'[q] = caching[q]
            /\ Stranded(q)' = Stranded(q)
        BY <1>4, <1>5, <1>6, <2>1
      <3> QED
        BY <3>1 DEF Flow, Caching
    <2>2. CASE q = p
      <3>1. Early(p) => InOrder(g_message_cache'[p], {}, {})
        <4>1. SUFFICES ASSUME Early(p)
                       PROVE  InOrder(Append(g_message_cache[p], m), {}, {})
          BY <1>4
        <4>2. InOrder(g_message_cache[p], {}, {})
          BY <4>1 DEF Flow, Caching
        <4>3. m \notin Items(g_message_cache[p]) /\ Earlier(m) \subseteq Items(g_message_cache[p])
          BY <1>5, <1>11, <1>12, <4>1 DEF Own
        <4> QED
          BY <1>3, <1>4, <4>2, <4>3, OrderAppend
      <3>2. ASSUME Early(p), NEW t \in Threads, ~g_logclient_init[p] \/ t \in caching'[p],
                   NEW k \in 1 .. reported[p][t]
            PROVE  \/ k = reported[p][t] /\ t \in caching'[p]
                   \/ Message(p, t, k) \in Stranded(p)'
        <4>1. \/ k = reported[p][t] /\ t \in caching[p]
              \/ Message(p, t, k) \in Stranded(p)
          BY <1>6, <3>2 DEF Flow, Caching
        <4>2. t = th /\ k = reported[p][t] => Message(p, t, k) = m
          BY DEF m, n
        <4> QED
          BY <1>5, <1>6, <4>1, <4>2
      <3>3. main[p] = "looping" => /\ \A k \in Stranded(p)' : k.thread \notin caching'[p]
                                   /\ \A k1, k2 \in Stranded(p)' :
                                        k1.thread = k2.thread => k1 = k2
        <4>1. SUFFICES ASSUME main[p] = "looping"
                       PROVE  /\ \A k \in Stranded(p)' : k.thread \notin caching'[p]
                              /\ \A k1, k2 \in Stranded(p)' : k1.thread = k2.thread => k1 = k2
          OBVIOUS
        <4>2. /\ \A k \in Stranded(p) : k.thread \notin caching[p]
              /\ \A k1, k2 \in Stranded(p) : k1.thread = k2.thread => k1 = k2
          BY <4>1 DEF Flow, Caching
        <4> QED
          BY <1>1, <1>3, <1>5, <1>6, <4>2
      <3> QED
        BY <2>2, <3>1, <3>2, <3>3
    <2> QED
      BY <2>1, <2>2
  <1>14. Complete'
    <2> SUFFICES ASSUME NEW q \in Clients, Live(q), NEW t \in Threads, NEW k \in 1 .. reported[q][t]
                 PROVE  \/ k = reported[q][t] /\ t \in caching'[q]
                        \/ Message(q, t, k) \in Written \cup Own(q)'
      BY <1>1, <1>6 DEF Complete
    <2>1. \/ k = reported[q][t] /\ t \in caching[q]
          \/ Message(q, t, k) \in Written \cup Own(q)
      BY DEF Flow, Complete
    <2>2. q = p /\ t = th /\ k = reported[q][t] => Message(q, t, k) = m
      BY DEF m, n
    <2> QED
      BY <1>6, <1>7, <2>1, <2>2
  <1>15. Orderly'
    <2>1. ASSUME NEW q, NEW B, InOrder(q, B, Aside), \A k \in Items(q) : k \notin B
          PROVE  InOrder(q, B, Aside')
      BY <1>7, <2>1, OrderKept
    <2>2. ASSUME NEW q, NEW B, InOrder(q, B, Aside)
          PROVE  \A k \in Items(q) : k \notin B
      BY <2>2 DEF InOrder, Items, ToSet
    <2>3. \A q \in Clients : Live(q) => /\ InOrder(output_queue_[q], Written, Aside)
                                        /\ InOrder(io_tasks[q], Queued(q), Aside)
                                        /\ InOrder(ui_tasks[q], Drained(q), Aside)
      BY DEF Flow, Orderly, ClientOrder
    <2>4. ASSUME NEW q \in Clients, Live(q)
          PROVE  InOrder(ui_tasks[q], Drained(q)', Aside')
      <3>1. CASE q # p
        BY <1>7, <2>1, <2>2, <2>3, <2>4, <3>1
      <3>2. CASE q = p
        <4>1. \A k \in Items(ui_tasks[p]) : k \notin Drained(p)
          BY <2>2, <2>3, <2>4, <3>2
        <4>2. m \notin Items(ui_tasks[p])
          BY <1>12 DEF Own
        <4>3. \A k \in Items(ui_tasks[p]) : /\ k \notin Drained(p)'
                                            /\ Earlier(k) \cap (Drained(p) \cup Aside)
                                                 \subseteq Drained(p)' \cup Aside'
          BY <1>7, <4>1, <4>2
        <4> QED
          BY <2>3, <2>4, <3>2, <4>3, OrderKept
      <3> QED
        BY <3>1, <3>2
    <2> QED
      BY <1>1, <1>6, <2>1, <2>2, <2>3, <2>4 DEF Flow, Orderly, ClientOrder
  <1> QED
    BY <1>9, <1>10, <1>13, <1>14, <1>15 DEF Flow
-----------------------------------------------------------------------------
(***************************************************************************)
(* Messages that move.                                                     *)
(***************************************************************************)

\* What is in order is new.
LEMMA OrderNew ==
  ASSUME NEW q, NEW B, NEW K, InOrder(q, B, K)
  PROVE  \A m \in Items(q) : m \notin B
  BY DEF InOrder, Items, ToSet

\* What is kept may change, but for the messages that have to be before those of q.
LEMMA OrderAside ==
  ASSUME NEW q, NEW B, NEW K, NEW K2, InOrder(q, B, K),
         \A m \in Items(q) : Earlier(m) \cap K \subseteq K2
  PROVE  InOrder(q, B, K2)
  <1>1. \A m \in Items(q) : m \notin B /\ Earlier(m) \cap (B \cup K) \subseteq B \cup K2
    BY OrderNew
  <1> QED
    BY <1>1, OrderKept

\* The first task of a queue moves to the queue downstream.
LEMMA OrderMove ==
  ASSUME NEW q \in Seq(Tasks), q # <<>>, NEW u \in Seq(Tasks), NEW B, NEW K,
         InOrder(u, B, K), InOrder(q, B \cup Items(u), K)
  PROVE  /\ InOrder(Append(u, Head(q)), B, K)
         /\ InOrder(Tail(q), B \cup Items(Append(u, Head(q))), K)
         /\ Items(Append(u, Head(q))) = Items(u) \cup Item(Head(q))
         /\ Items(q) = Item(Head(q)) \cup Items(Tail(q))
  <1> DEFINE h == Head(q)
             C == B \cup Items(u)
  <1> HIDE DEF C
  <1>1. /\ h \in Tasks /\ InOrder(Tail(q), C \cup Item(h), K)
        /\ Items(q) = Item(h) \cup Items(Tail(q))
        /\ h # Signal => h \notin C /\ Earlier(h) \subseteq C \cup K
    <2>1. q \in Seq(Tasks) /\ q # <<>> /\ InOrder(q, C, K)
      BY DEF C
    <2> QED
      BY ONLY <2>1, OrderTail
  <1> HIDE DEF h
  <1>2. InOrder(Append(u, h), B, K) /\ Items(Append(u, h)) = Items(u) \cup Item(h)
    <2>1. h # Signal => h \notin B \cup Items(u) /\ Earlier(h) \subseteq B \cup K \cup Items(u)
      BY <1>1 DEF C
    <2> QED
      BY <1>1, <2>1, OrderAppend
  <1>3. B \cup Items(Append(u, h)) = C \cup Item(h)
    BY <1>2 DEF C
  <1> QED
    BY <1>1, <1>2, <1>3 DEF h

\* A step of process p leaves the other processes alone.
Elsewhere(p) ==
  \A r \in Clients \ {p} :
    /\ main'[r] = main[r] /\ caching'[r] = caching[r]
    /\ g_logclient_init'[r] = g_logclient_init[r] /\ g_message_cache'[r] = g_message_cache[r]
    /\ ui_tasks'[r] = ui_tasks[r] /\ io_tasks'[r] = io_tasks[r]
    /\ channel_'[r] = channel_[r] /\ client_pipe'[r] = client_pipe[r]
    /\ output_queue_'[r] = output_queue_[r]

\* Such a step has to keep what is said of p; the rest follows.
LEMMA ClientFlow ==
  ASSUME TypeOK, TypeOK', Flow, NEW p \in Clients, Elsewhere(p),
         UNCHANGED <<reported, daemon_pipe, daemon_tasks, log>>,
         Owned', Caching', Opens(p)',
         Live(p)' => /\ Live(p) /\ ClientOrder(p)' /\ caching'[p] = caching[p]
                     /\ Own(p) \subseteq Written' \cup Own(p)',
         Written \subseteq Written' /\ Written' \subseteq Written \cup Own(p),
         daemon_pipe = "gone" => pipe' = pipe,
         InOrder(pipe', Posted, Aside),
         \/ Stranded(p)' = Stranded(p)
         \/ Stranded(p)' \subseteq Stranded(p) /\ \A m \in Written' : m.process # p
  PROVE  Flow'
  <1>1. ASSUME NEW r \in Clients, r # p
        PROVE  /\ Early(r)' = Early(r) /\ Live(r)' = Live(r) /\ Stranded(r)' = Stranded(r)
               /\ Own(r)' = Own(r)
    BY <1>1 DEF Elsewhere, Early, Live, Stranded, Own
  <1>2. Logged' = Logged /\ Posted' = Posted /\ Written' = Posted \cup Items(pipe')
    BY DEF Logged, Posted, Written
  <1>3. \A r \in Clients : \A m \in Own(r) : m.process = r
    BY DEF Flow, Owned
  <1>4. ASSUME NEW m, m \in Written' \/ m.process # p
        PROVE  Earlier(m) \cap Aside \subseteq Aside'
    <2> SUFFICES ASSUME NEW k \in Earlier(m), NEW q \in Clients, k \in Stranded(q)
                 PROVE  k \in Aside'
      BY DEF Aside
    <2>1. k.process = m.process
      BY DEF Earlier, Message
    <2>2. k.process = q
      BY <1>3 DEF Own
    <2>3. k \in Stranded(q)'
      BY <1>1, <1>4, <2>1, <2>2
    <2> QED
      BY <2>3 DEF Aside
  <1>5. InOrder(log', {}, Aside') /\ InOrder(daemon_tasks', Logged', Aside')
    <2>1. Items(log) \subseteq Written' /\ Items(daemon_tasks) \subseteq Written'
      BY <1>2 DEF Logged, Posted
    <2>2. InOrder(log, {}, Aside) /\ InOrder(daemon_tasks, Logged, Aside)
      BY DEF Flow, Orderly
    <2>3. InOrder(log, {}, Aside')
      BY <1>4, <2>1, <2>2, OrderAside
    <2>4. InOrder(daemon_tasks, Logged, Aside')
      BY <1>4, <2>1, <2>2, OrderAside
    <2> QED
      BY <1>2, <2>3, <2>4
  <1>6. InOrder(pipe', Posted', Aside')
    <2>1. Items(pipe') \subseteq Written'
      BY <1>2
    <2>2. InOrder(pipe', Posted, Aside')
      BY <1>4, <2>1, OrderAside
    <2> QED
      BY <1>2, <2>2
  <1>7. ASSUME NEW r \in Clients, r # p, Live(r)
        PROVE  ClientOrder(r)'
    <2>1. /\ output_queue_'[r] = output_queue_[r] /\ io_tasks'[r] = io_tasks[r]
          /\ ui_tasks'[r] = ui_tasks[r]
      BY <1>7 DEF Elsewhere
    <2>2. ASSUME NEW q, NEW B, NEW B2, InOrder(q, B, Aside), Items(q) \subseteq Own(r),
                 B \subseteq B2, B2 \subseteq B \cup Own(p)
          PROVE  InOrder(q, B2, Aside')
      <3>1. \A m \in Items(q) : m \notin B
        BY <2>2, OrderNew
      <3>2. \A m \in Items(q) : m.process # p /\ m \notin Own(p)
        BY <1>3, <1>7, <2>2
      <3>3. \A m \in Items(q) :
              m \notin B2 /\ Earlier(m) \cap (B \cup Aside) \subseteq B2 \cup Aside'
        BY <1>4, <2>2, <3>1, <3>2
      <3> QED
        BY <2>2, <3>3, OrderKept
    <2>3. /\ Queued(r) \subseteq Queued(r)' /\ Queued(r)' \subseteq Queued(r) \cup Own(p)
          /\ Tasked(r) \subseteq Tasked(r)' /\ Tasked(r)' \subseteq Tasked(r) \cup Own(p)
      BY <2>1 DEF Queued, Tasked
    <2>4. Drained(r) \subseteq Drained(r)' /\ Drained(r)' \subseteq Drained(r) \cup Own(p)
      BY <1>1, <1>7, <2>3 DEF Drained
    <2>5. /\ Items(output_queue_[r]) \subseteq Own(r) /\ Items(io_tasks[r]) \subseteq Own(r)
          /\ Items(ui_tasks[r]) \subseteq Own(r)
      BY DEF Own
    <2>6. /\ InOrder(output_queue_[r], Written, Aside)
          /\ InOrder(io_tasks[r], Queued(r), Aside)
          /\ InOrder(ui_tasks[r], Drained(r), Aside)
      BY <1>7 DEF Flow, Orderly, ClientOrder
    <2>7. InOrder(output_queue_[r], Written', Aside')
      BY <2>2, <2>5, <2>6
    <2>8. InOrder(io_tasks[r], Queued(r)', Aside')
      BY <2>2, <2>3, <2>5, <2>6
    <2>9. InOrder(ui_tasks[r], Drained(r)', Aside')
      BY <2>2, <2>4, <2>5, <2>6
    <2> QED
      BY <2>1, <2>7, <2>8, <2>9 DEF ClientOrder
  <1>8. Orderly'
    <2>1. ASSUME NEW r \in Clients, Live(r)'
          PROVE  ClientOrder(r)'
      BY <1>1, <1>7, <2>1
    <2> QED
      BY <1>5, <1>6, <2>1 DEF Orderly
  <1>9. Opening'
    <2>1. ASSUME NEW r \in Clients, r # p
          PROVE  Opens(r)'
      <3>1. Opens(r)
        BY DEF Flow, Opening
      <3>2. \A m \in Written' : m \in Written \/ m.process # r
        BY <1>3, <2>1
      <3>3. /\ main'[r] = main[r] /\ g_logclient_init'[r] = g_logclient_init[r]
            /\ ui_tasks'[r] = ui_tasks[r] /\ io_tasks'[r] = io_tasks[r]
            /\ channel_'[r] = channel_[r] /\ output_queue_'[r] = output_queue_[r]
        BY <2>1 DEF Elsewhere
      <3> QED
        BY <1>1, <2>1, <3>1, <3>2, <3>3 DEF Opens
    <2>2. daemon_pipe' = "gone" => daemon_tasks' = <<>> /\ pipe' = <<>>
      BY DEF Flow, Opening
    <2>3. \A r \in Clients : Opens(r)'
      BY <2>1
    <2> QED
      BY <2>2, <2>3 DEF Opening
  <1>10. Complete'
    <2> SUFFICES ASSUME NEW r \in Clients, Live(r)', NEW t \in Threads, NEW k \in 1 .. reported[r][t]
                 PROVE  \/ k = reported[r][t] /\ t \in caching'[r]
                        \/ Message(r, t, k) \in Written' \cup Own(r)'
      BY DEF Complete
    <2>1. Live(r) /\ caching'[r] = caching[r] /\ Own(r) \subseteq Written' \cup Own(r)'
      BY <1>1 DEF Elsewhere
    <2> QED
      BY <2>1 DEF Flow, Complete
  <1> QED
    BY <1>8, <1>9, <1>10 DEF Flow

\* The same for a step that leaves the cache and the threads that report alone.
LEMMA ClientKeeps ==
  ASSUME TypeOK, TypeOK', Flow, NEW p \in Clients, Elsewhere(p),
         UNCHANGED <<reported, caching, g_message_cache, daemon_pipe, daemon_tasks, log>>,
         Early(p)' => Early(p), main'[p] = "looping" => main[p] = "looping",
         g_logclient_init[p] => g_logclient_init'[p],
         Own(p)' \subseteq Own(p), Opens(p)',
         Live(p)' => Live(p) /\ ClientOrder(p)' /\ Own(p) \subseteq Written' \cup Own(p)',
         Written \subseteq Written' /\ Written' \subseteq Written \cup Own(p),
         daemon_pipe = "gone" => pipe' = pipe,
         InOrder(pipe', Posted, Aside)
  PROVE  Flow'
  <1>1. ASSUME NEW r \in Clients
        PROVE  /\ Early(r)' => Early(r)
               /\ Own(r)' \subseteq Own(r)
               /\ main'[r] = "looping" => main[r] = "looping"
               /\ g_logclient_init[r] => g_logclient_init'[r]
    <2>1. CASE r = p
      BY <2>1
    <2>2. CASE r # p
      BY <2>2 DEF Elsewhere, Early, Own, Stranded
    <2> QED
      BY <2>1, <2>2
  <1>2. Owned'
    <2>1. \A m \in Written' : m \in Written \/ \E q \in Clients : m \in Own(q)
      OBVIOUS
    <2>2. Owned
      BY DEF Flow
    <2>3. \A r \in Clients : caching'[r] \subseteq caching[r] /\ (Early(r)' => Early(r))
      BY <1>1
    <2>4. \A r \in Clients : Own(r)' \subseteq Own(r)
      BY <1>1
    <2> QED
      BY <2>1, <2>2, <2>3, <2>4, OwnedKept
  <1>3. Caching'
    BY <1>1, CachingKept DEF Flow
  <1>4. Stranded(p)' = Stranded(p)
    BY DEF Stranded
  <1> QED
    BY <1>2, <1>3, <1>4, ClientFlow

\* The client creates its channel.
LEMMA CreateChannelFlow ==
  ASSUME TypeOK, TypeOK', Flow, NEW p \in Clients, CreateChannel(p)
  PROVE  Flow'
  <1> USE DEF hookVars, cacheVars, clientVars, ioVars, pipeVars, daemonVars
  <1>1. /\ main[p] = "starting" /\ main' = [main EXCEPT ![p] = "created"]
        /\ channel_' = [channel_ EXCEPT ![p] = TRUE] /\ io_tasks' = Push(io_tasks, p, Signal)
        /\ client_pipe' = [client_pipe EXCEPT ![p] = "open"] \/ UNCHANGED client_pipe
        /\ UNCHANGED <<hookVars, cacheVars, ui_tasks, queued_messages_, output_queue_, pipe,
                       daemonVars>>
    BY DEF CreateChannel
  <1>2. /\ main \in [Clients -> MainPlaces] /\ channel_ \in [Clients -> BOOLEAN]
        /\ client_pipe \in [Clients -> {"open", "closed"}]
    BY DEF TypeOK, HookTypes, ClientTypes
  <1>3. /\ io_tasks'[p] = Append(io_tasks[p], Signal) /\ io_tasks[p] \in Seq(Tasks)
        /\ \A r \in Clients \ {p} : io_tasks'[r] = io_tasks[r]
        /\ Items(io_tasks'[p]) = Items(io_tasks[p])
    <2>1. io_tasks \in [Clients -> Seq(Tasks)] /\ Signal \in Tasks /\ p \in Clients
      BY Queues, MessagesAreTasks
    <2>2. /\ Push(io_tasks, p, Signal)[p] = Append(io_tasks[p], Signal)
          /\ io_tasks[p] \in Seq(Tasks)
          /\ \A r \in Clients \ {p} : Push(io_tasks, p, Signal)[r] = io_tasks[r]
          /\ Items(Push(io_tasks, p, Signal)[p]) = Items(io_tasks[p]) \cup Item(Signal)
      <3>1. Push(io_tasks, p, Signal)[p] = Append(io_tasks[p], Signal)
        BY ONLY <2>1, PushItems
      <3>2. io_tasks[p] \in Seq(Tasks)
        BY ONLY <2>1, PushItems
      <3>3. \A r \in Clients \ {p} : Push(io_tasks, p, Signal)[r] = io_tasks[r]
        BY ONLY <2>1, PushItems
      <3>4. Items(Push(io_tasks, p, Signal)[p]) = Items(io_tasks[p]) \cup Item(Signal)
        BY ONLY <2>1, PushItems
      <3> QED
        BY ONLY <3>1, <3>2, <3>3, <3>4
    <2> QED
      BY <1>1, <2>2 DEF Item
  <1>4. Elsewhere(p)
    BY <1>1, <1>2, <1>3 DEF Elsewhere
  <1>5. /\ main'[p] = "created" /\ channel_'[p]
        /\ Early(p) /\ Early(p)'
        /\ Live(p)' => Live(p)
    BY <1>1, <1>2 DEF Early, Live
  <1>6. /\ Written' = Written /\ Aside' = Aside /\ Own(p)' = Own(p) /\ Posted' = Posted
        /\ Queued(p)' = Queued(p) /\ Drained(p)' = Drained(p)
    <2>1. Written' = Written /\ Aside' = Aside /\ Stranded(p)' = Stranded(p) /\ Posted' = Posted
      BY <1>1 DEF Written, Posted, Logged, Aside, Stranded
    <2> QED
      BY <1>1, <1>3, <1>5, <2>1 DEF Own, Queued, Tasked, Drained
  <1>7. Opens(p)'
    <2>1. Opens(p)
      BY DEF Flow, Opening
    <2> QED
      BY <1>1, <1>3, <1>5, <1>6, <2>1 DEF Opens
  <1>8. Live(p)' => ClientOrder(p)'
    <2>1. SUFFICES ASSUME Live(p)'
                   PROVE  ClientOrder(p)'
      OBVIOUS
    <2>2. ClientOrder(p)
      BY <1>5, <2>1 DEF Flow, Orderly
    <2>3. InOrder(Append(io_tasks[p], Signal), Queued(p), Aside)
      BY <1>3, <2>2, MessagesAreTasks, OrderAppend DEF ClientOrder
    <2> QED
      BY <1>1, <1>3, <1>6, <2>2, <2>3 DEF ClientOrder
  <1>9. InOrder(pipe', Posted, Aside)
    BY <1>1 DEF Flow, Orderly
  <1> QED
    BY <1>1, <1>4, <1>5, <1>6, <1>7, <1>8, <1>9, ClientKeeps

\* The flag of the initialised client is set.
LEMMA FlagFlow ==
  ASSUME TypeOK, TypeOK', Flow, NEW p \in Clients, Flag(p)
  PROVE  Flow'
  <1> USE DEF hookVars, cacheVars, clientVars, ioVars, pipeVars, daemonVars
  <1>1. /\ main[p] = "created" /\ main' = [main EXCEPT ![p] = "flagged"]
        /\ g_logclient_init' = [g_logclient_init EXCEPT ![p] = TRUE]
        /\ UNCHANGED <<hookVars, g_message_cache, ui_tasks, io_tasks, clientVars, ioVars,
                       pipeVars, daemonVars>>
    BY DEF Flag
  <1>2. main \in [Clients -> MainPlaces] /\ g_logclient_init \in [Clients -> BOOLEAN]
    BY DEF TypeOK, HookTypes
  <1>3. Elsewhere(p)
    BY <1>1, <1>2 DEF Elsewhere
  <1>4. /\ main'[p] = "flagged" /\ g_logclient_init'[p]
        /\ Early(p) /\ Early(p)'
        /\ Live(p)' => Live(p)
    BY <1>1, <1>2 DEF Early, Live
  <1>5. /\ Written' = Written /\ Aside' = Aside /\ Stranded(p)' = Stranded(p)
        /\ Posted' = Posted
    BY <1>1 DEF Written, Posted, Logged, Aside, Stranded
  <1>6. Own(p)' = Own(p) /\ Queued(p)' = Queued(p) /\ Drained(p)' = Drained(p)
    BY <1>1, <1>4, <1>5 DEF Own, Queued, Tasked, Drained
  <1>7. Opens(p)'
    <2>1. Opens(p)
      BY DEF Flow, Opening
    <2> QED
      BY <1>1, <1>4, <1>5, <2>1 DEF Opens
  <1>8. Live(p)' => ClientOrder(p)'
    <2>1. Live(p)' => ClientOrder(p)
      BY <1>4 DEF Flow, Orderly
    <2> QED
      BY <1>1, <1>5, <1>6, <2>1 DEF ClientOrder
  <1>9. InOrder(pipe', Posted, Aside)
    BY <1>1 DEF Flow, Orderly
  <1> QED
    BY <1>1, <1>3, <1>4, <1>5, <1>6, <1>7, <1>8, <1>9, ClientKeeps

\* The client sends its next message.
LEMMA DoActionFlow ==
  ASSUME TypeOK, TypeOK', Flow, NEW p \in Clients, DoAction(p)
  PROVE  Flow'
  <1> USE DEF hookVars, cacheVars, clientVars, ioVars, pipeVars, daemonVars
  <1> DEFINE h == Head(ui_tasks[p])
  <1>1. /\ main[p] = "looping" /\ ui_tasks[p] # <<>> /\ h # Signal
        /\ ui_tasks' = Pop(ui_tasks, p) /\ Send(p, <<h>>)
        /\ UNCHANGED <<main, hookVars, cacheVars, channel_, ioVars, pipeVars, daemonVars>>
    BY DEF DoAction, HasAction
  <1>2. /\ ui_tasks'[p] = Tail(ui_tasks[p]) /\ ui_tasks[p] \in Seq(Tasks) /\ h \in Tasks
        /\ \A r \in Clients \ {p} : ui_tasks'[r] = ui_tasks[r]
        /\ Items(ui_tasks[p]) = Item(h) \cup Items(ui_tasks'[p])
    <2>1. ui_tasks \in [Clients -> Seq(Tasks)] /\ p \in Clients /\ ui_tasks[p] # <<>>
      BY <1>1, Queues
    <2>2. /\ Pop(ui_tasks, p)[p] = Tail(ui_tasks[p])
          /\ \A r \in Clients \ {p} : Pop(ui_tasks, p)[r] = ui_tasks[r]
          /\ Items(ui_tasks[p]) = Item(h) \cup Items(Pop(ui_tasks, p)[p])
          /\ h \in Tasks /\ ui_tasks[p] \in Seq(Tasks)
      <3>1. Pop(ui_tasks, p)[p] = Tail(ui_tasks[p])
        BY ONLY <2>1, PopItems
      <3>2. \A r \in Clients \ {p} : Pop(ui_tasks, p)[r] = ui_tasks[r]
        BY ONLY <2>1, PopItems
      <3>3. Items(ui_tasks[p]) = Item(h) \cup Items(Pop(ui_tasks, p)[p])
        BY ONLY <2>1, PopItems
      <3>4. h \in Tasks
        BY ONLY <2>1, PopItems
      <3>5. ui_tasks[p] \in Seq(Tasks)
        BY ONLY <2>1, PopItems
      <3> QED
        BY ONLY <3>1, <3>2, <3>3, <3>4, <3>5
    <2> QED
      BY <1>1, <2>2
  <1>3. io_tasks \in [Clients -> Seq(Tasks)] /\ io_tasks[p] \in Seq(Tasks)
    BY Queues
  <1> HIDE DEF h
  <1>4. CASE ~channel_[p]
    <2>1. ~Live(p)
      BY <1>1, <1>4 DEF Flow, Opening, Opens
    <2>2. io_tasks' = io_tasks
      BY <1>1, <1>4 DEF Send
    <2>3. Elsewhere(p)
      BY <1>1, <1>2, <2>2 DEF Elsewhere
    <2>4. Own(p)' \subseteq Own(p) /\ Written' = Written /\ ~Live(p)' /\ ~Early(p)'
      BY <1>1, <1>2, <2>1, <2>2 DEF Own, Written, Posted, Logged, Live, Early, Stranded
    <2>5. Opens(p)'
      BY <1>1, <2>4 DEF Flow, Opening, Opens, Early
    <2>6. InOrder(pipe', Posted, Aside)
      BY <1>1 DEF Flow, Orderly
    <2> QED
      BY <1>1, <2>3, <2>4, <2>5, <2>6, ClientKeeps
  <1>5. CASE channel_[p]
    <2>1. io_tasks'[p] = Append(io_tasks[p], h)
      <3>1. io_tasks'[p] = io_tasks[p] \o <<h>>
        BY <1>1, <1>3, <1>5 DEF Send
      <3> QED
        BY <1>2, <1>3, <3>1, AppendIsConcat
    <2>2. \A r \in Clients \ {p} : io_tasks'[r] = io_tasks[r]
      BY <1>1, <1>3, <1>5 DEF Send
    <2>3. Items(io_tasks'[p]) = Items(io_tasks[p]) \cup Item(h)
      BY <1>2, <1>3, <2>1, ItemsAppend
    <2>4. Elsewhere(p)
      BY <1>1, <1>2, <2>2 DEF Elsewhere
    <2>5. /\ Written' = Written /\ Aside' = Aside /\ Stranded(p)' = Stranded(p)
          /\ Live(p)' = Live(p) /\ ~Early(p) /\ ~Early(p)'
      BY <1>1 DEF Written, Posted, Logged, Aside, Live, Early, Stranded
    <2>6. Own(p)' = Own(p) /\ Queued(p)' = Queued(p)
      BY <1>1, <1>2, <2>3, <2>5 DEF Own, Queued
    <2>7. Opens(p)'
      <3>1. ToSet(ui_tasks'[p]) \subseteq ToSet(ui_tasks[p])
        BY <1>1, <1>2, HeadTailSet
      <3>2. Opens(p)
        BY DEF Flow, Opening
      <3> QED
        BY <1>1, <2>5, <3>1, <3>2 DEF Opens
    <2>8. Live(p) => ClientOrder(p)'
      <3> SUFFICES ASSUME Live(p)
                   PROVE  ClientOrder(p)'
        OBVIOUS
      <3>1. ClientOrder(p)
        BY DEF Flow, Orderly
      <3>2. /\ Drained(p) = Queued(p) \cup Items(io_tasks[p])
            /\ Drained(p)' = Queued(p)' \cup Items(io_tasks'[p])
        BY <2>5 DEF Drained, Tasked
      <3>3. /\ InOrder(io_tasks[p], Queued(p), Aside)
            /\ InOrder(ui_tasks[p], Queued(p) \cup Items(io_tasks[p]), Aside)
        BY <3>1, <3>2 DEF ClientOrder
      <3>4. /\ InOrder(Append(io_tasks[p], h), Queued(p), Aside)
            /\ InOrder(Tail(ui_tasks[p]), Queued(p) \cup Items(Append(io_tasks[p], h)), Aside)
        BY <1>1, <1>2, <1>3, <3>3, OrderMove DEF h
      <3>5. InOrder(output_queue_'[p], Written', Aside')
        BY <1>1, <2>5, <3>1 DEF ClientOrder
      <3>6. InOrder(io_tasks'[p], Queued(p)', Aside')
        BY <2>1, <2>5, <2>6, <3>4
      <3>7. InOrder(ui_tasks'[p], Drained(p)', Aside')
        BY <1>2, <2>1, <2>5, <2>6, <3>2, <3>4
      <3> QED
        BY <3>5, <3>6, <3>7 DEF ClientOrder
    <2>9. InOrder(pipe', Posted, Aside)
      BY <1>1 DEF Flow, Orderly
    <2> QED
      BY <1>1, <2>4, <2>5, <2>6, <2>7, <2>8, <2>9, ClientKeeps
  <1> QED
    BY <1>4, <1>5

\* The client takes the signal that its channel failed.
LEMMA OnChannelErrorFlow ==
  ASSUME TypeOK, TypeOK', Flow, NEW p \in Clients, OnChannelError(p)
  PROVE  Flow'
  <1> USE DEF hookVars, cacheVars, clientVars, ioVars, pipeVars, daemonVars
  <1>1. /\ main[p] = "looping" /\ ui_tasks[p] # <<>> /\ Head(ui_tasks[p]) = Signal
        /\ ui_tasks' = Pop(ui_tasks, p) /\ channel_' = [channel_ EXCEPT ![p] = FALSE]
        /\ UNCHANGED <<main, hookVars, cacheVars, io_tasks, ioVars, pipe, daemonVars>>
    BY DEF OnChannelError, HasSignal, ChannelKept
  <1>2. /\ ui_tasks[p] \in Seq(Tasks)
        /\ \A r \in Clients \ {p} : ui_tasks'[r] = ui_tasks[r]
        /\ Items(ui_tasks'[p]) \subseteq Items(ui_tasks[p])
    <2>1. ui_tasks \in [Clients -> Seq(Tasks)] /\ p \in Clients /\ ui_tasks[p] # <<>>
      BY <1>1, Queues
    <2>2. /\ \A r \in Clients \ {p} : Pop(ui_tasks, p)[r] = ui_tasks[r]
          /\ Items(ui_tasks[p]) = Item(Head(ui_tasks[p])) \cup Items(Pop(ui_tasks, p)[p])
          /\ ui_tasks[p] \in Seq(Tasks)
      <3>1. \A r \in Clients \ {p} : Pop(ui_tasks, p)[r] = ui_tasks[r]
        BY ONLY <2>1, PopItems
      <3>2. Items(ui_tasks[p]) = Item(Head(ui_tasks[p])) \cup Items(Pop(ui_tasks, p)[p])
        BY ONLY <2>1, PopItems
      <3>3. ui_tasks[p] \in Seq(Tasks)
        BY ONLY <2>1, PopItems
      <3> QED
        BY ONLY <3>1, <3>2, <3>3
    <2> QED
      BY <1>1, <2>2
  <1>3. ~Live(p)
    <2>1. Signal \in ToSet(ui_tasks[p])
      BY <1>1, <1>2, HeadTailSet
    <2> QED
      BY <2>1 DEF Flow, Opening, Opens
  <1>4. Elsewhere(p)
    <2>1. channel_ \in [Clients -> BOOLEAN]
      BY DEF TypeOK, ClientTypes
    <2> QED
      BY <1>1, <1>2, <2>1 DEF Elsewhere
  <1>5. Own(p)' \subseteq Own(p) /\ Written' = Written /\ ~Live(p)' /\ ~Early(p)'
    BY <1>1, <1>2, <1>3 DEF Own, Written, Posted, Logged, Live, Early, Stranded
  <1>6. Opens(p)'
    BY <1>1, <1>5 DEF Flow, Opening, Opens, Early
  <1>7. InOrder(pipe', Posted, Aside)
    BY <1>1 DEF Flow, Orderly
  <1> QED
    BY <1>1, <1>4, <1>5, <1>6, <1>7, ClientKeeps

\* The first task of the IO thread, and the queue without it.
LEMMA IoTail ==
  ASSUME TypeOK, NEW p \in Clients, io_tasks[p] # <<>>, io_tasks' = Pop(io_tasks, p)
  PROVE  /\ io_tasks'[p] = Tail(io_tasks[p]) /\ io_tasks[p] \in Seq(Tasks)
         /\ Head(io_tasks[p]) \in Tasks
         /\ \A r \in Clients \ {p} : io_tasks'[r] = io_tasks[r]
         /\ Items(io_tasks[p]) = Item(Head(io_tasks[p])) \cup Items(io_tasks'[p])
  <1>1. io_tasks \in [Clients -> Seq(Tasks)] /\ p \in Clients /\ io_tasks[p] # <<>>
    BY Queues
  <1>2. /\ Pop(io_tasks, p)[p] = Tail(io_tasks[p]) /\ io_tasks[p] \in Seq(Tasks)
        /\ \A r \in Clients \ {p} : Pop(io_tasks, p)[r] = io_tasks[r]
        /\ Items(io_tasks[p]) = Item(Head(io_tasks[p])) \cup Items(Pop(io_tasks, p)[p])
        /\ Head(io_tasks[p]) \in Tasks
    <2>1. Pop(io_tasks, p)[p] = Tail(io_tasks[p])
      BY ONLY <1>1, PopItems
    <2>2. io_tasks[p] \in Seq(Tasks)
      BY ONLY <1>1, PopItems
    <2>3. \A r \in Clients \ {p} : Pop(io_tasks, p)[r] = io_tasks[r]
      BY ONLY <1>1, PopItems
    <2>4. Items(io_tasks[p]) = Item(Head(io_tasks[p])) \cup Items(Pop(io_tasks, p)[p])
      BY ONLY <1>1, PopItems
    <2>5. Head(io_tasks[p]) \in Tasks
      BY ONLY <1>1, PopItems
    <2> QED
      BY ONLY <2>1, <2>2, <2>3, <2>4, <2>5
  <1> QED
    BY <1>2

\* The error that is posted to the UI thread is no message.
LEMMA ErrorPosted ==
  ASSUME TypeOK, NEW p \in Clients, ui_tasks' = Push(ui_tasks, p, Signal)
  PROVE  /\ Items(ui_tasks'[p]) = Items(ui_tasks[p])
         /\ \A r \in Clients \ {p} : ui_tasks'[r] = ui_tasks[r]
  <1>1. ui_tasks \in [Clients -> Seq(Tasks)] /\ Signal \in Tasks /\ p \in Clients
    BY Queues, MessagesAreTasks
  <1>2. /\ Items(Push(ui_tasks, p, Signal)[p]) = Items(ui_tasks[p]) \cup Item(Signal)
        /\ \A r \in Clients \ {p} : Push(ui_tasks, p, Signal)[r] = ui_tasks[r]
    <2>1. Items(Push(ui_tasks, p, Signal)[p]) = Items(ui_tasks[p]) \cup Item(Signal)
      BY ONLY <1>1, PushItems
    <2>2. \A r \in Clients \ {p} : Push(ui_tasks, p, Signal)[r] = ui_tasks[r]
      BY ONLY <1>1, PushItems
    <2> QED
      BY ONLY <2>1, <2>2
  <1> QED
    BY <1>2 DEF Item

\* The channel is opened, and the client told so.
LEMMA OnChannelOpenedFlow ==
  ASSUME TypeOK, TypeOK', Flow, NEW p \in Clients, OnChannelOpened(p)
  PROVE  Flow'
  <1> USE DEF hookVars, cacheVars, clientVars, ioVars, pipeVars, daemonVars
  <1>1. /\ io_tasks[p] # <<>> /\ Head(io_tasks[p]) = Signal /\ io_tasks' = Pop(io_tasks, p)
        /\ client_pipe[p] = "open" => UNCHANGED ui_tasks
        /\ UNCHANGED ui_tasks \/ ui_tasks' = Push(ui_tasks, p, Signal)
        /\ UNCHANGED <<main, hookVars, cacheVars, clientVars, ioVars, pipeVars, daemonVars>>
    BY DEF OnChannelOpened, HasSignal
  <1>2. /\ io_tasks'[p] = Tail(io_tasks[p]) /\ io_tasks[p] \in Seq(Tasks)
        /\ \A r \in Clients \ {p} : io_tasks'[r] = io_tasks[r]
        /\ Items(io_tasks'[p]) = Items(io_tasks[p])
    BY <1>1, IoTail DEF Item
  <1>3. /\ Items(ui_tasks'[p]) = Items(ui_tasks[p])
        /\ \A r \in Clients \ {p} : ui_tasks'[r] = ui_tasks[r]
    BY <1>1, ErrorPosted
  <1>4. Elsewhere(p)
    BY <1>1, <1>2, <1>3 DEF Elsewhere
  <1>5. /\ Written' = Written /\ Aside' = Aside /\ Stranded(p)' = Stranded(p)
        /\ Live(p)' = Live(p) /\ Early(p)' = Early(p)
    BY <1>1 DEF Written, Posted, Logged, Aside, Live, Early, Stranded
  <1>6. Own(p)' = Own(p) /\ Queued(p)' = Queued(p) /\ Drained(p)' = Drained(p)
    BY <1>1, <1>2, <1>3, <1>5 DEF Own, Queued, Tasked, Drained
  <1>7. Opens(p) /\ main[p] # "starting"
    BY <1>1 DEF Flow, Opening, Opens
  <1>8. Live(p) => UNCHANGED ui_tasks
    BY <1>1, <1>7 DEF Live
  <1>9. Opens(p)'
    BY <1>1, <1>2, <1>5, <1>7, <1>8 DEF Opens
  <1>10. Live(p) => ClientOrder(p)'
    <2> SUFFICES ASSUME Live(p)
                 PROVE  ClientOrder(p)'
      OBVIOUS
    <2>1. ClientOrder(p)
      BY DEF Flow, Orderly
    <2>2. InOrder(Tail(io_tasks[p]), Queued(p) \cup Item(Signal), Aside)
      BY <1>1, <1>2, <2>1, OrderTail DEF ClientOrder
    <2>3. Queued(p) \cup Item(Signal) = Queued(p)
      BY DEF Item
    <2>4. InOrder(io_tasks'[p], Queued(p)', Aside')
      BY <1>2, <1>5, <1>6, <2>2, <2>3
    <2> QED
      BY <1>1, <1>5, <1>6, <1>8, <2>1, <2>4 DEF ClientOrder
  <1>11. InOrder(pipe', Posted, Aside)
    BY <1>1 DEF Flow, Orderly
  <1> QED
    BY <1>1, <1>4, <1>5, <1>6, <1>9, <1>10, <1>11, ClientKeeps

\* The IO thread sends a message.
LEMMA OnSendMessageFlow ==
  ASSUME TypeOK, TypeOK', Flow, NEW p \in Clients, OnSendMessage(p)
  PROVE  Flow'
  <1> USE DEF hookVars, cacheVars, clientVars, ioVars, pipeVars, daemonVars
  <1> DEFINE h == Head(io_tasks[p])
  <1>1. /\ main[p] # "dead" /\ io_tasks[p] # <<>> /\ h # Signal /\ io_tasks' = Pop(io_tasks, p)
        /\ \/ /\ client_pipe[p] = "open" /\ UNCHANGED ui_tasks
              /\ output_queue_' = Push(output_queue_, p, h)
           \/ /\ client_pipe[p] # "open" /\ UNCHANGED output_queue_
              /\ ui_tasks' = Push(ui_tasks, p, Signal)
        /\ UNCHANGED <<main, hookVars, cacheVars, clientVars, client_pipe, pipeVars, daemonVars>>
    BY DEF OnSendMessage, HasAction
  <1>2. /\ io_tasks'[p] = Tail(io_tasks[p]) /\ io_tasks[p] \in Seq(Tasks) /\ h \in Tasks
        /\ \A r \in Clients \ {p} : io_tasks'[r] = io_tasks[r]
        /\ Items(io_tasks[p]) = Item(h) \cup Items(io_tasks'[p])
    BY <1>1, IoTail
  <1>3. ~Early(p) /\ ~Early(p)'
    <2>1. Items(io_tasks[p]) # {}
      BY <1>1, <1>2 DEF Item
    <2> QED
      BY <1>1, <2>1 DEF Flow, Opening, Opens, Early
  <1>4. /\ Written' = Written /\ Aside' = Aside /\ Stranded(p)' = Stranded(p)
        /\ Live(p)' = Live(p)
    BY <1>1 DEF Written, Posted, Logged, Aside, Live, Stranded
  <1>5. Opens(p)
    BY DEF Flow, Opening
  <1>6. InOrder(pipe', Posted, Aside)
    BY <1>1 DEF Flow, Orderly
  <1>7. output_queue_ \in [Clients -> Seq(Tasks)] /\ output_queue_[p] \in Seq(Tasks)
    BY Queues
  <1> HIDE DEF h
  <1>8. CASE client_pipe[p] # "open"
    <2>1. ui_tasks' = Push(ui_tasks, p, Signal) /\ UNCHANGED output_queue_
      BY <1>1, <1>8
    <2>2. /\ Items(ui_tasks'[p]) = Items(ui_tasks[p])
          /\ \A r \in Clients \ {p} : ui_tasks'[r] = ui_tasks[r]
      BY <2>1, ErrorPosted
    <2>3. Elsewhere(p)
      BY <1>1, <1>2, <2>1, <2>2 DEF Elsewhere
    <2>4. Own(p)' \subseteq Own(p)
      BY <1>2, <1>4, <2>1, <2>2 DEF Own
    <2>5. ~Live(p)
      BY <1>3, <1>8 DEF Live, Early
    <2>6. Opens(p)'
      BY <1>1, <1>3, <1>4, <1>5, <2>5 DEF Opens, Early
    <2> QED
      BY <1>1, <1>3, <1>4, <1>6, <2>3, <2>4, <2>5, <2>6, ClientKeeps
  <1>9. CASE client_pipe[p] = "open"
    <2>1. output_queue_' = Push(output_queue_, p, h) /\ UNCHANGED ui_tasks
      BY <1>1, <1>9
    <2>2. /\ output_queue_'[p] = Append(output_queue_[p], h)
          /\ \A r \in Clients \ {p} : output_queue_'[r] = output_queue_[r]
          /\ Items(output_queue_'[p]) = Items(output_queue_[p]) \cup Item(h)
      <3>1. /\ Push(output_queue_, p, h)[p] = Append(output_queue_[p], h)
            /\ \A r \in Clients \ {p} : Push(output_queue_, p, h)[r] = output_queue_[r]
            /\ Items(Push(output_queue_, p, h)[p]) = Items(output_queue_[p]) \cup Item(h)
        <4>1. output_queue_ \in [Clients -> Seq(Tasks)] /\ h \in Tasks /\ p \in Clients
          BY <1>2, <1>7
        <4> QED
          <5>1. Push(output_queue_, p, h)[p] = Append(output_queue_[p], h)
            BY ONLY <4>1, PushItems
          <5>2. \A r \in Clients \ {p} : Push(output_queue_, p, h)[r] = output_queue_[r]
            BY ONLY <4>1, PushItems
          <5>3. Items(Push(output_queue_, p, h)[p]) = Items(output_queue_[p]) \cup Item(h)
            BY ONLY <4>1, PushItems
          <5> QED
            BY ONLY <5>1, <5>2, <5>3
      <3> QED
        BY <2>1, <3>1
    <2>3. Elsewhere(p)
      BY <1>1, <1>2, <2>1, <2>2 DEF Elsewhere
    <2>4. /\ Own(p)' = Own(p) /\ Tasked(p)' = Tasked(p) /\ Drained(p)' = Drained(p)
          /\ Queued(p)' = Written \cup Items(output_queue_'[p])
      BY <1>2, <1>3, <1>4, <2>1, <2>2 DEF Own, Queued, Tasked, Drained
    <2>5. Opens(p)'
      BY <1>1, <1>3, <1>4, <1>5, <2>1 DEF Opens, Early
    <2>6. Live(p) => ClientOrder(p)'
      <3> SUFFICES ASSUME Live(p)
                   PROVE  ClientOrder(p)'
        OBVIOUS
      <3>1. /\ InOrder(output_queue_[p], Written, Aside)
            /\ InOrder(io_tasks[p], Written \cup Items(output_queue_[p]), Aside)
            /\ InOrder(ui_tasks[p], Drained(p), Aside)
        BY DEF Flow, Orderly, ClientOrder, Queued
      <3>2. /\ InOrder(Append(output_queue_[p], h), Written, Aside)
            /\ InOrder(Tail(io_tasks[p]), Written \cup Items(Append(output_queue_[p], h)), Aside)
        BY <1>1, <1>2, <1>7, <3>1, OrderMove DEF h
      <3>3. InOrder(output_queue_'[p], Written', Aside')
        BY <1>4, <2>2, <3>2
      <3>4. InOrder(io_tasks'[p], Queued(p)', Aside')
        BY <1>2, <1>4, <2>2, <2>4, <3>2
      <3> QED
        BY <1>4, <2>1, <2>4, <3>1, <3>3, <3>4 DEF ClientOrder
    <2> QED
      BY <1>1, <1>3, <1>4, <1>6, <2>3, <2>4, <2>5, <2>6, ClientKeeps
  <1> QED
    BY <1>8, <1>9

\* The output queue is written to the pipe.
LEMMA ProcessOutgoingMessagesFlow ==
  ASSUME TypeOK, TypeOK', Flow, NEW p \in Clients, ProcessOutgoingMessages(p)
  PROVE  Flow'
  <1> USE DEF hookVars, cacheVars, clientVars, ioVars, pipeVars, daemonVars
  <1> DEFINE h == Head(output_queue_[p])
  <1>1. /\ client_pipe[p] = "open" /\ daemon_pipe # "gone" /\ output_queue_[p] # <<>>
        /\ pipe' = Append(pipe, h) /\ output_queue_' = Pop(output_queue_, p)
        /\ UNCHANGED <<main, hookVars, cacheVars, ui_tasks, io_tasks, clientVars, client_pipe,
                       peer, daemonVars>>
    BY DEF ProcessOutgoingMessages
  <1>2. /\ output_queue_'[p] = Tail(output_queue_[p]) /\ output_queue_[p] \in Seq(Tasks)
        /\ \A r \in Clients \ {p} : output_queue_'[r] = output_queue_[r]
        /\ Items(output_queue_[p]) = Item(h) \cup Items(output_queue_'[p])
        /\ h \in Tasks /\ pipe \in Seq(Tasks)
    <2>1. /\ output_queue_ \in [Clients -> Seq(Tasks)] /\ pipe \in Seq(Tasks)
          /\ p \in Clients /\ output_queue_[p] # <<>>
      BY <1>1, Queues
    <2>2. /\ Pop(output_queue_, p)[p] = Tail(output_queue_[p])
          /\ \A r \in Clients \ {p} : Pop(output_queue_, p)[r] = output_queue_[r]
          /\ Items(output_queue_[p]) = Item(h) \cup Items(Pop(output_queue_, p)[p])
          /\ h \in Tasks /\ output_queue_[p] \in Seq(Tasks)
      <3>1. Pop(output_queue_, p)[p] = Tail(output_queue_[p])
        BY ONLY <2>1, PopItems
      <3>2. \A r \in Clients \ {p} : Pop(output_queue_, p)[r] = output_queue_[r]
        BY ONLY <2>1, PopItems
      <3>3. Items(output_queue_[p]) = Item(h) \cup Items(Pop(output_queue_, p)[p])
        BY ONLY <2>1, PopItems
      <3>4. h \in Tasks
        BY ONLY <2>1, PopItems
      <3>5. output_queue_[p] \in Seq(Tasks)
        BY ONLY <2>1, PopItems
      <3> QED
        BY ONLY <3>1, <3>2, <3>3, <3>4, <3>5
    <2> QED
      BY <1>1, <2>1, <2>2
  <1>3. Elsewhere(p)
    BY <1>1, <1>2 DEF Elsewhere
  <1>4. Live(p) /\ Live(p)' /\ ~Early(p) /\ ~Early(p)'
    <2>1. Live(p)
      BY <1>1 DEF Live
    <2> QED
      BY <1>1, <2>1 DEF Flow, Opening, Opens, Early, Live
  <1> HIDE DEF h
  <1>5. /\ Posted' = Posted /\ Aside' = Aside /\ Stranded(p)' = Stranded(p)
        /\ Items(pipe') = Items(pipe) \cup Item(h)
    <2>1. Items(pipe') = Items(pipe) \cup Item(h)
      BY <1>1, <1>2, ItemsAppend
    <2> QED
      BY <1>1, <2>1 DEF Posted, Logged, Aside, Stranded
  <1>6. /\ Written' = Posted \cup Items(pipe') /\ Written' = Written \cup Item(h)
        /\ Queued(p)' = Queued(p) /\ Drained(p)' = Drained(p)
        /\ Item(h) \subseteq Own(p) /\ Own(p)' \subseteq Own(p)
        /\ Own(p) \subseteq Written' \cup Own(p)'
    BY <1>1, <1>2, <1>4, <1>5 DEF Written, Queued, Tasked, Drained, Own
  <1>7. Opens(p)'
    BY <1>1, <1>4, <1>5 DEF Flow, Opening, Opens, Early
  <1>8. ClientOrder(p)' /\ InOrder(pipe', Posted, Aside)
    <2>1. ClientOrder(p) /\ InOrder(pipe, Posted, Aside)
      BY <1>4 DEF Flow, Orderly
    <2>2. InOrder(output_queue_[p], Posted \cup Items(pipe), Aside)
      BY <2>1 DEF ClientOrder, Written
    <2>3. /\ InOrder(Append(pipe, h), Posted, Aside)
          /\ InOrder(Tail(output_queue_[p]), Posted \cup Items(Append(pipe, h)), Aside)
      BY <1>1, <1>2, <2>1, <2>2, OrderMove DEF h
    <2>4. InOrder(output_queue_'[p], Written', Aside')
      BY <1>1, <1>2, <1>5, <1>6, <2>3
    <2>5. ClientOrder(p)'
      BY <1>1, <1>5, <1>6, <2>1, <2>4 DEF ClientOrder
    <2> QED
      BY <1>1, <2>3, <2>5
  <1> QED
    BY <1>1, <1>3, <1>4, <1>6, <1>7, <1>8, ClientKeeps

\* The pipe breaks.
LEMMA PipeBrokenFlow ==
  ASSUME TypeOK, TypeOK', Flow, NEW p \in Clients, PipeBroken(p)
  PROVE  Flow'
  <1> USE DEF hookVars, cacheVars, clientVars, ioVars, pipeVars, daemonVars
  <1>1. /\ daemon_pipe = "gone" /\ client_pipe' = [client_pipe EXCEPT ![p] = "closed"]
        /\ output_queue_' = [output_queue_ EXCEPT ![p] = <<>>]
        /\ ui_tasks' = Push(ui_tasks, p, Signal)
        /\ UNCHANGED <<main, hookVars, cacheVars, io_tasks, clientVars, pipeVars, daemonVars>>
    BY DEF PipeBroken
  <1>2. /\ output_queue_'[p] = <<>>
        /\ \A r \in Clients \ {p} : /\ output_queue_'[r] = output_queue_[r]
                                    /\ client_pipe'[r] = client_pipe[r]
    BY <1>1 DEF TypeOK, ClientTypes
  <1>3. /\ Items(ui_tasks'[p]) = Items(ui_tasks[p])
        /\ \A r \in Clients \ {p} : ui_tasks'[r] = ui_tasks[r]
    BY <1>1, ErrorPosted
  <1>4. Elsewhere(p)
    BY <1>1, <1>2, <1>3 DEF Elsewhere
  <1>5. /\ ~Live(p)' /\ Written' = Written /\ Stranded(p)' = Stranded(p)
        /\ Early(p)' = Early(p)
    BY <1>1 DEF Live, Written, Posted, Logged, Stranded, Early
  <1>6. Own(p)' \subseteq Own(p)
    BY <1>1, <1>2, <1>3, <1>5, OrderEmpty DEF Own
  <1>7. Opens(p)'
    BY <1>1, <1>2, <1>5 DEF Flow, Opening, Opens
  <1>8. InOrder(pipe', Posted, Aside)
    BY <1>1 DEF Flow, Orderly
  <1> QED
    BY <1>1, <1>4, <1>5, <1>6, <1>7, <1>8, ClientKeeps

\* The client sends what was cached.
LEMMA DrainFlow ==
  ASSUME TypeOK, TypeOK', Flow, NEW p \in Clients, Drain(p)
  PROVE  Flow'
  <1> USE DEF hookVars, cacheVars, clientVars, ioVars, pipeVars, daemonVars
  <1> DEFINE W == Message(p, WinMain, 1)
             c == g_message_cache[p]
  <1>1. /\ main[p] = "flagged" /\ main' = [main EXCEPT ![p] = "looping"]
        /\ Send(p, Append(c, W)) /\ g_message_cache' = [g_message_cache EXCEPT ![p] = <<>>]
        /\ UNCHANGED <<hookVars, g_logclient_init, ui_tasks, channel_, ioVars, pipeVars,
                       daemonVars>>
    BY DEF Drain
  <1>2. /\ main \in [Clients -> MainPlaces] /\ g_message_cache \in [Clients -> Seq(Messages)]
        /\ queued_messages_ \in [Clients -> Seq(Messages)]
        /\ io_tasks \in [Clients -> Seq(Tasks)] /\ c \in Seq(Tasks) /\ io_tasks[p] \in Seq(Tasks)
    <2>1. g_message_cache \in [Clients -> Seq(Tasks)] /\ io_tasks \in [Clients -> Seq(Tasks)]
      BY Queues
    <2> QED
      BY <2>1 DEF TypeOK, HookTypes, ClientTypes
  <1>3. W \in Tasks /\ W # Signal /\ W.process = p /\ W.thread = WinMain /\ W.number = 1
    <2>1. W \in Messages
      BY MessageTypes
    <2>2. W \in Tasks /\ W # Signal
      BY <2>1, MessagesAreTasks DEF Tasks
    <2> QED
      BY <2>2 DEF Message
  <1>4. /\ Stranded(p) = Items(c) /\ Own(p) \subseteq Messages /\ Stranded(p)' = {}
        /\ \A r \in Clients \ {p} : Stranded(r)' = Stranded(r)
        /\ Aside' \subseteq Aside /\ Aside \subseteq Aside' \cup Stranded(p)
    <2>1. Stranded(p) = Items(c) /\ Own(p) \subseteq Messages
      BY Queues
    <2>2. /\ g_message_cache'[p] = <<>>
          /\ \A r \in Clients \ {p} : g_message_cache'[r] = g_message_cache[r]
      BY <1>1, <1>2
    <2>3. Stranded(p)' = {} /\ \A r \in Clients \ {p} : Stranded(r)' = Stranded(r)
      BY <2>2 DEF Stranded, ToSet
    <2> QED
      BY <2>1, <2>3 DEF Aside
  <1>5. /\ Early(p) /\ main'[p] = "looping" /\ ~Early(p)'
        /\ Live(p)' = Live(p) /\ Written' = Written /\ Posted' = Posted
        /\ \A r \in Clients \ {p} : main'[r] = main[r]
    <2>1. main'[p] = "looping" /\ \A r \in Clients \ {p} : main'[r] = main[r]
      BY <1>1, <1>2
    <2> QED
      BY <1>1, <2>1 DEF Early, Live, Written, Posted, Logged
  <1> HIDE DEF W, c
  <1>6. /\ Items(io_tasks[p]) = {} /\ output_queue_[p] = <<>> /\ \A m \in Written : m.process # p
        /\ Live(p) => channel_[p]
        /\ g_logclient_init[p]
        /\ Live(p) => Signal \notin ToSet(ui_tasks[p])
    BY <1>1, <1>5 DEF Flow, Opening, Opens
  <1>7. W \notin Own(p) /\ Earlier(W) = {}
    <2>1. \A m \in Own(p) : Numbered(m) /\ m.process = p
      BY DEF Flow, Owned
    <2>2. \A m \in Own(p) : m.thread # WinMain
      BY <1>5, <2>1 DEF Numbered
    <2>3. 1 .. W.number - 1 = {}
      BY <1>3
    <2> QED
      BY <1>3, <2>2, <2>3 DEF Earlier
  <1>8. /\ Append(c, W) \in Seq(Tasks) /\ Items(Append(c, W)) = Stranded(p) \cup {W}
    <2>1. Append(c, W) \in Seq(Tasks)
      BY <1>2, <1>3, AppendProperties
    <2>2. Items(Append(c, W)) = Items(c) \cup Item(W)
      BY <1>2, <1>3, ItemsAppend
    <2> QED
      BY <1>3, <1>4, <2>1, <2>2 DEF Item
  <1>9. /\ \A r \in Clients \ {p} : io_tasks'[r] = io_tasks[r]
        /\ channel_[p] => io_tasks'[p] = io_tasks[p] \o Append(c, W)
        /\ ~channel_[p] => io_tasks'[p] = io_tasks[p]
    BY <1>1, <1>2 DEF Send
  <1>10. /\ Items(io_tasks'[p]) \subseteq Stranded(p) \cup {W}
         /\ channel_[p] => Items(io_tasks'[p]) = Stranded(p) \cup {W}
    <2>1. CASE channel_[p]
      <3>1. ToSet(io_tasks[p] \o Append(c, W)) = ToSet(io_tasks[p]) \cup ToSet(Append(c, W))
        BY <1>2, <1>8, ConcatSet, ZenonT(30)
      <3> QED
        BY <1>6, <1>8, <1>9, <2>1, <3>1 DEF Items
    <2>2. CASE ~channel_[p]
      BY <1>6, <1>9, <2>2
    <2> QED
      BY <2>1, <2>2
  <1>11. Elsewhere(p)
    BY <1>1, <1>2, <1>5, <1>9 DEF Elsewhere
  <1>12. Own(p)' \subseteq Own(p) \cup {W} /\ (channel_[p] => Own(p) \subseteq Own(p)')
    BY <1>1, <1>4, <1>6, <1>10 DEF Own
  <1>13. \A r \in Clients : Early(r)' => Early(r)
    BY <1>5 DEF Early
  <1>14. Owned'
    <2>1. ASSUME NEW m \in Messages, Numbered(m)
          PROVE  Numbered(m)'
      <3>1. Early(m.process)' => Early(m.process)
        BY <1>13 DEF Messages
      <3> QED
        BY <1>1, <2>1, <3>1 DEF Numbered
    <2>2. \A m \in Written : Numbered(m)'
      BY <2>1, Queues DEF Flow, Owned
    <2>3. ASSUME NEW r \in Clients, NEW m \in Own(r)'
          PROVE  m.process = r /\ Numbered(m)'
      <3>1. CASE m \in Own(r)
        <4>1. m \in Messages /\ m.process = r /\ Numbered(m)
          BY <3>1, Queues DEF Flow, Owned
        <4> QED
          BY <2>1, <4>1
      <3>2. CASE m \notin Own(r)
        <4>1. r = p
          BY <1>4, <1>11, <2>3, <3>2 DEF Elsewhere, Own
        <4>2. m = W
          BY <1>12, <2>3, <3>2, <4>1
        <4> QED
          BY <1>3, <1>5, <4>1, <4>2 DEF Numbered
      <3> QED
        BY <3>1, <3>2
    <2> QED
      BY <1>5, <2>2, <2>3 DEF Owned
  <1>15. Caching'
    <2> SUFFICES ASSUME NEW r \in Clients
                 PROVE  /\ Early(r)' =>
                             /\ InOrder(g_message_cache'[r], {}, {})
                             /\ \A t \in Threads : ~g_logclient_init[r] \/ t \in caching[r] =>
                                  \A k \in 1 .. reported[r][t] :
                                    \/ k = reported[r][t] /\ t \in caching[r]
                                    \/ Message(r, t, k) \in Stranded(r)'
                        /\ main'[r] = "looping" =>
                             /\ \A k \in Stranded(r)' : k.thread \notin caching[r]
                             /\ \A k1, k2 \in Stranded(r)' : k1.thread = k2.thread => k1 = k2
      BY <1>1 DEF Caching
    <2>1. CASE r = p
      BY <1>4, <1>5, <2>1
    <2>2. CASE r # p
      <3>1. /\ g_message_cache'[r] = g_message_cache[r] /\ Stranded(r)' = Stranded(r)
            /\ main'[r] = main[r] /\ (Early(r)' => Early(r))
        BY <1>4, <1>11, <1>13, <2>2 DEF Elsewhere
      <3> QED
        BY <3>1 DEF Flow, Caching
    <2> QED
      BY <2>1, <2>2
  <1>16. Opens(p)'
    BY <1>1, <1>5, <1>6 DEF Opens
  <1>17. Live(p)' => ClientOrder(p)'
    <2> SUFFICES ASSUME Live(p), channel_[p]
                 PROVE  ClientOrder(p)'
      BY <1>5, <1>6
    <2>1. Queued(p) = Written /\ Queued(p)' = Written /\ Tasked(p) = Written
      BY <1>1, <1>5, <1>6, OrderEmpty DEF Queued, Tasked
    <2>2. InOrder(output_queue_'[p], Written', Aside')
      BY <1>1, <1>6, OrderEmpty
    <2>3. InOrder(c, Written, Aside')
      <3>1. InOrder(c, {}, {})
        BY <1>5 DEF Flow, Caching, c
      <3>2. \A m \in Items(c) : m.process = p
        BY <1>4 DEF Flow, Owned, Own
      <3>3. \A m \in Items(c) :
              m \notin Written /\ Earlier(m) \cap ({} \cup {}) \subseteq Written \cup Aside'
        BY <1>6, <3>2
      <3> QED
        BY <3>1, <3>3, OrderKept
    <2>4. InOrder(Append(c, W), Written, Aside')
      <3>1. W \notin Written \cup Items(c) /\ Earlier(W) \subseteq Written \cup Aside' \cup Items(c)
        BY <1>3, <1>4, <1>6, <1>7 DEF Own
      <3> QED
        BY <1>2, <1>3, <2>3, <3>1, OrderAppend
    <2>5. InOrder(io_tasks[p] \o Append(c, W), Written, Aside')
      BY <1>2, <1>6, <1>8, <2>4, OrderConcat
    <2>6. InOrder(io_tasks'[p], Queued(p)', Aside')
      BY <1>9, <2>1, <2>5
    <2>7. Drained(p) = Written \cup Stranded(p) /\ Drained(p)' = Written \cup Stranded(p) \cup {W}
      BY <1>5, <1>10, <2>1 DEF Drained, Tasked
    <2>8. InOrder(ui_tasks[p], Drained(p), Aside)
      BY DEF Flow, Orderly, ClientOrder
    <2>9. \A m \in Items(ui_tasks[p]) :
            m \notin Drained(p)' /\ Earlier(m) \cap (Drained(p) \cup Aside) \subseteq Drained(p)' \cup Aside'
      <3>1. \A m \in Items(ui_tasks[p]) : m \notin Drained(p) /\ m # W
        BY <1>7, <2>8, OrderNew DEF Own
      <3> QED
        BY <1>4, <2>7, <3>1
    <2>10. InOrder(ui_tasks'[p], Drained(p)', Aside')
      BY <1>1, <2>8, <2>9, OrderKept
    <2> QED
      BY <2>2, <2>6, <2>10 DEF ClientOrder
  <1>18. InOrder(pipe', Posted, Aside)
    BY <1>1 DEF Flow, Orderly
  <1>19. Live(p)' => Own(p) \subseteq Written' \cup Own(p)'
    BY <1>5, <1>6, <1>12
  <1> QED
    BY <1>1, <1>4, <1>5, <1>6, <1>11, <1>14, <1>15, <1>16, <1>17, <1>18, <1>19, ClientFlow

\* A client exits.
LEMMA ExitFlow ==
  ASSUME TypeOK, TypeOK', Flow, NEW p \in Clients, Exit(p)
  PROVE  Flow'
  <1> USE DEF hookVars, cacheVars, clientVars, ioVars, pipeVars, daemonVars
  <1>1. /\ main' = [main EXCEPT ![p] = "dead"] /\ client_pipe' = [client_pipe EXCEPT ![p] = "closed"]
        /\ ui_tasks' = [ui_tasks EXCEPT ![p] = <<>>] /\ io_tasks' = [io_tasks EXCEPT ![p] = <<>>]
        /\ output_queue_' = [output_queue_ EXCEPT ![p] = <<>>]
        /\ caching' = [caching EXCEPT ![p] = {}]
        /\ UNCHANGED <<reported, cacheVars, channel_, pipeVars, daemonVars>>
    BY DEF Exit
  <1>2. /\ main'[p] = "dead" /\ client_pipe'[p] = "closed" /\ caching'[p] = {}
        /\ ui_tasks'[p] = <<>> /\ io_tasks'[p] = <<>> /\ output_queue_'[p] = <<>>
        /\ \A r \in Clients \ {p} :
             /\ main'[r] = main[r] /\ client_pipe'[r] = client_pipe[r]
             /\ caching'[r] = caching[r] /\ ui_tasks'[r] = ui_tasks[r]
             /\ io_tasks'[r] = io_tasks[r] /\ output_queue_'[r] = output_queue_[r]
    BY <1>1 DEF TypeOK, HookTypes, ClientTypes
  <1>3. Elsewhere(p)
    BY <1>1, <1>2 DEF Elsewhere
  <1>4. /\ ~Live(p)' /\ ~Early(p)' /\ Written' = Written
        /\ \A r \in Clients : Stranded(r)' = Stranded(r)
    BY <1>1, <1>2 DEF Live, Early, Written, Posted, Logged, Stranded
  <1>5. ASSUME NEW r \in Clients
        PROVE  /\ caching'[r] \subseteq caching[r] /\ (Early(r)' => Early(r))
               /\ Own(r)' \subseteq Own(r)
    <2>1. CASE r = p
      BY <1>2, <1>4, <2>1, OrderEmpty DEF Own
    <2>2. CASE r # p
      BY <1>2, <1>4, <2>2 DEF Own, Early
    <2> QED
      BY <2>1, <2>2
  <1>6. Owned'
    <2>1. \A r \in Clients : caching'[r] \subseteq caching[r] /\ (Early(r)' => Early(r))
      BY <1>5
    <2>2. \A r \in Clients : Own(r)' \subseteq Own(r)
      BY <1>5
    <2>3. \A m \in Written' : m \in Written \/ \E q \in Clients : m \in Own(q)
      BY <1>4
    <2>4. Owned /\ UNCHANGED reported
      BY <1>1 DEF Flow
    <2> QED
      BY <2>1, <2>2, <2>3, <2>4, OwnedKept
  <1>7. Caching'
    <2> SUFFICES ASSUME NEW r \in Clients
                 PROVE  /\ Early(r)' =>
                             /\ InOrder(g_message_cache[r], {}, {})
                             /\ \A t \in Threads : ~g_logclient_init[r] \/ t \in caching'[r] =>
                                  \A k \in 1 .. reported[r][t] :
                                    \/ k = reported[r][t] /\ t \in caching'[r]
                                    \/ Message(r, t, k) \in Stranded(r)
                        /\ main'[r] = "looping" =>
                             /\ \A k \in Stranded(r) : k.thread \notin caching'[r]
                             /\ \A k1, k2 \in Stranded(r) : k1.thread = k2.thread => k1 = k2
      BY <1>1, <1>4 DEF Caching
    <2>1. CASE r = p
      BY <1>2, <1>4, <2>1
    <2>2. CASE r # p
      BY <1>2, <1>5, <2>2 DEF Flow, Caching
    <2> QED
      BY <2>1, <2>2
  <1>8. Opens(p)'
    BY <1>2, <1>4 DEF Opens
  <1>9. InOrder(pipe', Posted, Aside)
    BY <1>1 DEF Flow, Orderly
  <1> QED
    BY <1>1, <1>3, <1>4, <1>6, <1>7, <1>8, <1>9, ClientFlow

\* A step of the profiler leaves the clients alone. Unless it exits, all that was written
\* stays somewhere.
LEMMA DaemonFlow ==
  ASSUME TypeOK, TypeOK', Flow, UNCHANGED unchangedByDaemon,
         Written' \subseteq Written,
         daemon_pipe' # "gone" => daemon_pipe # "gone" /\ Written' = Written,
         daemon_pipe' = "gone" => daemon_tasks' = <<>> /\ pipe' = <<>>,
         InOrder(log', {}, Aside), InOrder(daemon_tasks', Logged', Aside),
         InOrder(pipe', Posted', Aside)
  PROVE  Flow'
  <1> USE DEF hookVars, cacheVars, clientVars, ioVars
  <1>1. /\ UNCHANGED <<reported, caching, g_message_cache, g_logclient_init>>
        /\ Aside' = Aside
        /\ \A r \in Clients : /\ Own(r)' = Own(r) /\ Early(r)' = Early(r)
                              /\ main'[r] = main[r] /\ Stranded(r)' = Stranded(r)
    BY DEF unchangedByDaemon, Own, Early, Aside, Stranded
  <1>2. \A r \in Clients : Live(r)' => Live(r) /\ Written' = Written
    BY DEF unchangedByDaemon, Live
  <1>3. Owned'
    <2>1. \A r \in Clients : caching'[r] \subseteq caching[r] /\ (Early(r)' => Early(r))
      BY <1>1
    <2>2. \A r \in Clients : Own(r)' \subseteq Own(r)
      BY <1>1
    <2>3. \A m \in Written' : m \in Written \/ \E q \in Clients : m \in Own(q)
      OBVIOUS
    <2>4. Owned /\ UNCHANGED reported
      BY <1>1 DEF Flow
    <2> QED
      BY <2>1, <2>2, <2>3, <2>4, OwnedKept
  <1>4. Caching'
    BY <1>1, CachingKept DEF Flow
  <1>5. Opening'
    <2>1. ASSUME NEW r \in Clients
          PROVE  Opens(r)'
      <3>1. Opens(r)
        BY DEF Flow, Opening
      <3>2. UNCHANGED <<main, g_logclient_init, io_tasks, output_queue_, ui_tasks, channel_>>
        BY DEF unchangedByDaemon
      <3>3. Early(r) => \A m \in Written' : m.process # r
        BY <3>1 DEF Opens
      <3> QED
        BY <1>1, <1>2, <3>1, <3>2, <3>3 DEF Opens
    <2> QED
      BY <2>1 DEF Opening
  <1>6. Complete'
    <2> SUFFICES ASSUME NEW r \in Clients, Live(r)', NEW t \in Threads, NEW k \in 1 .. reported[r][t]
                 PROVE  \/ k = reported[r][t] /\ t \in caching[r]
                        \/ Message(r, t, k) \in Written' \cup Own(r)'
      BY <1>1 DEF Complete
    <2> QED
      BY <1>1, <1>2 DEF Flow, Complete
  <1>7. Orderly'
    <2>1. ASSUME NEW r \in Clients, Live(r)'
          PROVE  ClientOrder(r)'
      <3>1. ClientOrder(r) /\ Written' = Written
        BY <1>2, <2>1 DEF Flow, Orderly
      <3>2. UNCHANGED <<output_queue_, io_tasks, ui_tasks>>
        BY DEF unchangedByDaemon
      <3>3. Queued(r)' = Queued(r) /\ Drained(r)' = Drained(r)
        BY <1>1, <3>1, <3>2 DEF Queued, Tasked, Drained
      <3> QED
        BY <1>1, <3>1, <3>2, <3>3 DEF ClientOrder
    <2> QED
      BY <1>1, <2>1 DEF Orderly
  <1> QED
    BY <1>3, <1>4, <1>5, <1>6, <1>7 DEF Flow

\* The steps of the profiler.
LEMMA ProfilerFlow ==
  ASSUME TypeOK, TypeOK', Flow, DaemonIO \/ DaemonUI \/ DaemonExit
  PROVE  Flow'
  <1> USE DEF pipeVars
  <1>1. /\ UNCHANGED unchangedByDaemon
    BY DEF DaemonIO, DaemonOpened, DaemonConnected, DaemonRead, DaemonReadFails,
       ProcessConnection, DaemonUI, DaemonLog, DaemonError, DaemonExit
  <1>2. log \in Seq(Tasks) /\ daemon_tasks \in Seq(Tasks) /\ pipe \in Seq(Tasks)
    BY Queues
  <1>3. /\ InOrder(log, {}, Aside) /\ InOrder(daemon_tasks, Logged, Aside)
        /\ InOrder(pipe, Posted, Aside)
        /\ daemon_pipe = "gone" => daemon_tasks = <<>> /\ pipe = <<>>
    BY DEF Flow, Orderly, Opening
  <1>4. CASE DaemonOpened \/ DaemonConnected
    <2>1. /\ UNCHANGED <<pipe, daemon_tasks, log>>
          /\ daemon_pipe # "gone" /\ daemon_pipe' # "gone"
      BY <1>4 DEF DaemonOpened, DaemonConnected, ProcessConnection, Connection
    <2>2. Written' = Written /\ Posted' = Posted /\ Logged' = Logged
      BY <2>1 DEF Written, Posted, Logged
    <2> QED
      BY <1>1, <1>3, <2>1, <2>2, DaemonFlow
  <1>5. CASE DaemonRead
    <2> DEFINE h == Head(pipe)
    <2>1. /\ UNCHANGED <<log, daemon_pipe>> /\ daemon_pipe # "gone" /\ pipe # <<>>
          /\ pipe' = Tail(pipe) /\ daemon_tasks' = Append(daemon_tasks, h)
      BY <1>5 DEF DaemonRead
    <2>2. /\ InOrder(Append(daemon_tasks, h), Logged, Aside)
          /\ InOrder(Tail(pipe), Logged \cup Items(Append(daemon_tasks, h)), Aside)
          /\ Items(Append(daemon_tasks, h)) = Items(daemon_tasks) \cup Item(h)
          /\ Items(pipe) = Item(h) \cup Items(Tail(pipe))
      BY <1>2, <1>3, <2>1, OrderMove DEF Posted
    <2> HIDE DEF h
    <2>3. Logged' = Logged /\ Posted' = Logged \cup Items(daemon_tasks') /\ Written' = Written
      BY <2>1, <2>2 DEF Written, Posted, Logged
    <2>4. InOrder(daemon_tasks', Logged', Aside) /\ InOrder(pipe', Posted', Aside)
      BY <2>1, <2>2, <2>3
    <2> QED
      BY <1>1, <1>3, <2>1, <2>3, <2>4, DaemonFlow
  <1>6. CASE DaemonReadFails
    <2>1. /\ UNCHANGED log /\ daemon_pipe # "gone" /\ daemon_pipe' # "gone"
          /\ pipe = <<>> /\ pipe' = <<>> /\ daemon_tasks' = Append(daemon_tasks, Signal)
      BY <1>6 DEF DaemonReadFails
    <2>2. InOrder(daemon_tasks', Logged, Aside) /\ Items(daemon_tasks') = Items(daemon_tasks)
      <3>1. /\ InOrder(Append(daemon_tasks, Signal), Logged, Aside)
            /\ Items(Append(daemon_tasks, Signal)) = Items(daemon_tasks) \cup Item(Signal)
        BY <1>2, <1>3, MessagesAreTasks, OrderAppend
      <3> QED
        BY <2>1, <3>1 DEF Item
    <2>3. Logged' = Logged /\ Posted' = Posted /\ Written' = Written
      BY <2>1, <2>2 DEF Written, Posted, Logged
    <2> QED
      BY <1>1, <1>3, <2>1, <2>2, <2>3, DaemonFlow
  <1>7. CASE DaemonLog
    <2> DEFINE h == Head(daemon_tasks)
    <2>1. /\ UNCHANGED <<pipe, daemon_pipe>> /\ daemon_tasks # <<>>
          /\ log' = Append(log, h) /\ daemon_tasks' = Tail(daemon_tasks)
      BY <1>7 DEF DaemonLog, HasAction
    <2>2. /\ InOrder(Append(log, h), {}, Aside)
          /\ InOrder(Tail(daemon_tasks), {} \cup Items(Append(log, h)), Aside)
          /\ Items(Append(log, h)) = Items(log) \cup Item(h)
          /\ Items(daemon_tasks) = Item(h) \cup Items(Tail(daemon_tasks))
      <3>1. {} \cup Items(log) = Logged
        BY DEF Logged
      <3>2. InOrder(daemon_tasks, {} \cup Items(log), Aside)
        BY <1>3, <3>1
      <3> QED
        BY <1>2, <1>3, <2>1, <3>2, OrderMove
    <2> HIDE DEF h
    <2>3. Logged' = {} \cup Items(log') /\ Posted' = Posted /\ Written' = Written
      BY <2>1, <2>2 DEF Written, Posted, Logged
    <2>4. InOrder(log', {}, Aside) /\ InOrder(daemon_tasks', Logged', Aside)
      BY <2>1, <2>2, <2>3
    <2>5. daemon_pipe # "gone"
      BY <1>3, <2>1
    <2>6. InOrder(pipe', Posted', Aside)
      BY <1>3, <2>1, <2>3
    <2> QED
      BY <1>1, <2>1, <2>3, <2>4, <2>5, <2>6, DaemonFlow
  <1>8. CASE DaemonError
    <2>1. /\ UNCHANGED <<pipe, log>> /\ daemon_tasks # <<>> /\ Head(daemon_tasks) = Signal
          /\ daemon_tasks' = Tail(daemon_tasks) /\ daemon_pipe' = "created"
      BY <1>8 DEF DaemonError, HasSignal, DaemonInit
    <2>2. /\ InOrder(Tail(daemon_tasks), Logged \cup Item(Signal), Aside)
          /\ Items(daemon_tasks) = Item(Signal) \cup Items(Tail(daemon_tasks))
      BY <1>2, <1>3, <2>1, OrderTail
    <2>3. Logged' = Logged /\ Logged \cup Item(Signal) = Logged
      BY <2>1 DEF Logged, Item
    <2>4. Posted' = Posted /\ Written' = Written
      BY <2>1, <2>2, <2>3 DEF Written, Posted, Item
    <2>5. InOrder(daemon_tasks', Logged', Aside)
      BY <2>1, <2>2, <2>3
    <2>6. InOrder(log', {}, Aside) /\ InOrder(pipe', Posted', Aside)
      BY <1>3, <2>1, <2>4
    <2>7. daemon_pipe # "gone"
      BY <1>3, <2>1
    <2> QED
      BY <1>1, <2>1, <2>4, <2>5, <2>6, <2>7, DaemonFlow
  <1>9. CASE DaemonExit
    <2>1. UNCHANGED log /\ daemon_pipe' = "gone" /\ daemon_tasks' = <<>> /\ pipe' = <<>>
      BY <1>9 DEF DaemonExit
    <2>2. Written' \subseteq Written
      BY <2>1, OrderEmpty DEF Written, Posted, Logged
    <2>3. InOrder(daemon_tasks', Logged', Aside) /\ InOrder(pipe', Posted', Aside)
      BY <2>1, OrderEmpty
    <2> QED
      BY <1>1, <1>3, <2>1, <2>2, <2>3, DaemonFlow
  <1> QED
    BY <1>4, <1>5, <1>6, <1>7, <1>8, <1>9 DEF DaemonIO, DaemonUI

\* Initially there is no message.
LEMMA FlowInit == Init => Flow
  <1> SUFFICES ASSUME Init
               PROVE  Flow
    OBVIOUS
  <1>1. /\ log = <<>> /\ daemon_tasks = <<>> /\ pipe = <<>> /\ daemon_pipe = "created"
        /\ \A p \in Clients : /\ ui_tasks[p] = <<>> /\ io_tasks[p] = <<>>
                              /\ output_queue_[p] = <<>> /\ g_message_cache[p] = <<>>
                              /\ main[p] = "starting" /\ caching[p] = {}
                              /\ \A th \in Threads : reported[p][th] = 0
    BY DEF Init
  <1>2. ToSet(<<>>) = {}
    BY DEF ToSet
  <1>3. Written = {} /\ \A p \in Clients : Own(p) = {} /\ Stranded(p) = {}
    BY <1>1, <1>2, OrderEmpty DEF Written, Posted, Logged, Own, Stranded
  <1>4. Owned
    BY <1>3 DEF Owned
  <1>5. Opening
    BY <1>1, <1>2, <1>3, OrderEmpty DEF Opening, Opens, Early
  <1>6. \A p \in Clients : \A th \in Threads : 1 .. reported[p][th] = {}
    BY <1>1
  <1>7. Caching
    BY <1>1, <1>6, OrderEmpty DEF Caching
  <1>8. Complete
    BY <1>6 DEF Complete
  <1>9. Orderly
    BY <1>1, OrderEmpty DEF Orderly, ClientOrder
  <1> QED
    BY <1>4, <1>5, <1>7, <1>8, <1>9 DEF Flow

\* Every step keeps the messages in their places and in order.
LEMMA FlowStep == TypeOK /\ TypeOK' /\ Reporting /\ Flow /\ [Next]_vars => Flow'
  <1> SUFFICES ASSUME TypeOK, TypeOK', Reporting, Flow, [Next]_vars
               PROVE  Flow'
    OBVIOUS
  <1>1. ASSUME NEW p \in Clients, Client(p) \/ ClientIO(p) \/ Exit(p)
        PROVE  Flow'
    BY <1>1, CreateChannelFlow, FlagFlow, DrainFlow, DoActionFlow, OnChannelErrorFlow,
       OnChannelOpenedFlow, OnSendMessageFlow, ProcessOutgoingMessagesFlow, PipeBrokenFlow,
       ExitFlow DEF Client, ClientIO
  <1>2. ASSUME NEW p \in Clients, NEW th \in Threads, Report(p, th) \/ Cache(p, th)
        PROVE  Flow'
    BY <1>2, ReportFlow, CacheFlow
  <1>3. CASE DaemonIO \/ DaemonUI \/ DaemonExit
    BY <1>3, ProfilerFlow
  <1>4. CASE UNCHANGED vars
    <2> USE DEF hookVars, cacheVars, clientVars, ioVars, pipeVars, daemonVars
    <2>1. UNCHANGED unchangedByDaemon /\ UNCHANGED <<pipe, daemon_pipe, daemon_tasks, log>>
      BY <1>4 DEF vars, unchangedByDaemon
    <2>2. Logged' = Logged /\ Posted' = Posted /\ Written' = Written
      BY <2>1 DEF Logged, Posted, Written
    <2>3. /\ InOrder(log, {}, Aside) /\ InOrder(daemon_tasks, Logged, Aside)
          /\ InOrder(pipe, Posted, Aside)
          /\ daemon_pipe = "gone" => daemon_tasks = <<>> /\ pipe = <<>>
      BY DEF Flow, Orderly, Opening
    <2> QED
      BY <2>1, <2>2, <2>3, DaemonFlow
  <1> QED
    BY <1>1, <1>2, <1>3, <1>4 DEF Next
-----------------------------------------------------------------------------
(***************************************************************************)
(* The processes apart.                                                    *)
(***************************************************************************)

\* Between two messages of a process are only messages of it.
Run(q) ==
  \A i, j \in DOMAIN q : i <= j /\ q[i] # Signal /\ q[i].process = q[j].process =>
    \A k \in i .. j : q[k].process = q[i].process

\* After a message of p are only messages of it.
Ends(q, p) ==
  \A i \in DOMAIN q : q[i].process = p => \A k \in i .. Len(q) : q[k].process = p

\* What has been read from the pipe.
Stream == log \o daemon_tasks

\* The process that has the pipe is the last one that has written to it.
Apart ==
  /\ Run(Stream)
  /\ peer # NoClient => Ends(Stream, peer)
  /\ \A m \in Items(pipe) : m.process = peer
  /\ \A p \in Clients : client_pipe[p] = "open" => peer = p

\* A message of the process that ends the row.
LEMMA RunAppend ==
  ASSUME NEW q \in Seq(Tasks), NEW x \in Tasks, Run(q), x # Signal => Ends(q, x.process)
  PROVE  /\ Run(Append(q, x))
         /\ \A p : Ends(q, p) /\ x.process = p => Ends(Append(q, x), p)
  <1> DEFINE r == Append(q, x)
             n == Len(q)
  <1>1. /\ Len(q) \in Nat /\ DOMAIN q = 1 .. Len(q) /\ DOMAIN r = 1 .. Len(q) + 1
        /\ Len(r) = Len(q) + 1 /\ \A i \in 1 .. Len(q) : r[i] = q[i] /\ q[i] \in Tasks
        /\ r[Len(q) + 1] = x
    BY AppendProperties, LenProperties, ElementOfSeq
  <1>2. \A t \in Tasks : t.process = NoClient <=> t = Signal
    BY LogAssumption DEF Tasks, Messages, Signal
  <1> HIDE DEF r
  <1>3. ASSUME NEW i \in DOMAIN r, NEW j \in DOMAIN r, i <= j, r[i] # Signal,
               r[i].process = r[j].process, NEW k \in i .. j
        PROVE  r[k].process = r[i].process
    <2>1. CASE j # n + 1
      <3>1. i \in DOMAIN q /\ j \in DOMAIN q /\ k \in DOMAIN q
        BY <1>1, <1>3, <2>1
      <3> QED
        BY <1>1, <1>3, <3>1 DEF Run
    <2>2. CASE i = n + 1
      BY <1>1, <1>3, <2>2
    <2>3. CASE i # n + 1 /\ j = n + 1
      <3>1. i \in DOMAIN q /\ r[i] = q[i] /\ q[i] \in Tasks /\ r[j] = x
        BY <1>1, <1>3, <2>3
      <3>2. x # Signal
        BY <1>2, <1>3, <3>1
      <3>3. \A l \in i .. n : q[l].process = x.process
        BY <1>3, <3>1, <3>2 DEF Ends
      <3>4. k = n + 1 \/ (k \in i .. n /\ k \in 1 .. n)
        BY <1>1, <1>3, <2>3, <3>1
      <3> QED
        BY <1>1, <1>3, <3>1, <3>3, <3>4
    <2> QED
      BY <2>1, <2>2, <2>3
  <1>4. ASSUME NEW p, Ends(q, p), x.process = p, NEW i \in DOMAIN r, r[i].process = p,
               NEW k \in i .. Len(r)
        PROVE  r[k].process = p
    <2>1. CASE k = n + 1
      BY <1>1, <1>4, <2>1
    <2>2. CASE k # n + 1
      <3>1. i \in DOMAIN q /\ k \in DOMAIN q /\ k \in i .. n /\ r[i] = q[i] /\ r[k] = q[k]
        BY <1>1, <1>4, <2>2
      <3> QED
        BY <1>4, <3>1 DEF Ends
    <2> QED
      BY <2>1, <2>2
  <1>5. Run(r)
    BY <1>3 DEF Run
  <1>6. \A p : Ends(q, p) /\ x.process = p => Ends(r, p)
    BY <1>4 DEF Ends
  <1> QED
    BY <1>5, <1>6 DEF r

\* What is left of a row when tasks are dropped.
LEMMA RunPart ==
  ASSUME NEW q \in Seq(Tasks), NEW r \in Seq(Tasks), NEW f,
         \A i \in DOMAIN r : f[i] \in DOMAIN q /\ r[i] = q[f[i]],
         \A i, j \in DOMAIN r : i <= j => f[i] <= f[j]
  PROVE  /\ Run(q) => Run(r)
         /\ \A p : Ends(q, p) => Ends(r, p)
  <1>1. /\ Len(q) \in Nat /\ DOMAIN q = 1 .. Len(q)
        /\ Len(r) \in Nat /\ DOMAIN r = 1 .. Len(r)
    BY LenProperties
  <1>2. ASSUME Run(q), NEW i \in DOMAIN r, NEW j \in DOMAIN r, i <= j, r[i] # Signal,
               r[i].process = r[j].process, NEW k \in i .. j
        PROVE  r[k].process = r[i].process
    <2>1. k \in DOMAIN r /\ i <= k /\ k <= j
      BY <1>1, <1>2
    <2>2. f[k] \in f[i] .. f[j] /\ f[i] <= f[j]
      BY <1>1, <1>2, <2>1
    <2> QED
      BY <1>2, <2>1, <2>2 DEF Run
  <1>3. ASSUME NEW p, Ends(q, p), NEW i \in DOMAIN r, r[i].process = p, NEW k \in i .. Len(r)
        PROVE  r[k].process = p
    <2>1. k \in DOMAIN r /\ i <= k
      BY <1>1, <1>3
    <2>2. f[k] \in f[i] .. Len(q)
      BY <1>1, <1>3, <2>1
    <2> QED
      BY <1>3, <2>1, <2>2 DEF Ends
  <1> QED
    BY <1>2, <1>3 DEF Run, Ends

\* The first task of the second queue is dropped, or the whole second queue.
LEMMA RunDrop ==
  ASSUME NEW q \in Seq(Tasks), NEW u \in Seq(Tasks), Run(q \o u)
  PROVE  /\ Run(q) /\ \A p : Ends(q \o u, p) => Ends(q, p)
         /\ u # <<>> => /\ Run(q \o Tail(u))
                        /\ \A p : Ends(q \o u, p) => Ends(q \o Tail(u), p)
  <1> DEFINE w == q \o u
             n == Len(q)
             l == Len(u)
  <1>1. /\ n \in Nat /\ l \in Nat /\ DOMAIN q = 1 .. n
        /\ w \in Seq(Tasks) /\ DOMAIN w = 1 .. n + l
        /\ \A i \in 1 .. n + l : w[i] = IF i <= n THEN q[i] ELSE u[i - n]
    BY ConcatProperties, LenProperties
  <1> HIDE DEF w
  <1>2. Run(q) /\ \A p : Ends(w, p) => Ends(q, p)
    <2> DEFINE f == [i \in 1 .. n |-> i]
    <2>1. \A i \in DOMAIN q : f[i] \in DOMAIN w /\ q[i] = w[f[i]]
      BY <1>1
    <2>2. \A i, j \in DOMAIN q : i <= j => f[i] <= f[j]
      BY <1>1
    <2>3. Run(w)
      BY DEF w
    <2> HIDE DEF f
    <2> QED
      BY <1>1, <2>1, <2>2, <2>3, RunPart
  <1>3. ASSUME u # <<>>
        PROVE  Run(q \o Tail(u)) /\ \A p : Ends(w, p) => Ends(q \o Tail(u), p)
    <2> DEFINE t == Tail(u)
               v == q \o t
               f == [i \in 1 .. n + l - 1 |-> IF i <= n THEN i ELSE i + 1]
    <2>1. l # 0 /\ t \in Seq(Tasks) /\ Len(t) = l - 1 /\ \A i \in 1 .. l - 1 : t[i] = u[i + 1]
      BY <1>3, EmptySeq, HeadTailProperties
    <2> HIDE DEF t
    <2>2. /\ v \in Seq(Tasks) /\ DOMAIN v = 1 .. n + (l - 1)
          /\ \A i \in 1 .. n + (l - 1) : v[i] = IF i <= n THEN q[i] ELSE t[i - n]
      <3>1. /\ v \in Seq(Tasks) /\ Len(v) = Len(q) + Len(t)
            /\ \A i \in 1 .. Len(q) + Len(t) : v[i] = IF i <= Len(q) THEN q[i] ELSE t[i - Len(q)]
        BY <2>1, ConcatProperties
      <3>2. DOMAIN v = 1 .. Len(v)
        BY <3>1, LenProperties
      <3> QED
        BY <2>1, <3>1, <3>2
    <2> HIDE DEF v, n, l
    <2>3. ASSUME NEW i \in DOMAIN v
          PROVE  f[i] \in DOMAIN w /\ v[i] = w[f[i]]
      <3>1. i \in 1 .. n + l - 1
        BY <1>1, <2>1, <2>2
      <3>2. CASE i <= n
        BY <1>1, <2>1, <2>2, <3>1, <3>2
      <3>3. CASE ~(i <= n)
        <4>1. f[i] = i + 1 /\ i + 1 \in DOMAIN w /\ i - n \in 1 .. l - 1
          BY <1>1, <2>1, <3>1, <3>3, SMTT(30)
        <4>2. w[i + 1] = u[i + 1 - n]
          BY <1>1, <3>1, <3>3, <4>1, SMTT(30)
        <4>3. v[i] = t[i - n] /\ t[i - n] = u[i - n + 1]
          BY <2>1, <2>2, <3>3, <4>1
        <4>4. i + 1 - n = i - n + 1
          BY <1>1, <3>1
        <4> QED
          BY <4>1, <4>2, <4>3, <4>4
      <3> QED
        BY <3>2, <3>3
    <2>4. ASSUME NEW i \in DOMAIN v, NEW j \in DOMAIN v, i <= j
          PROVE  f[i] <= f[j]
      <3>1. i \in 1 .. n + l - 1 /\ j \in 1 .. n + l - 1
        BY <1>1, <2>1, <2>2
      <3> QED
        BY <1>1, <2>4, <3>1
    <2>5. Run(w)
      BY DEF w, n, l
    <2> HIDE DEF f
    <2>6. Run(v) /\ \A p : Ends(w, p) => Ends(v, p)
      BY <1>1, <2>2, <2>3, <2>4, <2>5, RunPart
    <2> QED
      BY <2>6 DEF v, t
  <1> QED
    BY <1>2, <1>3 DEF w

\* Initially nothing was reported.
LEMMA ApartInit == Init => Apart
  <1> SUFFICES ASSUME Init
               PROVE  Apart
    OBVIOUS
  <1>1. /\ log = <<>> /\ daemon_tasks = <<>> /\ pipe = <<>> /\ peer = NoClient
        /\ \A p \in Clients : client_pipe[p] = "closed"
    BY DEF Init
  <1>2. <<>> \o <<>> = <<>> /\ DOMAIN <<>> = {}
    OBVIOUS
  <1> QED
    BY <1>1, <1>2, OrderEmpty DEF Apart, Stream, Run

\* Every step keeps the messages apart.
LEMMA ApartStep == TypeOK /\ TypeOK' /\ Flow /\ Apart /\ [Next]_vars => Apart'
  <1> SUFFICES ASSUME TypeOK, TypeOK', Flow, Apart, [Next]_vars
               PROVE  Apart'
    OBVIOUS
  <1> USE DEF ioVars, pipeVars, daemonVars
  <1>1. /\ log \in Seq(Tasks) /\ daemon_tasks \in Seq(Tasks) /\ pipe \in Seq(Tasks)
        /\ Items(pipe) \subseteq Messages
        /\ Stream \in Seq(Tasks) /\ ToSet(Stream) \subseteq Posted \cup {Signal}
    <2>1. /\ log \in Seq(Tasks) /\ daemon_tasks \in Seq(Tasks) /\ pipe \in Seq(Tasks)
          /\ Written \subseteq Messages
      BY Queues
    <2>2. Stream \in Seq(Tasks) /\ ToSet(Stream) = ToSet(log) \cup ToSet(daemon_tasks)
      BY <2>1, ConcatSet DEF Stream
    <2> QED
      BY <2>1, <2>2 DEF Written, Posted, Logged, Items
  <1>2. \A m \in Messages : m.process \in Clients /\ m.process # NoClient /\ m # Signal
    BY LogAssumption DEF Messages, Signal
  <1>3. ASSUME UNCHANGED <<peer, pipe, log, daemon_tasks>>,
               \A r \in Clients : client_pipe'[r] = "open" => client_pipe[r] = "open"
        PROVE  Apart'
    <2>1. Stream' = Stream
      BY <1>3 DEF Stream
    <2> QED
      BY <1>3, <2>1 DEF Apart
  <1>4. ASSUME NEW p \in Clients, NEW th \in Threads, Report(p, th) \/ Cache(p, th)
        PROVE  Apart'
    <2>1. UNCHANGED <<peer, pipe, log, daemon_tasks, client_pipe>>
      BY <1>4 DEF Report, Cache
    <2> QED
      BY <1>3, <2>1
  <1>5. ASSUME NEW p \in Clients,
               \/ Flag(p) \/ Drain(p) \/ DoAction(p) \/ OnChannelError(p)
               \/ OnChannelOpened(p) \/ OnSendMessage(p) \/ PipeBroken(p) \/ Exit(p)
        PROVE  Apart'
    <2>1. /\ UNCHANGED <<peer, pipe, log, daemon_tasks>>
          /\ UNCHANGED client_pipe \/ client_pipe' = [client_pipe EXCEPT ![p] = "closed"]
      BY <1>5 DEF Flag, Drain, DoAction, OnChannelError, ChannelKept, OnChannelOpened,
         OnSendMessage, PipeBroken, Exit
    <2>2. \A r \in Clients : client_pipe'[r] = "open" => client_pipe[r] = "open"
      BY <2>1 DEF TypeOK, ClientTypes
    <2> QED
      BY <1>3, <2>1, <2>2
  <1>6. ASSUME NEW p \in Clients, CreateChannel(p)
        PROVE  Apart'
    <2>1. /\ UNCHANGED <<pipe, log, daemon_tasks>> /\ main[p] = "starting"
          /\ \/ UNCHANGED <<peer, client_pipe>>
             \/ /\ peer = NoClient /\ peer' = p
                /\ client_pipe' = [client_pipe EXCEPT ![p] = "open"]
      BY <1>6 DEF CreateChannel, PipeFree
    <2>2. CASE UNCHANGED <<peer, client_pipe>>
      BY <1>3, <2>1, <2>2
    <2>3. CASE /\ peer = NoClient /\ peer' = p
               /\ client_pipe' = [client_pipe EXCEPT ![p] = "open"]
      <3>1. \A m \in Items(pipe) : m.process = NoClient /\ m \in Messages
        BY <1>1, <2>3 DEF Apart
      <3>2. Items(pipe') = {}
        BY <1>2, <2>1, <3>1
      <3>3. \A r \in Clients : client_pipe[r] # "open"
        BY <2>3, LogAssumption DEF Apart
      <3>4. \A r \in Clients : client_pipe'[r] = "open" => r = p
        BY <2>3, <3>3 DEF TypeOK, ClientTypes
      <3>5. \A m \in Posted : m.process # p
        BY <2>1 DEF Flow, Opening, Opens, Early, Written
      <3>6. \A i \in DOMAIN Stream : Stream[i].process # p
        <4>1. Signal.process # p
          BY LogAssumption DEF Signal
        <4>2. \A m \in ToSet(Stream) : m.process # p
          BY <1>1, <3>5, <4>1
        <4> QED
          BY <4>2 DEF ToSet
      <3>7. Stream' = Stream
        BY <2>1 DEF Stream
      <3>8. Ends(Stream', peer')
        BY <2>3, <3>6, <3>7 DEF Ends
      <3>9. Run(Stream')
        BY <3>7 DEF Apart
      <3> QED
        BY <2>3, <3>2, <3>4, <3>8, <3>9 DEF Apart
    <2> QED
      BY <2>1, <2>2, <2>3
  <1>7. ASSUME NEW p \in Clients, ProcessOutgoingMessages(p)
        PROVE  Apart'
    <2> DEFINE h == Head(output_queue_[p])
    <2>1. /\ UNCHANGED <<peer, log, daemon_tasks, client_pipe>> /\ client_pipe[p] = "open"
          /\ pipe' = Append(pipe, h) /\ output_queue_[p] # <<>>
      BY <1>7 DEF ProcessOutgoingMessages
    <2>2. h \in Tasks /\ Item(h) \subseteq Own(p)
      <3>1. output_queue_[p] \in Seq(Tasks)
        BY Queues
      <3> QED
        BY <2>1, <3>1, ItemsTail DEF Own
    <2> HIDE DEF h
    <2>3. Items(pipe') = Items(pipe) \cup Item(h)
      BY <1>1, <2>1, <2>2, ItemsAppend
    <2>4. peer = p /\ \A m \in Items(pipe) : m.process = peer
      BY <2>1 DEF Apart
    <2>5. \A m \in Own(p) : m.process = p
      BY DEF Flow, Owned
    <2>6. \A m \in Items(pipe') : m.process = peer'
      BY <2>1, <2>2, <2>3, <2>4, <2>5
    <2>7. Stream' = Stream
      BY <2>1 DEF Stream
    <2> QED
      BY <2>1, <2>6, <2>7 DEF Apart
  <1>8. CASE DaemonIO \/ DaemonUI \/ DaemonExit
    <2>1. UNCHANGED client_pipe
      BY <1>8 DEF DaemonIO, DaemonOpened, DaemonConnected, DaemonRead, DaemonReadFails,
         ProcessConnection, DaemonUI, DaemonLog, DaemonError, DaemonExit, unchangedByDaemon
    <2>2. CASE DaemonOpened \/ DaemonConnected
      <3>1. UNCHANGED <<peer, pipe, log, daemon_tasks>>
        BY <2>2 DEF DaemonOpened, DaemonConnected, ProcessConnection
      <3> QED
        BY <1>3, <2>1, <3>1
    <2>3. CASE DaemonRead
      <3> DEFINE h == Head(pipe)
      <3>1. /\ UNCHANGED <<peer, log>> /\ pipe # <<>> /\ pipe' = Tail(pipe)
            /\ daemon_tasks' = Append(daemon_tasks, h)
        BY <2>3 DEF DaemonRead
      <3>2. h \in Messages
        BY <3>1, HeadTailProperties DEF TypeOK, DaemonTypes
      <3>3. /\ Items(pipe) = Item(h) \cup Items(Tail(pipe)) /\ h \in Tasks
        BY <1>1, <3>1, ItemsTail
      <3> HIDE DEF h
      <3>4. h.process = peer /\ peer # NoClient /\ h # Signal
        BY <1>2, <3>2, <3>3 DEF Apart, Item
      <3>5. Stream' = Append(Stream, h)
        BY <1>1, <3>1, <3>3, ConcatAppend DEF Stream
      <3>6. Run(Stream) /\ Ends(Stream, peer)
        BY <3>4 DEF Apart
      <3>7. Run(Append(Stream, h)) /\ Ends(Append(Stream, h), peer)
        BY <1>1, <3>3, <3>4, <3>6, RunAppend
      <3> QED
        BY <2>1, <3>1, <3>3, <3>5, <3>7 DEF Apart
    <2>4. CASE DaemonReadFails
      <3>1. /\ UNCHANGED log /\ peer' = NoClient /\ pipe' = <<>> /\ ~PeerOpen
            /\ daemon_tasks' = Append(daemon_tasks, Signal)
        BY <2>4 DEF DaemonReadFails
      <3>2. \A r \in Clients : client_pipe[r] # "open"
        BY <3>1 DEF Apart, PeerOpen
      <3>3. Stream' = Append(Stream, Signal)
        BY <1>1, <3>1, MessagesAreTasks, ConcatAppend DEF Stream
      <3>4. Run(Append(Stream, Signal))
        BY <1>1, MessagesAreTasks, RunAppend DEF Apart
      <3> QED
        BY <2>1, <3>1, <3>2, <3>3, <3>4, OrderEmpty DEF Apart
    <2>5. CASE DaemonLog
      <3>1. /\ UNCHANGED <<peer, pipe>> /\ daemon_tasks # <<>>
            /\ log' = Append(log, Head(daemon_tasks)) /\ daemon_tasks' = Tail(daemon_tasks)
        BY <2>5 DEF DaemonLog, HasAction
      <3>2. Append(log, Head(daemon_tasks)) \o Tail(daemon_tasks) = log \o daemon_tasks
        BY <1>1, <3>1, ConcatMove
      <3>3. Stream' = Stream
        BY <3>1, <3>2 DEF Stream
      <3> QED
        BY <2>1, <3>1, <3>3 DEF Apart
    <2>6. CASE DaemonError
      <3>1. /\ UNCHANGED <<peer, pipe, log>> /\ daemon_tasks # <<>>
            /\ daemon_tasks' = Tail(daemon_tasks)
        BY <2>6 DEF DaemonError, HasSignal
      <3>2. Run(log \o daemon_tasks) /\ (peer # NoClient => Ends(log \o daemon_tasks, peer))
        BY DEF Apart, Stream
      <3>3. /\ Run(log \o Tail(daemon_tasks))
            /\ peer # NoClient => Ends(log \o Tail(daemon_tasks), peer)
        BY <1>1, <3>1, <3>2, RunDrop
      <3> QED
        BY <2>1, <3>1, <3>3 DEF Apart, Stream
    <2>7. CASE DaemonExit
      <3>1. UNCHANGED <<peer, log>> /\ daemon_tasks' = <<>> /\ pipe' = <<>>
        BY <2>7 DEF DaemonExit
      <3>2. log \o <<>> = log
        BY <1>1, ConcatEmptySeq
      <3>3. Run(log \o daemon_tasks) /\ (peer # NoClient => Ends(log \o daemon_tasks, peer))
        BY DEF Apart, Stream
      <3>4. Run(log) /\ (peer # NoClient => Ends(log, peer))
        BY <1>1, <3>3, RunDrop
      <3> QED
        BY <2>1, <3>1, <3>2, <3>4, OrderEmpty DEF Apart, Stream
    <2> QED
      BY <1>8, <2>2, <2>3, <2>4, <2>5, <2>6, <2>7 DEF DaemonIO, DaemonUI
  <1>9. CASE UNCHANGED vars
    BY <1>3, <1>9 DEF vars
  <1> QED
    BY <1>4, <1>5, <1>6, <1>7, <1>8, <1>9 DEF Next, Client, ClientIO
-----------------------------------------------------------------------------
(***************************************************************************)
(* The theorems.                                                           *)
(***************************************************************************)

IInv == TypeOK /\ Reporting /\ Flow /\ Apart

\* What is on its way is in order, complete and apart, in every state of the processes,
\* of the pipe and of the profiler.
THEOREM Invariance == Spec => []IInv
  <1>1. Init => IInv
    BY TypesInit, FlowInit, ApartInit DEF IInv
  <1>2. IInv /\ [Next]_vars => IInv'
    BY TypesStep, ReportingStep, FlowStep, ApartStep DEF IInv
  <1> QED
    BY <1>1, <1>2, PTL DEF Spec

\* Every variable has its type, and the pipe never holds more than it can.
THEOREM TypeCorrect == Spec => []TypeOK
  <1>1. IInv => TypeOK
    BY DEF IInv
  <1> QED
    BY <1>1, Invariance, PTL

\* What ProfilerData::Action() is given in the profiler is what the threads of the
\* profiled processes reported: nothing twice, nothing before what its thread reported
\* earlier, unless that was stranded in the cache, and no process amid another.
THEOREM Faithful == Spec => []LogFaithful
  <1>1. IInv => LogFaithful
    <2> SUFFICES ASSUME IInv
                 PROVE  LogFaithful
      OBVIOUS
    <2>1. /\ InOrder(log, {}, Aside) /\ Run(Stream) /\ log \in Seq(Messages)
          /\ daemon_tasks \in Seq(Tasks) /\ log \in Seq(Tasks)
      BY MessagesAreTasks DEF IInv, TypeOK, DaemonTypes, Flow, Orderly, Apart
    <2>2. /\ Len(log) \in Nat /\ DOMAIN log = 1 .. Len(log)
          /\ \A i \in DOMAIN log : log[i] \in Messages /\ log[i] # Signal
      BY <2>1, LenProperties, ElementOfSeq, MessagesAreTasks
    <2>3. \A i \in DOMAIN log : /\ \A j \in 1 .. i - 1 : log[j] # log[i]
                                /\ Earlier(log[i]) \subseteq Aside \cup {log[j] : j \in 1 .. i - 1}
      BY <2>1, <2>2 DEF InOrder
    <2>4. IsInjective(log)
      <3> SUFFICES ASSUME NEW a \in DOMAIN log, NEW b \in DOMAIN log, log[a] = log[b]
                   PROVE  a = b
        BY DEF IsInjective
      <3>1. a < b => a \in 1 .. b - 1
        BY <2>2
      <3>2. b < a => b \in 1 .. a - 1
        BY <2>2
      <3> QED
        BY <2>2, <2>3, <3>1, <3>2
    <2>5. ASSUME NEW i \in DOMAIN log
          PROVE  Earlier(log[i]) \subseteq {log[j] : j \in 1 .. i - 1} \cup Stranded(log[i].process)
      <3> SUFFICES ASSUME NEW m \in Earlier(log[i]), m \in Aside
                   PROVE  m \in Stranded(log[i].process)
        BY <2>3
      <3>1. m.process = log[i].process
        BY DEF Earlier, Message
      <3>2. PICK q \in Clients : m \in Stranded(q)
        BY DEF Aside
      <3>3. m.process = q
        BY <3>2 DEF IInv, Flow, Owned, Own
      <3> QED
        BY <3>1, <3>2, <3>3
    <2>6. Run(log)
      BY <2>1, RunDrop DEF Stream
    <2>7. ASSUME NEW i \in DOMAIN log, NEW j \in 1 .. i - 1, log[j].process = log[i].process
          PROVE  \A k \in j .. i : log[k].process = log[i].process
      <3>1. j \in DOMAIN log /\ j <= i
        BY <2>2
      <3> QED
        BY <2>2, <2>6, <2>7, <3>1 DEF Run
    <2>8. \A p \in Clients : main[p] = "looping" =>
            \A m1, m2 \in Stranded(p) : m1.thread = m2.thread => m1 = m2
      BY DEF IInv, Flow, Caching
    <2> QED
      BY <2>4, <2>5, <2>7, <2>8 DEF LogFaithful
  <1> QED
    BY <1>1, Invariance, PTL
-----------------------------------------------------------------------------
(***************************************************************************)
(* What the liveness of the log rests on: an action that is not yet in the *)
(* log is in one of the queues, and an error of the daemon's channel is    *)
(* reported once, when the pipe can be made anew.                          *)
(***************************************************************************)

\* Every action of a process whose pipe is open is in the log or on its way to it, unless
\* it is stranded in the cache or the thread that reports it is about to cache it.
ActionsArrive ==
  \A p \in Clients, th \in Threads : client_pipe[p] = "open" /\ daemon_pipe # "gone" =>
    \A n \in 1 .. reported[p][th] :
      \/ n = reported[p][th] /\ th \in caching[p]
      \/ Message(p, th, n) \in
           ToSet(log) \cup ToSet(daemon_tasks) \cup ToSet(pipe) \cup ToSet(output_queue_[p])
             \cup ToSet(io_tasks[p]) \cup ToSet(ui_tasks[p]) \cup Stranded(p)

\* No action that the hooks of a connected process reported gets lost between
\* ProfilerData::Action() in the process and ProfilerData::Action() in the profiler.
THEOREM NoActionLost == Spec => []ActionsArrive
  <1>1. IInv => ActionsArrive
    BY DEF IInv, Flow, Complete, Live, Written, Posted, Logged, Own, Items, ActionsArrive
  <1> QED
    BY <1>1, Invariance, PTL

Errors == {i \in DOMAIN daemon_tasks : daemon_tasks[i] = Signal}

\* A channel of the daemon that failed has reported one error, and nobody has its pipe.
ErrorOnce ==
  /\ \A i, j \in Errors : i = j
  /\ daemon_pipe = "closed" <=> Errors # {}
  /\ daemon_pipe = "closed" => peer = NoClient /\ pipe = <<>>

\* A task that joins the tasks of the daemon's UI thread.
LEMMA ErrorsAppend ==
  ASSUME daemon_tasks \in Seq(Tasks), NEW x \in Tasks, daemon_tasks' = Append(daemon_tasks, x)
  PROVE  /\ x # Signal => Errors' = Errors
         /\ x = Signal => Errors' = Errors \cup {Len(daemon_tasks) + 1}
  <1> DEFINE r == Append(daemon_tasks, x)
             n == Len(daemon_tasks)
  <1>1. /\ n \in Nat /\ DOMAIN daemon_tasks = 1 .. n /\ DOMAIN r = 1 .. n + 1
        /\ r[n + 1] = x /\ \A i \in 1 .. n : r[i] = daemon_tasks[i]
    BY AppendProperties, LenProperties
  <1>2. Errors' = {i \in DOMAIN r : r[i] = Signal}
    BY DEF Errors
  <1> HIDE DEF r, n
  <1>3. 1 .. n + 1 = 1 .. n \cup {n + 1}
    BY <1>1
  <1>4. {i \in DOMAIN r : r[i] = Signal} = Errors \cup {i \in {n + 1} : r[i] = Signal}
    BY <1>1, <1>3 DEF Errors
  <1> QED
    BY <1>1, <1>2, <1>4 DEF n

\* The first task that leaves them.
LEMMA ErrorsTail ==
  ASSUME daemon_tasks \in Seq(Tasks), daemon_tasks # <<>>, daemon_tasks' = Tail(daemon_tasks)
  PROVE  /\ \A i \in Errors' : i + 1 \in Errors /\ i \in Nat \ {0}
         /\ \A i \in Errors : i # 1 => i - 1 \in Errors'
         /\ 1 \in Errors <=> Head(daemon_tasks) = Signal
  <1> DEFINE r == Tail(daemon_tasks)
             n == Len(daemon_tasks)
  <1>1. /\ n \in Nat \ {0} /\ DOMAIN daemon_tasks = 1 .. n /\ DOMAIN r = 1 .. n - 1
        /\ Head(daemon_tasks) = daemon_tasks[1]
        /\ \A i \in 1 .. n - 1 : r[i] = daemon_tasks[i + 1]
    BY EmptySeq, HeadTailProperties, LenProperties
  <1>2. Errors' = {i \in DOMAIN r : r[i] = Signal}
    BY DEF Errors
  <1> HIDE DEF r, n
  <1>3. \A i \in 1 .. n - 1 : i + 1 \in 1 .. n /\ i \in Nat \ {0}
    BY <1>1
  <1>4. \A i \in 1 .. n : i # 1 => i - 1 \in 1 .. n - 1 /\ (i - 1) + 1 = i
    BY <1>1
  <1>5. 1 \in 1 .. n
    BY <1>1
  <1>6. \A i \in Errors' : i \in 1 .. n - 1 /\ daemon_tasks[i + 1] = Signal
    BY <1>1, <1>2
  <1>7. \A i \in Errors : i # 1 => i - 1 \in Errors'
    BY <1>1, <1>2, <1>4 DEF Errors
  <1> QED
    BY <1>1, <1>3, <1>5, <1>6, <1>7 DEF Errors

\* Every step keeps the errors apart.
LEMMA ErrorOnceStep == TypeOK /\ Apart /\ ErrorOnce /\ [Next]_vars => ErrorOnce'
  <1> SUFFICES ASSUME TypeOK, Apart, ErrorOnce, [Next]_vars
               PROVE  ErrorOnce'
    OBVIOUS
  <1> USE DEF pipeVars, daemonVars, ioVars
  <1>1. daemon_tasks \in Seq(Tasks) /\ Signal \in Tasks
    BY MessagesAreTasks DEF TypeOK, DaemonTypes
  <1>2. ASSUME UNCHANGED <<peer, pipe, daemon_pipe, daemon_tasks>>
        PROVE  ErrorOnce'
    BY <1>2 DEF ErrorOnce, Errors
  <1>3. ASSUME NEW p \in Clients, NEW th \in Threads, Report(p, th) \/ Cache(p, th)
        PROVE  ErrorOnce'
    BY <1>2, <1>3 DEF Report, Cache
  <1>4. ASSUME NEW p \in Clients,
               \/ Flag(p) \/ Drain(p) \/ DoAction(p) \/ OnChannelError(p)
               \/ OnChannelOpened(p) \/ OnSendMessage(p) \/ PipeBroken(p) \/ Exit(p)
        PROVE  ErrorOnce'
    <2>1. UNCHANGED <<peer, pipe, daemon_pipe, daemon_tasks>>
      BY <1>4 DEF Flag, Drain, DoAction, OnChannelError, ChannelKept, OnChannelOpened,
         OnSendMessage, PipeBroken, Exit
    <2> QED
      BY <1>2, <2>1
  <1>5. ASSUME NEW p \in Clients, CreateChannel(p)
        PROVE  ErrorOnce'
    <2>1. /\ UNCHANGED <<pipe, daemon_pipe, daemon_tasks>>
          /\ UNCHANGED peer \/ daemon_pipe \in {"created", "listening"}
      BY <1>5 DEF CreateChannel, PipeFree
    <2>2. Errors' = Errors
      BY <2>1 DEF Errors
    <2> QED
      BY <2>1, <2>2 DEF ErrorOnce
  <1>6. ASSUME NEW p \in Clients, ProcessOutgoingMessages(p)
        PROVE  ErrorOnce'
    <2>1. UNCHANGED <<peer, daemon_pipe, daemon_tasks>> /\ client_pipe[p] = "open"
      BY <1>6 DEF ProcessOutgoingMessages
    <2>2. peer # NoClient
      BY <2>1, LogAssumption DEF Apart
    <2>3. Errors' = Errors
      BY <2>1 DEF Errors
    <2> QED
      BY <2>1, <2>2, <2>3 DEF ErrorOnce
  <1>7. CASE DaemonOpened \/ DaemonConnected
    <2>1. /\ UNCHANGED daemon_tasks /\ daemon_pipe # "closed" /\ daemon_pipe' = Connection
      BY <1>7 DEF DaemonOpened, DaemonConnected, ProcessConnection
    <2>2. daemon_pipe' # "closed"
      BY <2>1 DEF Connection
    <2>3. Errors' = Errors
      BY <2>1 DEF Errors
    <2> QED
      BY <2>1, <2>2, <2>3 DEF ErrorOnce
  <1>8. CASE DaemonRead
    <2>1. /\ pipe # <<>> /\ daemon_tasks' = Append(daemon_tasks, Head(pipe))
          /\ UNCHANGED daemon_pipe /\ daemon_pipe = "connected"
      BY <1>8 DEF DaemonRead
    <2>2. Head(pipe) \in Tasks /\ Head(pipe) # Signal
      BY <2>1, HeadTailProperties, MessagesAreTasks DEF TypeOK, DaemonTypes, Tasks
    <2>3. Errors' = Errors
      BY <1>1, <2>1, <2>2, ErrorsAppend
    <2> QED
      BY <2>1, <2>3 DEF ErrorOnce
  <1>9. CASE DaemonReadFails
    <2>1. /\ daemon_tasks' = Append(daemon_tasks, Signal) /\ daemon_pipe = "connected"
          /\ daemon_pipe' = "closed" /\ peer' = NoClient /\ pipe' = <<>>
      BY <1>9 DEF DaemonReadFails
    <2>2. Errors' = Errors \cup {Len(daemon_tasks) + 1}
      BY <1>1, <2>1, ErrorsAppend
    <2>3. Errors = {}
      BY <2>1 DEF ErrorOnce
    <2> QED
      BY <2>1, <2>2, <2>3 DEF ErrorOnce
  <1>10. CASE DaemonLog
    <2>1. /\ daemon_tasks # <<>> /\ Head(daemon_tasks) # Signal
          /\ daemon_tasks' = Tail(daemon_tasks) /\ UNCHANGED <<peer, pipe, daemon_pipe>>
      BY <1>10 DEF DaemonLog, HasAction
    <2>2. /\ \A i \in Errors' : i + 1 \in Errors /\ i \in Nat \ {0}
          /\ \A i \in Errors : i - 1 \in Errors'
      BY <1>1, <2>1, ErrorsTail
    <2>3. \A i, j \in Errors' : i = j
      <3>1. \A i, j \in Errors' : i + 1 = j + 1
        BY <2>2 DEF ErrorOnce
      <3> QED
        BY <2>2, <3>1
    <2>4. Errors' # {} <=> Errors # {}
      BY <2>2
    <2> QED
      BY <2>1, <2>3, <2>4 DEF ErrorOnce
  <1>11. CASE DaemonError
    <2>1. /\ daemon_tasks # <<>> /\ Head(daemon_tasks) = Signal
          /\ daemon_tasks' = Tail(daemon_tasks) /\ daemon_pipe' = "created"
      BY <1>11 DEF DaemonError, HasSignal, DaemonInit
    <2>2. 1 \in Errors /\ \A i \in Errors' : i + 1 \in Errors /\ i \in Nat \ {0}
      BY <1>1, <2>1, ErrorsTail
    <2>3. ASSUME NEW i \in Errors'
          PROVE  FALSE
      <3>1. i + 1 = 1 /\ i \in Nat \ {0}
        BY <2>2 DEF ErrorOnce
      <3> QED
        BY <3>1
    <2> QED
      BY <2>1, <2>3 DEF ErrorOnce
  <1>12. CASE DaemonExit
    <2>1. daemon_pipe' = "gone" /\ daemon_tasks' = <<>>
      BY <1>12 DEF DaemonExit
    <2>2. Errors' = {}
      BY <2>1 DEF Errors
    <2> QED
      BY <2>1, <2>2 DEF ErrorOnce
  <1>13. CASE UNCHANGED vars
    BY <1>2, <1>13 DEF vars
  <1> QED
    BY <1>3, <1>4, <1>5, <1>6, <1>7, <1>8, <1>9, <1>10, <1>11, <1>12, <1>13
    DEF Next, Client, ClientIO, DaemonIO, DaemonUI

\* A channel of the daemon whose client is gone closes its pipe and reports one error, and
\* until the error has been handled nobody gets a pipe.
THEOREM ErrorReportedOnce == Spec => []ErrorOnce
  <1>1. Init => ErrorOnce
    BY DEF Init, ErrorOnce, Errors
  <1>2. IInv /\ ErrorOnce /\ [Next]_vars => ErrorOnce'
    BY ErrorOnceStep DEF IInv
  <1> QED
    BY <1>1, <1>2, Invariance, PTL DEF Spec

\* LogDaemon::OnChannelError() replaces a pipe that is closed, never one that a client has
\* or may have, and the pipe it makes is free for the next client.
THEOREM PipeReplaced == Spec => [][DaemonError => daemon_pipe = "closed" /\ PipeFree']_vars
  <1>1. TypeOK /\ ErrorOnce /\ [Next]_vars =>
          [DaemonError => daemon_pipe = "closed" /\ PipeFree']_vars
    <2> SUFFICES ASSUME TypeOK, ErrorOnce, DaemonError
                 PROVE  daemon_pipe = "closed" /\ PipeFree'
      OBVIOUS
    <2>1. /\ daemon_tasks # <<>> /\ Head(daemon_tasks) = Signal
          /\ daemon_pipe' = "created" /\ peer' = peer
      BY DEF DaemonError, HasSignal, DaemonInit, pipeVars
    <2>2. daemon_tasks \in Seq(Tasks)
      BY DEF TypeOK, DaemonTypes
    <2>3. 1 \in Errors
      BY <2>1, <2>2, EmptySeq, HeadTailProperties, LenProperties DEF Errors
    <2> QED
      BY <2>1, <2>3 DEF ErrorOnce, PipeFree
  <1> QED
    BY <1>1, ErrorReportedOnce, TypeCorrect, PTL DEF Spec
=============================================================================
