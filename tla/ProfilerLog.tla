---------------------------- MODULE ProfilerLog ----------------------------
(***************************************************************************)
(* The log of the profiler: the actions that the hooks of the profiler's   *)
(* DLL report in every profiled process travel through the cache or the UI *)
(* thread of the DLL, its IO thread and the named pipe "profiler_logd" to  *)
(* the LogDaemon of the profiler.                                          *)
(*                                                                         *)
(* Every loop is a queue of tasks run by one thread (what MessageLoop      *)
(* promises), a process that exits loses its threads at any step, and the  *)
(* kernel's pipe is modelled by what the calls of ipc_channel_win.cc       *)
(* return: one instance, to which one client at a time can connect.        *)
(* Not modelled: the Hello messages of both ends, the tasks that delete a  *)
(* channel whose pipe is closed already, and that a read returns several   *)
(* messages or a part of one.                                              *)
(***************************************************************************)
EXTENDS Naturals, Sequences, FiniteSets, SequencesExt

CONSTANTS
  Clients,        \* the profiled processes
  Threads,        \* the threads of each that call hooked functions
  WinMain,        \* the UI thread of the DLL as the source of a message
  NoClient,
  Actions,        \* bound: actions that each thread of a process reports
  PipeSize,       \* messages that fit into the pipe
  DaemonMayExit   \* whether the profiler itself may exit

ASSUME LogAssumption ==
  /\ WinMain \notin Threads /\ NoClient \notin Clients
  /\ Actions \in [Clients -> Nat] /\ PipeSize \in Nat \ {0}
  /\ DaemonMayExit \in BOOLEAN

VARIABLES
  \* A profiled process
  main,                \* where its UI thread is
  reported,            \* actions each of its threads has reported
  caching,             \* threads that found g_logclient_init unset
  g_logclient_init,
  g_message_cache,
  ui_tasks, io_tasks,  \* of the DLL's UI and IO threads
  channel_,            \* LogClient has a channel
  queued_messages_,    \* what LogClient keeps without one
  client_pipe,         \* pipe_ of that channel
  output_queue_,
  \* The pipe
  peer,                \* the client of the only instance
  pipe,                \* what the client has written and the daemon not read
  \* The profiler
  daemon_pipe,         \* pipe_ of the LogDaemon's channel
  daemon_tasks,        \* of the profiler's UI thread
  log                  \* what ProfilerData::Action() was given

hookVars   == <<reported, caching>>
cacheVars  == <<g_logclient_init, g_message_cache>>
clientVars == <<channel_, queued_messages_>>
ioVars     == <<client_pipe, output_queue_>>
pipeVars   == <<peer, pipe>>
daemonVars == <<daemon_pipe, daemon_tasks, log>>
vars == <<main, hookVars, cacheVars, ui_tasks, io_tasks, clientVars, ioVars,
          pipeVars, daemonVars>>

Message(p, th, n) == [process |-> p, thread |-> th, number |-> n]
Messages == [process : Clients, thread : Threads \cup {WinMain}, number : Nat \ {0}]

\* The other task: to open the channel, on an IO thread; to report its error, on a UI
\* thread.
Signal == [process |-> NoClient, thread |-> WinMain, number |-> 0]
Tasks == Messages \cup {Signal}

HasAction(queue) == queue # <<>> /\ Head(queue) # Signal
HasSignal(queue) == queue # <<>> /\ Head(queue) = Signal

MainPlaces == {"starting", "created", "flagged", "looping", "dead"}
DaemonPipes == {"created", "listening", "connected", "stuck", "closed", "gone"}

Init ==
  /\ main = [p \in Clients |-> "starting"]
  /\ reported = [p \in Clients |-> [th \in Threads |-> 0]]
  /\ caching = [p \in Clients |-> {}]
  /\ g_logclient_init = [p \in Clients |-> FALSE]
  /\ g_message_cache = [p \in Clients |-> <<>>]
  /\ ui_tasks = [p \in Clients |-> <<>>]
  /\ io_tasks = [p \in Clients |-> <<>>]
  /\ channel_ = [p \in Clients |-> FALSE]
  /\ queued_messages_ = [p \in Clients |-> <<>>]
  /\ client_pipe = [p \in Clients |-> "closed"]
  /\ output_queue_ = [p \in Clients |-> <<>>]
  /\ peer = NoClient /\ pipe = <<>>
  /\ daemon_pipe = "created"
  /\ daemon_tasks = <<>>
  /\ log = <<>>

Push(f, p, x) == [f EXCEPT ![p] = Append(@, x)]
Pop(f, p) == [f EXCEPT ![p] = Tail(@)]
-----------------------------------------------------------------------------
\* The hooks, in any thread of a profiled process.

\* ProfilerData::Action() reads g_logclient_init, outside the lock,
Report(p, th) ==
  LET m == Message(p, th, reported[p][th] + 1)
  IN  /\ main[p] # "dead"
      /\ th \notin caching[p]
      /\ reported[p][th] < Actions[p]
      /\ reported' = [reported EXCEPT ![p][th] = @ + 1]
      /\ \/ /\ g_logclient_init[p]   \* DoAction() posts itself to the UI thread
            /\ ui_tasks' = Push(ui_tasks, p, m)
            /\ UNCHANGED caching
         \/ /\ ~g_logclient_init[p]
            /\ caching' = [caching EXCEPT ![p] = @ \cup {th}]
            /\ UNCHANGED ui_tasks
      /\ UNCHANGED <<main, cacheVars, io_tasks, clientVars, ioVars, pipeVars, daemonVars>>

\* and then puts the message into the cache, under g_cache_lock.
Cache(p, th) ==
  /\ main[p] # "dead"
  /\ th \in caching[p]
  /\ caching' = [caching EXCEPT ![p] = @ \ {th}]
  /\ g_message_cache' = Push(g_message_cache, p, Message(p, th, reported[p][th]))
  /\ UNCHANGED <<main, reported, g_logclient_init, ui_tasks, io_tasks, clientVars, ioVars,
                 pipeVars, daemonVars>>
-----------------------------------------------------------------------------
\* The DLL's UI thread: ProfilerData::Init(), then its loop.

\* CreateFileW() finds an instance of the pipe that has no client yet.
PipeFree == daemon_pipe \in {"created", "listening"} /\ peer = NoClient

\* LogClient::Init() creates the channel, once and for all.
CreateChannel(p) ==
  /\ main[p] = "starting"
  /\ main' = [main EXCEPT ![p] = "created"]
  /\ channel_' = [channel_ EXCEPT ![p] = TRUE]
  /\ io_tasks' = Push(io_tasks, p, Signal)
  /\ IF PipeFree
     THEN peer' = p /\ client_pipe' = [client_pipe EXCEPT ![p] = "open"]
     ELSE UNCHANGED <<peer, client_pipe>>
  /\ UNCHANGED <<hookVars, cacheVars, ui_tasks, queued_messages_, output_queue_, pipe,
                 daemonVars>>

\* g_logclient_init = true,
Flag(p) ==
  /\ main[p] = "created"
  /\ main' = [main EXCEPT ![p] = "flagged"]
  /\ g_logclient_init' = [g_logclient_init EXCEPT ![p] = TRUE]
  /\ UNCHANGED <<hookVars, g_message_cache, ui_tasks, io_tasks, clientVars, ioVars,
                 pipeVars, daemonVars>>

\* LogClient::Send() of the messages s: to the IO thread, or kept for ever.
Send(p, s) ==
  IF channel_[p]
  THEN io_tasks' = [io_tasks EXCEPT ![p] = @ \o s] /\ UNCHANGED queued_messages_
  ELSE queued_messages_' = [queued_messages_ EXCEPT ![p] = @ \o s] /\ UNCHANGED io_tasks

\* then the cache is sent, under g_cache_lock, and a message of Init() itself.
Drain(p) ==
  /\ main[p] = "flagged"
  /\ main' = [main EXCEPT ![p] = "looping"]
  /\ Send(p, Append(g_message_cache[p], Message(p, WinMain, 1)))
  /\ g_message_cache' = [g_message_cache EXCEPT ![p] = <<>>]
  /\ UNCHANGED <<hookVars, g_logclient_init, ui_tasks, channel_, ioVars, pipeVars, daemonVars>>

\* A task of the UI loop: DoAction(),
DoAction(p) ==
  /\ main[p] = "looping"
  /\ HasAction(ui_tasks[p])
  /\ ui_tasks' = Pop(ui_tasks, p)
  /\ Send(p, <<Head(ui_tasks[p])>>)
  /\ UNCHANGED <<main, hookVars, cacheVars, channel_, ioVars, pipeVars, daemonVars>>

\* Mutant: the client opens a new channel after an error.
ChannelReopened(p) == TRUE

ChannelKept(p) == FALSE

\* or LogClient::OnChannelError(), which closes the channel. (Later errors of the
\* channel find no listener.)
OnChannelError(p) ==
  /\ main[p] = "looping"
  /\ HasSignal(ui_tasks[p])
  /\ ui_tasks' = Pop(ui_tasks, p)
  /\ channel_' = [channel_ EXCEPT ![p] = ChannelKept(p)]
  /\ IF ChannelKept(p) /\ PipeFree
     THEN peer' = p /\ client_pipe' = [client_pipe EXCEPT ![p] = "open"]
     ELSE UNCHANGED <<peer, client_pipe>>
  /\ UNCHANGED <<main, hookVars, cacheVars, io_tasks, queued_messages_, output_queue_,
                 pipe, daemonVars>>
-----------------------------------------------------------------------------
\* The DLL's IO thread.

\* Context::OnChannelOpened(): Connect() fails without a pipe.
OnChannelOpened(p) ==
  /\ main[p] # "dead"
  /\ HasSignal(io_tasks[p])
  /\ io_tasks' = Pop(io_tasks, p)
  /\ ui_tasks' = IF client_pipe[p] = "open" THEN ui_tasks ELSE Push(ui_tasks, p, Signal)
  /\ UNCHANGED <<main, hookVars, cacheVars, clientVars, ioVars, pipeVars, daemonVars>>

\* Context::OnSendMessage(): without a pipe Send() fails and the message is lost.
OnSendMessage(p) ==
  /\ main[p] # "dead"
  /\ HasAction(io_tasks[p])
  /\ io_tasks' = Pop(io_tasks, p)
  /\ IF client_pipe[p] = "open"
     THEN output_queue_' = Push(output_queue_, p, Head(io_tasks[p])) /\ UNCHANGED ui_tasks
     ELSE ui_tasks' = Push(ui_tasks, p, Signal) /\ UNCHANGED output_queue_
  /\ UNCHANGED <<main, hookVars, cacheVars, clientVars, client_pipe, pipeVars, daemonVars>>

\* Mutant: the pipe never fills.
RoomAlways == TRUE

Room == Len(pipe) < PipeSize

\* WriteFile() and its completion.
ProcessOutgoingMessages(p) ==
  /\ main[p] # "dead" /\ client_pipe[p] = "open" /\ daemon_pipe # "gone"
  /\ output_queue_[p] # <<>>
  /\ Room
  /\ pipe' = Append(pipe, Head(output_queue_[p]))
  /\ output_queue_' = Pop(output_queue_, p)
  /\ UNCHANGED <<main, hookVars, cacheVars, ui_tasks, io_tasks, clientVars, client_pipe,
                 peer, daemonVars>>

\* The pending read fails: the channel closes and reports it.
PipeBroken(p) ==
  /\ main[p] # "dead" /\ client_pipe[p] = "open" /\ daemon_pipe = "gone"
  /\ ~HasSignal(io_tasks[p])
  /\ client_pipe' = [client_pipe EXCEPT ![p] = "closed"]
  /\ output_queue_' = [output_queue_ EXCEPT ![p] = <<>>]
  /\ ui_tasks' = Push(ui_tasks, p, Signal)
  /\ UNCHANGED <<main, hookVars, cacheVars, io_tasks, clientVars, pipeVars, daemonVars>>

\* The process exits: its threads are killed wherever they are and its handles are
\* closed. (What was cached is left in the model for the properties.)
Exit(p) ==
  /\ main[p] # "dead"
  /\ main' = [main EXCEPT ![p] = "dead"]
  /\ client_pipe' = [client_pipe EXCEPT ![p] = "closed"]
  /\ ui_tasks' = [ui_tasks EXCEPT ![p] = <<>>]
  /\ io_tasks' = [io_tasks EXCEPT ![p] = <<>>]
  /\ output_queue_' = [output_queue_ EXCEPT ![p] = <<>>]
  /\ queued_messages_' = [queued_messages_ EXCEPT ![p] = <<>>]
  /\ caching' = [caching EXCEPT ![p] = {}]
  /\ UNCHANGED <<reported, cacheVars, channel_, pipeVars, daemonVars>>
-----------------------------------------------------------------------------
\* The profiler: the channel's IO thread and the UI thread of LogDaemon.

unchangedByDaemon == <<main, hookVars, cacheVars, ui_tasks, io_tasks, clientVars, ioVars>>

PeerOpen == peer \in Clients /\ client_pipe[peer] = "open"

\* Mutant: ERROR_PIPE_CONNECTED is taken for ERROR_IO_PENDING.
ConnectionPending == IF peer = NoClient \/ PeerOpen THEN "listening" ELSE "stuck"

\* What ConnectNamedPipe() returns: ERROR_IO_PENDING, ERROR_PIPE_CONNECTED, or
\* ERROR_NO_DATA for a client that is gone already, which the channel takes for
\* neither an error nor a connection.
Connection ==
  CASE peer = NoClient -> "listening" [] PeerOpen -> "connected" [] OTHER -> "stuck"

ProcessConnection ==
  /\ daemon_pipe' = Connection
  /\ UNCHANGED <<pipeVars, daemon_tasks, log>>
  /\ UNCHANGED unchangedByDaemon

\* OnChannelOpened(), and the completion of ConnectNamedPipe().
DaemonOpened == daemon_pipe = "created" /\ ProcessConnection
DaemonConnected == daemon_pipe = "listening" /\ peer # NoClient /\ ProcessConnection

\* OnIOCompleted(): a message is read and posted to the UI thread,
DaemonRead ==
  /\ daemon_pipe = "connected"
  /\ pipe # <<>>
  /\ pipe' = Tail(pipe)
  /\ daemon_tasks' = Append(daemon_tasks, Head(pipe))
  /\ UNCHANGED <<peer, daemon_pipe, log>>
  /\ UNCHANGED unchangedByDaemon

\* or the client is gone: the pipe is closed and the error posted.
DaemonReadFails ==
  /\ daemon_pipe = "connected"
  /\ pipe = <<>> /\ ~PeerOpen
  /\ daemon_pipe' = "closed"
  /\ peer' = NoClient /\ pipe' = <<>>
  /\ daemon_tasks' = Append(daemon_tasks, Signal)
  /\ UNCHANGED log
  /\ UNCHANGED unchangedByDaemon

\* LogDaemon::OnMessageReceived() passes the action on.
DaemonLog ==
  /\ HasAction(daemon_tasks)
  /\ log' = Append(log, Head(daemon_tasks))
  /\ daemon_tasks' = Tail(daemon_tasks)
  /\ UNCHANGED <<pipeVars, daemon_pipe>>
  /\ UNCHANGED unchangedByDaemon

\* Mutant: the daemon has no new channel after an error.
InitOnce == "closed"

\* LogDaemon::Init() creates the pipe anew.
DaemonInit == "created"

\* LogDaemon::OnChannelError()
DaemonError ==
  /\ HasSignal(daemon_tasks)
  /\ daemon_tasks' = Tail(daemon_tasks)
  /\ daemon_pipe' = DaemonInit
  /\ UNCHANGED <<pipeVars, log>>
  /\ UNCHANGED unchangedByDaemon

\* The profiler exits.
DaemonExit ==
  /\ DaemonMayExit
  /\ daemon_pipe # "gone"
  /\ daemon_pipe' = "gone"
  /\ daemon_tasks' = <<>> /\ pipe' = <<>>
  /\ UNCHANGED <<peer, log>>
  /\ UNCHANGED unchangedByDaemon
-----------------------------------------------------------------------------
\* Steps of the DLL's own threads in process p, and of the thread th that reports.
Client(p) ==
  \/ CreateChannel(p) \/ Flag(p) \/ Drain(p) \/ DoAction(p) \/ OnChannelError(p)
ClientIO(p) ==
  \/ OnChannelOpened(p) \/ OnSendMessage(p) \/ ProcessOutgoingMessages(p) \/ PipeBroken(p)

DaemonIO == DaemonOpened \/ DaemonConnected \/ DaemonRead \/ DaemonReadFails
DaemonUI == DaemonLog \/ DaemonError

Next ==
  \/ \E p \in Clients :
       \/ \E th \in Threads : Report(p, th) \/ Cache(p, th)
       \/ Client(p) \/ ClientIO(p) \/ Exit(p)
  \/ DaemonIO \/ DaemonUI \/ DaemonExit

Spec == Init /\ [][Next]_vars

\* Every thread is scheduled. An IO thread that may write goes on writing, whatever
\* else it has to do: completions are not starved by tasks.
FairSpec ==
  /\ Spec
  /\ \A p \in Clients :
       /\ \A th \in Threads : WF_vars(Cache(p, th))
       /\ WF_vars(Client(p))
       /\ WF_vars(ClientIO(p)) /\ WF_vars(ProcessOutgoingMessages(p))
  /\ WF_vars(DaemonIO) /\ WF_vars(DaemonUI)
-----------------------------------------------------------------------------
(***************************************************************************)
(* Properties.                                                             *)
(***************************************************************************)

HookTypes ==
  /\ main \in [Clients -> MainPlaces]
  /\ reported \in [Clients -> [Threads -> Nat]]
  /\ \A p \in Clients, th \in Threads : reported[p][th] <= Actions[p]
  /\ caching \in [Clients -> SUBSET Threads]
  /\ g_logclient_init \in [Clients -> BOOLEAN]
  /\ g_message_cache \in [Clients -> Seq(Messages)]

ClientTypes ==
  /\ ui_tasks \in [Clients -> Seq(Tasks)] /\ io_tasks \in [Clients -> Seq(Tasks)]
  /\ channel_ \in [Clients -> BOOLEAN]
  /\ queued_messages_ \in [Clients -> Seq(Messages)]
  /\ client_pipe \in [Clients -> {"open", "closed"}]
  /\ output_queue_ \in [Clients -> Seq(Messages)]

DaemonTypes ==
  /\ peer \in Clients \cup {NoClient}
  /\ pipe \in Seq(Messages) /\ Len(pipe) <= PipeSize
  /\ daemon_pipe \in DaemonPipes
  /\ daemon_tasks \in Seq(Tasks)
  /\ log \in Seq(Messages)

\* Every variable has its type, and the pipe never holds more than it can.
TypeOK == HookTypes /\ ClientTypes /\ DaemonTypes

Earlier(m) == {Message(m.process, m.thread, n) : n \in 1 .. m.number - 1}
Stranded(p) == ToSet(g_message_cache[p])

\* The log is what happened. No action is in it twice; before an action come all that
\* its thread reported earlier, except one that found g_logclient_init unset and came
\* to the cache after Init() had emptied it, of which there is at most one per thread;
\* and the actions of two processes do not mingle.
LogFaithful ==
  /\ IsInjective(log)
  /\ \A i \in DOMAIN log :
       /\ Earlier(log[i]) \subseteq
            {log[j] : j \in 1 .. i - 1} \cup Stranded(log[i].process)
       /\ \A j \in 1 .. i - 1 : log[j].process = log[i].process =>
            \A k \in j .. i : log[k].process = log[i].process
  /\ \A p \in Clients : main[p] = "looping" =>
       \A m1, m2 \in Stranded(p) : m1.thread = m2.thread => m1 = m2

Reported(m) == m.number <= reported[m.process][m.thread]

\* An action of a process that got the pipe when it started comes to the log, as long
\* as the process and the profiler live, unless it is stranded.
ActionsLogged ==
  \A p \in Clients, th \in Threads : \A n \in 1 .. Actions[p] :
    LET m == Message(p, th, n)
    IN  Reported(m) /\ main[p] = "looping" /\ client_pipe[p] = "open" ~>
          \/ m \in ToSet(log) \/ m \in Stranded(p)
          \/ main[p] = "dead" \/ daemon_pipe = "gone"

\* The client has closed its end of the pipe.
ClientGone == peer # NoClient /\ ~PeerOpen

\* "Called when an error is detected that causes the channel to close"
\* (ipc_listener.h), on which LogDaemon makes a new one: the pipe of a client that is
\* gone becomes free for the next.
PipeFreed == ClientGone ~> PipeFree \/ daemon_pipe = "gone"

\* It does so if the daemon has noticed the client before that was gone.
PipeFreedOnceConnected ==
  ClientGone /\ daemon_pipe = "connected" ~> PipeFree \/ daemon_pipe = "gone"
=============================================================================
