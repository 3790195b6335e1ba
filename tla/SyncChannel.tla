---------------------------- MODULE SyncChannel ----------------------------
(***************************************************************************)
(* ipc/ipc_sync_channel: two processes call each other synchronously over  *)
(* one channel.  In each, a Send() blocks the listener thread until the IO *)
(* thread has the reply, an error or a timeout; meanwhile the listener     *)
(* thread dispatches the calls that come in, whose handlers may Send() in  *)
(* turn, so that calls nest on the stacks of both sides and replies may    *)
(* arrive while a Send() further up the stack is still waiting.            *)
(*                                                                         *)
(* Steps are cut where a lock is taken, an event is signalled, reset or    *)
(* waited for, and where code of a handler runs.  The pipe delivers in     *)
(* order and breaks when one of the processes dies.  Not modelled:         *)
(* asynchronous messages, other channels of the same thread with their     *)
(* dispatch groups, pump_messages_event_ and its nested loop, filters, and *)
(* the destruction of a channel.                                           *)
(***************************************************************************)
EXTENDS Naturals, Sequences, FiniteSets, SequencesExt

CONSTANTS
  Left, Right,   \* the two processes
  Calls,         \* synchronous messages, each sent at most once
  SenderOf,      \* the process that may send it
  Timed,         \* those sent with a timeout
  MayDie,        \* processes that may die
  MayShutDown    \* processes whose shutdown_event_ may be signalled

Sides == {Left, Right}
Other(s) == IF s = Left THEN Right ELSE Left

ASSUME SideAssumption ==
  /\ Left # Right
  /\ SenderOf \in [Calls -> Sides]
  /\ Timed \subseteq Calls /\ MayDie \subseteq Sides /\ MayShutDown \subseteq Sides

VARIABLES
  \* The listener thread
  stack,             \* frames of Send() and of handlers, innermost last
  place,             \* where the innermost is
  deserializers_,    \* PendingSyncMsg of each Send(), innermost last
  \* ReceivedSyncMsgQueue
  message_queue_, task_pending_, dispatch_event_,
  received_replies_, \* a set: a reply is looked for by its id
  \* The IO thread
  queueing,          \* progress of QueueMessage() past the lock
  io_tasks,
  broken,            \* the channel has found its pipe broken
  shutdown_event_,
  shutdown_watched,  \* the watch of that event has neither run nor been stopped
  \* The world
  wire,              \* messages on their way to each side
  alive,
  \* History, read by the properties only (sent also says what is still to be sent):
  sent, answered, returned

listenerVars == <<stack, place, deserializers_>>
queueVars    == <<message_queue_, task_pending_, dispatch_event_>>
ioVars       == <<queueing, broken>>
shutdownVars == <<shutdown_event_, shutdown_watched>>
historyVars  == <<sent, answered, returned>>
vars == <<listenerVars, queueVars, received_replies_, ioVars, io_tasks, shutdownVars,
          wire, alive, historyVars>>

Frame(kind, c) == [kind |-> kind, call |-> c]
Frames == [kind : {"send", "handler"}, call : Calls]
Messages == [kind : {"call", "reply"}, call : Calls]
Replies == [kind |-> "DispatchReplies"]
Pending == [call : Calls, signalled : BOOLEAN, send_result : BOOLEAN]

Init ==
  /\ stack = [s \in Sides |-> <<>>]
  /\ place = [s \in Sides |-> "loop"]
  /\ deserializers_ = [s \in Sides |-> <<>>]
  /\ message_queue_ = [s \in Sides |-> <<>>]
  /\ task_pending_ = [s \in Sides |-> FALSE]
  /\ dispatch_event_ = [s \in Sides |-> FALSE]
  /\ received_replies_ = [s \in Sides |-> {}]
  /\ queueing = [s \in Sides |-> "no"]
  /\ io_tasks = [s \in Sides |-> <<>>]
  /\ broken = [s \in Sides |-> FALSE]
  /\ shutdown_event_ = [s \in Sides |-> FALSE]
  /\ shutdown_watched = [s \in Sides |-> TRUE]
  /\ wire = [s \in Sides |-> <<>>]
  /\ alive = [s \in Sides |-> TRUE]
  /\ sent = {}
  /\ answered = {}
  /\ returned = [c \in Calls |-> "no"]

Push(f, s, x) == [f EXCEPT ![s] = Append(@, x)]
Pop(f, s) == [f EXCEPT ![s] = Tail(@)]
At(s, p) == alive[s] /\ place[s] = p
Goto(s, p) == place' = [place EXCEPT ![s] = p]
InnerSend(s) == Last(deserializers_[s])
-----------------------------------------------------------------------------
\* The listener thread.

\* Where the code goes on under the frames f.
Under(f) == IF f = <<>> THEN "loop" ELSE "code"

\* A task or a handler calls SendWithTimeout(), which first looks at shutdown_event_.
Send(s, c) ==
  /\ At(s, "loop") \/ At(s, "code")
  /\ SenderOf[c] = s /\ c \notin sent
  /\ sent' = sent \cup {c}
  /\ \/ /\ shutdown_event_[s]
        /\ returned' = [returned EXCEPT ![c] = "failed"]
        /\ UNCHANGED <<stack, place>>
     \/ /\ ~shutdown_event_[s]
        /\ stack' = Push(stack, s, Frame("send", c))
        /\ Goto(s, "push")
        /\ UNCHANGED returned
  /\ UNCHANGED <<deserializers_, queueVars, received_replies_, ioVars, io_tasks,
                 shutdownVars, wire, alive, answered>>

\* Push() and ChannelProxy::Send(), then WaitForReply().
SendPush(s) ==
  /\ At(s, "push")
  /\ LET c == Last(stack[s]).call
     IN  /\ deserializers_' = Push(deserializers_, s,
              [call |-> c, signalled |-> FALSE, send_result |-> FALSE])
         /\ io_tasks' = Push(io_tasks, s, Frame("call", c))
  /\ Goto(s, "scan")
  /\ UNCHANGED <<stack, queueVars, received_replies_, ioVars, shutdownVars, wire, alive,
                 historyVars>>

unchangedByScan == <<task_pending_, dispatch_event_, received_replies_, ioVars, io_tasks,
                     shutdownVars, wire, alive, historyVars, deserializers_>>

\* DispatchMessages() takes the next call and runs its handler,
Dispatch(s) ==
  /\ At(s, "scan")
  /\ message_queue_[s] # <<>>
  /\ message_queue_' = Pop(message_queue_, s)
  /\ stack' = Push(stack, s, Frame("handler", Head(message_queue_[s])))
  /\ Goto(s, "code")
  /\ UNCHANGED unchangedByScan

\* until there is none.
DispatchEnd(s) ==
  /\ At(s, "scan")
  /\ message_queue_[s] = <<>>
  /\ Goto(s, IF stack[s] = <<>> THEN "loop" ELSE "wait")
  /\ UNCHANGED <<stack, message_queue_>>
  /\ UNCHANGED unchangedByScan

\* The handler sends the reply and returns to DispatchMessages().
Reply(s) ==
  /\ At(s, "code")
  /\ LET c == Last(stack[s]).call
     IN  /\ io_tasks' = Push(io_tasks, s, Frame("reply", c))
         /\ answered' = answered \cup {c}
  /\ stack' = [stack EXCEPT ![s] = Front(@)]
  /\ Goto(s, "scan")
  /\ UNCHANGED <<deserializers_, queueVars, received_replies_, ioVars, shutdownVars, wire,
                 alive, sent, returned>>

\* WaitMany() returns for the dispatch event, which it prefers,
WaitDispatch(s) ==
  /\ At(s, "wait")
  /\ dispatch_event_[s]
  /\ dispatch_event_' = [dispatch_event_ EXCEPT ![s] = FALSE]
  /\ Goto(s, "scan")
  /\ UNCHANGED <<stack, deserializers_, message_queue_, task_pending_, received_replies_,
                 ioVars, io_tasks, shutdownVars, wire, alive, historyVars>>

\* Mutants: Pop() does not look for queued replies; it takes the oldest Send().
PopSilent(s) == io_tasks
OldestPopped(d) == Tail(d)

PopPosts(s) == Push(io_tasks, s, Replies)
Popped(d) == Front(d)

\* or because the Send() is done: Pop().
WaitDone(s) ==
  /\ At(s, "wait")
  /\ ~dispatch_event_[s] /\ InnerSend(s).signalled
  /\ deserializers_' = [deserializers_ EXCEPT ![s] = Popped(@)]
  /\ io_tasks' = PopPosts(s)
  /\ stack' = [stack EXCEPT ![s] = Front(@)]
  /\ Goto(s, Under(Front(stack[s])))
  /\ returned' = [returned EXCEPT ![Last(stack[s]).call] =
                    IF InnerSend(s).send_result THEN "replied" ELSE "failed"]
  /\ UNCHANGED <<queueVars, received_replies_, ioVars, shutdownVars, wire, alive, sent,
                 answered>>

\* The loop runs DispatchMessagesTask(), or the watch of the dispatch event.
LoopDispatch(s) ==
  /\ At(s, "loop")
  /\ \/ /\ task_pending_[s] /\ queueing[s] # "signal and post"
        /\ task_pending_' = [task_pending_ EXCEPT ![s] = FALSE]
        /\ UNCHANGED dispatch_event_
     \/ /\ dispatch_event_[s]
        /\ dispatch_event_' = [dispatch_event_ EXCEPT ![s] = FALSE]
        /\ UNCHANGED task_pending_
  /\ Goto(s, "scan")
  /\ UNCHANGED <<stack, deserializers_, message_queue_, received_replies_, ioVars,
                 io_tasks, shutdownVars, wire, alive, historyVars>>
-----------------------------------------------------------------------------
\* The IO thread.

IoFree(s) == alive[s] /\ queueing[s] = "no"

unchangedByIo == <<stack, place, shutdown_event_, alive, historyVars>>

\* The pending sends d when the done events of calls are signalled.
Signalled(d, calls) ==
  [i \in DOMAIN d |-> IF d[i].call \in calls THEN [d[i] EXCEPT !.signalled = TRUE] ELSE d[i]]

CancelPendingSends(s) ==
  deserializers_' = [deserializers_ EXCEPT ![s] = Signalled(@, Calls)]

\* SyncContext::OnChannelError()
OnChannelError(s) ==
  CancelPendingSends(s) /\ shutdown_watched' = [shutdown_watched EXCEPT ![s] = FALSE]

\* OnSendMessage(); Channel::Send() fails if the other end of the pipe is closed.
OnSendMessage(s) ==
  /\ IoFree(s)
  /\ io_tasks[s] # <<>> /\ Head(io_tasks[s]) # Replies
  /\ io_tasks' = Pop(io_tasks, s)
  /\ IF broken[s] \/ ~alive[Other(s)]
     THEN OnChannelError(s) /\ UNCHANGED wire
     ELSE /\ wire' = Push(wire, Other(s), Head(io_tasks[s]))
          /\ UNCHANGED <<deserializers_, shutdown_watched>>
  /\ UNCHANGED <<queueVars, received_replies_, ioVars>>
  /\ UNCHANGED unchangedByIo

\* Mutant: any reply will do.
RepliesToAny(s, c) == deserializers_[s] # <<>>

\* Only the innermost Send() can be unblocked.
RepliesTo(s, c) == deserializers_[s] # <<>> /\ InnerSend(s).call = c

\* TryToUnblockListener() with the reply to c, which is for the innermost Send().
Unblock(s) ==
  deserializers_' = [deserializers_ EXCEPT ![s] =
    Append(Front(@), [Last(@) EXCEPT !.signalled = TRUE, !.send_result = TRUE])]

\* DispatchReplies(): the first reply that unblocks the listener.
DispatchReplies(s) ==
  /\ IoFree(s)
  /\ io_tasks[s] # <<>> /\ Head(io_tasks[s]) = Replies
  /\ io_tasks' = Pop(io_tasks, s)
  /\ \/ \E c \in received_replies_[s] :
          /\ RepliesTo(s, c)
          /\ Unblock(s)
          /\ received_replies_' = [received_replies_ EXCEPT ![s] = @ \ {c}]
     \/ /\ \A c \in received_replies_[s] : ~RepliesTo(s, c)
        /\ UNCHANGED <<deserializers_, received_replies_>>
  /\ UNCHANGED <<queueVars, ioVars, wire, shutdown_watched>>
  /\ UNCHANGED unchangedByIo

\* OnMessageReceived() of a reply, which is kept if it is not for the innermost Send();
ReceiveReply(s) ==
  /\ IoFree(s) /\ ~broken[s]
  /\ wire[s] # <<>> /\ Head(wire[s]).kind = "reply"
  /\ wire' = Pop(wire, s)
  /\ LET c == Head(wire[s]).call
     IN  \/ RepliesTo(s, c) /\ Unblock(s) /\ UNCHANGED received_replies_
         \/ /\ ~RepliesTo(s, c)
            /\ received_replies_' = [received_replies_ EXCEPT ![s] = @ \cup {c}]
            /\ UNCHANGED deserializers_
  /\ UNCHANGED <<queueVars, ioVars, io_tasks, shutdown_watched>>
  /\ UNCHANGED unchangedByIo

\* of a call: QueueMessage() under message_lock_,
ReceiveCall(s) ==
  /\ IoFree(s) /\ ~broken[s]
  /\ wire[s] # <<>> /\ Head(wire[s]).kind = "call"
  /\ wire' = Pop(wire, s)
  /\ message_queue_' = Push(message_queue_, s, Head(wire[s]).call)
  /\ queueing' = [queueing EXCEPT ![s] =
                    IF task_pending_[s] THEN "signal" ELSE "signal and post"]
  /\ task_pending_' = [task_pending_ EXCEPT ![s] = TRUE]
  /\ UNCHANGED <<deserializers_, dispatch_event_, received_replies_, broken, io_tasks,
                 shutdown_watched>>
  /\ UNCHANGED unchangedByIo

\* Mutant: only the first call signals, like the task that it posts.
FirstSignals(s) == queueing[s] = "signal and post"

EachSignals(s) == TRUE

\* and then dispatch_event_.Signal() and PostTask().
SignalDispatch(s) ==
  /\ alive[s] /\ queueing[s] # "no"
  /\ queueing' = [queueing EXCEPT ![s] = "no"]
  /\ dispatch_event_' = [dispatch_event_ EXCEPT ![s] = @ \/ EachSignals(s)]
  /\ UNCHANGED <<deserializers_, message_queue_, task_pending_, received_replies_, broken,
                 io_tasks, wire, shutdown_watched>>
  /\ UNCHANGED unchangedByIo

\* The pipe is broken and all it held was read.
ChannelError(s) ==
  /\ IoFree(s) /\ ~broken[s]
  /\ ~alive[Other(s)] /\ wire[s] = <<>>
  /\ broken' = [broken EXCEPT ![s] = TRUE]
  /\ OnChannelError(s)
  /\ UNCHANGED <<queueVars, received_replies_, queueing, io_tasks, wire>>
  /\ UNCHANGED unchangedByIo

\* OnSendTimeout()
SendTimeout(s, c) ==
  /\ IoFree(s)
  /\ c \in Timed
  /\ \E i \in DOMAIN deserializers_[s] :
       deserializers_[s][i].call = c /\ ~deserializers_[s][i].signalled
  /\ deserializers_' = [deserializers_ EXCEPT ![s] = Signalled(@, {c})]
  /\ UNCHANGED <<queueVars, received_replies_, ioVars, io_tasks, wire, shutdown_watched>>
  /\ UNCHANGED unchangedByIo

\* OnWaitableEventSignaled() of the shutdown event, once.
ShutdownWatch(s) ==
  /\ IoFree(s)
  /\ shutdown_event_[s] /\ shutdown_watched[s]
  /\ shutdown_watched' = [shutdown_watched EXCEPT ![s] = FALSE]
  /\ CancelPendingSends(s)
  /\ UNCHANGED <<queueVars, received_replies_, ioVars, io_tasks, wire>>
  /\ UNCHANGED unchangedByIo
-----------------------------------------------------------------------------
\* The processes around the channel.

ShutDown(s) ==
  /\ s \in MayShutDown /\ alive[s] /\ ~shutdown_event_[s]
  /\ shutdown_event_' = [shutdown_event_ EXCEPT ![s] = TRUE]
  /\ UNCHANGED <<listenerVars, queueVars, received_replies_, ioVars, io_tasks,
                 shutdown_watched, wire, alive, historyVars>>

\* The memory of the process is gone with it.
Die(s) ==
  /\ s \in MayDie /\ \A r \in Sides : alive[r]
  /\ alive' = [alive EXCEPT ![s] = FALSE]
  /\ stack' = [stack EXCEPT ![s] = <<>>]
  /\ place' = [place EXCEPT ![s] = "loop"]
  /\ deserializers_' = [deserializers_ EXCEPT ![s] = <<>>]
  /\ message_queue_' = [message_queue_ EXCEPT ![s] = <<>>]
  /\ task_pending_' = [task_pending_ EXCEPT ![s] = FALSE]
  /\ dispatch_event_' = [dispatch_event_ EXCEPT ![s] = FALSE]
  /\ received_replies_' = [received_replies_ EXCEPT ![s] = {}]
  /\ queueing' = [queueing EXCEPT ![s] = "no"]
  /\ io_tasks' = [io_tasks EXCEPT ![s] = <<>>]
  /\ wire' = [wire EXCEPT ![s] = <<>>]
  /\ UNCHANGED <<broken, shutdownVars, historyVars>>

\* Steps that a thread takes when it is scheduled. A handler replies in the end.
Listener(s) ==
  \/ SendPush(s) \/ Dispatch(s) \/ DispatchEnd(s) \/ Reply(s)
  \/ WaitDispatch(s) \/ WaitDone(s) \/ LoopDispatch(s)
IoTask(s) == OnSendMessage(s) \/ DispatchReplies(s)
Io(s) ==
  \/ ReceiveReply(s) \/ ReceiveCall(s) \/ SignalDispatch(s) \/ ChannelError(s)
  \/ ShutdownWatch(s)

Next == \E s \in Sides :
  \/ \E c \in Calls : Send(s, c) \/ SendTimeout(s, c)
  \/ Listener(s) \/ IoTask(s) \/ Io(s) \/ ShutDown(s) \/ Die(s)

Spec == Init /\ [][Next]_vars

\* The threads of a live process are scheduled; the IO thread serves both its tasks and
\* its pipe.
FairSpec == Spec /\ \A s \in Sides :
  WF_vars(Listener(s)) /\ WF_vars(IoTask(s)) /\ WF_vars(Io(s))
-----------------------------------------------------------------------------
(***************************************************************************)
(* Properties.                                                             *)
(***************************************************************************)

\* Handlers run under a Send() or the loop, and a Send() under a handler or the loop:
\* the place of the j-th Send(), from the outermost, among the frames f.
Position(f, j) == 2 * j - (IF f # <<>> /\ f[1].kind = "send" THEN 1 ELSE 0)

\* The pending sends d are those of the frames f but the last "above", in their order.
Matches(f, d, above) ==
  /\ \A i \in 1 .. Len(f) - 1 : f[i].kind # f[i + 1].kind
  /\ Position(f, Len(d)) = Len(f) - above
  /\ \A j \in DOMAIN d : f[Position(f, j)] = Frame("send", d[j].call)

Above(p) == CASE p = "push" -> 2 [] p = "code" -> 1 [] OTHER -> 0

SendsOfStack(s) == Matches(stack[s], deserializers_[s], Above(place[s]))

ListenerTypes ==
  /\ stack \in [Sides -> Seq(Frames)]
  /\ place \in [Sides -> {"loop", "code", "push", "scan", "wait"}]
  /\ deserializers_ \in [Sides -> Seq(Pending)]

QueueTypes ==
  /\ message_queue_ \in [Sides -> Seq(Calls)]
  /\ task_pending_ \in [Sides -> BOOLEAN] /\ dispatch_event_ \in [Sides -> BOOLEAN]
  /\ received_replies_ \in [Sides -> SUBSET Calls]

IoTypes ==
  /\ queueing \in [Sides -> {"no", "signal", "signal and post"}]
  /\ io_tasks \in [Sides -> Seq(Messages \cup {Replies})]
  /\ broken \in [Sides -> BOOLEAN]
  /\ shutdown_event_ \in [Sides -> BOOLEAN] /\ shutdown_watched \in [Sides -> BOOLEAN]

WorldTypes ==
  /\ wire \in [Sides -> Seq(Messages)] /\ alive \in [Sides -> BOOLEAN]
  /\ sent \subseteq Calls /\ answered \subseteq Calls
  /\ returned \in [Calls -> {"no", "replied", "failed"}]

Types == ListenerTypes /\ QueueTypes /\ IoTypes /\ WorldTypes

\* Every variable has its type, and the pending sends are those of the stack.
TypeOK == Types /\ \A s \in Sides : SendsOfStack(s)

\* A Send() that succeeds has the reply to its own call and not that to another call
\* of the stack, whichever came first.
OwnReply ==
  /\ \A c \in Calls : returned[c] = "replied" => c \in answered
  /\ \A s \in Sides : \A i \in DOMAIN deserializers_[s] :
       deserializers_[s][i].send_result => deserializers_[s][i].call \in answered

\* "Sync messages must be dispatched in a reentrant manner to avoid deadlock"
\* (ipc_sync_channel.h). When the listener thread sleeps in WaitMany(), no call waits
\* to be dispatched, the reply that it waits for is not lying among those received
\* unless the IO thread is about to look, and the pipe is not known to be broken unless
\* the IO thread is about to find out that the call cannot be sent.
NotBlockedInVain ==
  \A s \in Sides :
    At(s, "wait") /\ ~dispatch_event_[s] /\ ~InnerSend(s).signalled =>
      /\ message_queue_[s] # <<>> => queueing[s] # "no"
      /\ InnerSend(s).call \in received_replies_[s] => Replies \in ToSet(io_tasks[s])
      /\ broken[s] => Frame("call", InnerSend(s).call) \in ToSet(io_tasks[s])

\* Every Send() returns: however calls cross and nest, whatever order the replies come
\* in, when the other process dies and when it times out.
SendsReturn ==
  \A c \in Calls : c \in sent ~> returned[c] # "no" \/ ~alive[SenderOf[c]]
=============================================================================
