------------------------- MODULE SyncChannelProofs -------------------------
(***************************************************************************)
(* Theorems of SyncChannel: the types and the stack of sends, that replies *)
(* find their own Send(), and that no Send() sleeps over its wake-up.      *)
(***************************************************************************)
EXTENDS SyncChannel, QueueLemmas

-----------------------------------------------------------------------------
(***************************************************************************)
(* The types.                                                              *)
(***************************************************************************)

\* Signalling the done events of calls leaves the pending sends in their places.
LEMMA SignalledTypes ==
  ASSUME NEW d \in Seq(Pending), NEW calls
  PROVE  /\ Signalled(d, calls) \in Seq(Pending)
         /\ Len(Signalled(d, calls)) = Len(d)
  <1> DEFINE x(i) == IF d[i].call \in calls THEN [d[i] EXCEPT !.signalled = TRUE] ELSE d[i]
  <1>1. DOMAIN d = 1 .. Len(d) /\ Len(d) \in Nat
    BY LenProperties
  <1>2. \A i \in 1 .. Len(d) : x(i) \in Pending
    <2> SUFFICES ASSUME NEW i \in 1 .. Len(d)
                 PROVE  x(i) \in Pending
      OBVIOUS
    <2>1. d[i] \in Pending
      BY ElementOfSeq
    <2> QED
      BY <2>1 DEF Pending
  <1>3. Signalled(d, calls) = [i \in 1 .. Len(d) |-> x(i)]
    BY <1>1 DEF Signalled
  <1>4. Signalled(d, calls) \in [1 .. Len(d) -> Pending]
    BY <1>2, <1>3
  <1> QED
    BY <1>1, <1>4, SeqDef

\* Pushing to one side's sequence.
LEMMA PushTypes ==
  ASSUME NEW S, NEW f \in [Sides -> Seq(S)], NEW s \in Sides, NEW x \in S
  PROVE  /\ Push(f, s, x) \in [Sides -> Seq(S)]
         /\ Push(f, s, x)[s] = Append(f[s], x)
         /\ \A r \in Sides \ {s} : Push(f, s, x)[r] = f[r]
  BY AppendProperties DEF Push

\* Taking the first element of one side's sequence.
LEMMA PopTypes ==
  ASSUME NEW S, NEW f \in [Sides -> Seq(S)], NEW s \in Sides, f[s] # <<>>
  PROVE  /\ Pop(f, s) \in [Sides -> Seq(S)]
         /\ Pop(f, s)[s] = Tail(f[s])
         /\ \A r \in Sides \ {s} : Pop(f, s)[r] = f[r]
  BY HeadTailProperties DEF Pop

\* Only that side's sequence gets the element,
LEMMA PushAt ==
  ASSUME NEW f, DOMAIN f = Sides, NEW s \in Sides, NEW x
  PROVE  /\ Push(f, s, x)[s] = Append(f[s], x)
         /\ \A r \in Sides \ {s} : Push(f, s, x)[r] = f[r]
  BY DEF Push

\* and only it loses one.
LEMMA PopAt ==
  ASSUME NEW f, DOMAIN f = Sides, NEW s \in Sides
  PROVE  /\ Pop(f, s)[s] = Tail(f[s])
         /\ \A r \in Sides \ {s} : Pop(f, s)[r] = f[r]
  BY DEF Pop

\* The innermost frame is the one that the place of the listener thread says.
Innermost(s) ==
  /\ place[s] = "loop" => stack[s] = <<>>
  /\ place[s] = "code" => stack[s] # <<>> /\ Last(stack[s]).kind = "handler"
  /\ place[s] \in {"push", "wait"} => stack[s] # <<>> /\ Last(stack[s]).kind = "send"
  /\ place[s] = "scan" => stack[s] = <<>> \/ Last(stack[s]).kind = "send"

Framed == \A s \in Sides : Innermost(s) /\ SendsOfStack(s)

\* The j-th Send() is the frame 2j or the one before.
LEMMA Positions ==
  ASSUME NEW f, NEW j \in Nat
  PROVE  \/ Position(f, j) = 2 * j - 1 /\ f # <<>> /\ f[1].kind = "send"
         \/ Position(f, j) = 2 * j /\ ~(f # <<>> /\ f[1].kind = "send")
  <1>1. CASE f # <<>> /\ f[1].kind = "send"
    BY <1>1 DEF Position
  <1>2. CASE ~(f # <<>> /\ f[1].kind = "send")
    BY <1>2 DEF Position
  <1> QED
    BY <1>1, <1>2

\* Under a sleeping listener thread there is the innermost pending send.
LEMMA WaitingSend ==
  ASSUME Types, Framed, NEW s \in Sides, place[s] = "wait"
  PROVE  /\ stack[s] \in Seq(Frames) /\ deserializers_[s] \in Seq(Pending)
         /\ stack[s] # <<>> /\ deserializers_[s] # <<>>
         /\ Last(stack[s]) = Frame("send", InnerSend(s).call)
         /\ InnerSend(s) \in Pending
  <1>1. /\ stack[s] \in Seq(Frames) /\ deserializers_[s] \in Seq(Pending)
        /\ stack[s] # <<>>
    BY DEF Types, ListenerTypes, Framed, Innermost
  <1>2. Len(stack[s]) \in Nat \ {0} /\ Len(deserializers_[s]) \in Nat
    BY <1>1, EmptySeq, LenProperties
  <1>3. Position(stack[s], Len(deserializers_[s])) = Len(stack[s])
    <2>1. Above(place[s]) = 0
      BY DEF Above
    <2> QED
      BY <1>2, <2>1 DEF Framed, SendsOfStack, Matches
  <1>4. deserializers_[s] # <<>>
    <2>1. Len(deserializers_[s]) # 0
      BY <1>2, <1>3, Positions
    <2> QED
      BY <2>1, EmptySeq
  <1>5. Len(deserializers_[s]) \in DOMAIN deserializers_[s]
    BY <1>1, <1>2, <1>4, EmptySeq, LenProperties
  <1>6. Last(stack[s]) = Frame("send", InnerSend(s).call)
    BY <1>3, <1>5 DEF Framed, SendsOfStack, Matches, Last, InnerSend
  <1> QED
    BY <1>1, <1>4, <1>6, FrontLast DEF InnerSend

\* A reply is stored in the innermost pending send.
LEMMA UnblockTypes ==
  ASSUME deserializers_ \in [Sides -> Seq(Pending)], NEW s \in Sides,
         deserializers_[s] # <<>>, Unblock(s)
  PROVE  deserializers_' \in [Sides -> Seq(Pending)]
  <1> DEFINE p == [Last(deserializers_[s]) EXCEPT !.signalled = TRUE, !.send_result = TRUE]
  <1>1. Front(deserializers_[s]) \in Seq(Pending) /\ Last(deserializers_[s]) \in Pending
    BY FrontLast
  <1>2. p \in Pending
    BY <1>1 DEF Pending
  <1>3. Append(Front(deserializers_[s]), p) \in Seq(Pending)
    BY <1>1, <1>2, AppendProperties
  <1> QED
    BY <1>3 DEF Unblock

\* Initially every variable has its type, and no frame is open.
LEMMA TypesInit == Init => Types /\ Framed
  <1> SUFFICES ASSUME Init
               PROVE  Types /\ Framed
    OBVIOUS
  <1>1. \A S : <<>> \in Seq(S)
    BY EmptySeq
  <1>2. ListenerTypes /\ QueueTypes
    BY <1>1 DEF Init, ListenerTypes, QueueTypes
  <1>3. IoTypes /\ WorldTypes
    BY <1>1 DEF Init, IoTypes, WorldTypes
  <1>4. Framed
    BY DEF Init, Framed, Innermost, SendsOfStack, Matches, Position, Above
  <1> QED
    BY <1>2, <1>3, <1>4 DEF Types

\* Every step keeps the types, if the listener thread is where its frames say.
LEMMA TypesStep == Types /\ Framed /\ [Next]_vars => Types'
  <1> SUFFICES ASSUME Types, Framed, [Next]_vars
               PROVE  Types'
    OBVIOUS
  <1> USE DEF Types, queueVars, ioVars, shutdownVars, historyVars, listenerVars, Goto
  <1>1. ASSUME NEW s \in Sides, NEW c \in Calls, Send(s, c)
        PROVE  Types'
    <2>1. Push(stack, s, Frame("send", c)) \in [Sides -> Seq(Frames)]
      BY PushTypes DEF Frame, Frames, ListenerTypes
    <2>2. ListenerTypes'
      BY <1>1, <2>1 DEF Send, ListenerTypes
    <2>3. QueueTypes' /\ IoTypes'
      BY <1>1 DEF Send, QueueTypes, IoTypes
    <2>4. WorldTypes'
      BY <1>1 DEF Send, WorldTypes
    <2> QED
      BY <2>2, <2>3, <2>4
  <1>2. ASSUME NEW s \in Sides, SendPush(s)
        PROVE  Types'
    <2> DEFINE c == Last(stack[s]).call
               p == [call |-> c, signalled |-> FALSE, send_result |-> FALSE]
    <2>1. c \in Calls
      <3>1. stack[s] \in Seq(Frames) /\ stack[s] # <<>>
        BY <1>2 DEF SendPush, ListenerTypes, At, Framed, Innermost
      <3>2. Last(stack[s]) \in Frames
        BY <3>1, FrontLast
      <3> QED
        BY <3>2 DEF Frames
    <2>2. Push(deserializers_, s, p) \in [Sides -> Seq(Pending)]
      BY <2>1, PushTypes DEF Pending, ListenerTypes
    <2>3. Push(io_tasks, s, Frame("call", c)) \in [Sides -> Seq(Messages \cup {Replies})]
      BY <2>1, PushTypes DEF Frame, Messages, IoTypes
    <2>4. ListenerTypes'
      BY <1>2, <2>2 DEF SendPush, ListenerTypes
    <2>5. QueueTypes' /\ IoTypes'
      BY <1>2, <2>3 DEF SendPush, QueueTypes, IoTypes
    <2>6. WorldTypes'
      BY <1>2 DEF SendPush, WorldTypes
    <2> QED
      BY <2>4, <2>5, <2>6
  <1>3. ASSUME NEW s \in Sides, Dispatch(s)
        PROVE  Types'
    <2> USE <1>3 DEF Dispatch, unchangedByScan
    <2>1. Pop(message_queue_, s) \in [Sides -> Seq(Calls)] /\ Head(message_queue_[s]) \in Calls
      BY PopTypes, HeadTailProperties DEF QueueTypes
    <2>2. Push(stack, s, Frame("handler", Head(message_queue_[s]))) \in [Sides -> Seq(Frames)]
      BY <2>1, PushTypes DEF Frame, Frames, ListenerTypes
    <2>3. ListenerTypes'
      BY <2>2 DEF ListenerTypes
    <2>4. QueueTypes' /\ IoTypes'
      BY <2>1 DEF QueueTypes, IoTypes
    <2>5. WorldTypes'
      BY DEF WorldTypes
    <2> QED
      BY <2>3, <2>4, <2>5
  <1>4. ASSUME NEW s \in Sides, DispatchEnd(s)
        PROVE  Types'
    <2> USE <1>4 DEF DispatchEnd, unchangedByScan
    <2>1. ListenerTypes'
      BY DEF ListenerTypes
    <2>2. QueueTypes' /\ IoTypes'
      BY DEF QueueTypes, IoTypes
    <2>3. WorldTypes'
      BY DEF WorldTypes
    <2> QED
      BY <2>1, <2>2, <2>3
  <1>5. ASSUME NEW s \in Sides, Reply(s)
        PROVE  Types'
    <2> USE <1>5 DEF Reply
    <2> DEFINE c == Last(stack[s]).call
    <2>1. c \in Calls /\ Front(stack[s]) \in Seq(Frames)
      <3>1. stack[s] \in Seq(Frames) /\ stack[s] # <<>>
        BY DEF ListenerTypes, At, Framed, Innermost
      <3>2. Last(stack[s]) \in Frames /\ Front(stack[s]) \in Seq(Frames)
        BY <3>1, FrontLast
      <3> QED
        BY <3>2 DEF Frames
    <2>2. Push(io_tasks, s, Frame("reply", c)) \in [Sides -> Seq(Messages \cup {Replies})]
      BY <2>1, PushTypes DEF Frame, Messages, IoTypes
    <2>3. ListenerTypes'
      BY <2>1 DEF ListenerTypes
    <2>4. QueueTypes' /\ IoTypes'
      BY <2>2 DEF QueueTypes, IoTypes
    <2>5. WorldTypes'
      BY <2>1 DEF WorldTypes
    <2> QED
      BY <2>3, <2>4, <2>5
  <1>6. ASSUME NEW s \in Sides, WaitDispatch(s)
        PROVE  Types'
    <2> USE <1>6 DEF WaitDispatch
    <2>1. ListenerTypes'
      BY DEF ListenerTypes
    <2>2. QueueTypes' /\ IoTypes'
      BY DEF QueueTypes, IoTypes
    <2>3. WorldTypes'
      BY DEF WorldTypes
    <2> QED
      BY <2>1, <2>2, <2>3
  <1>7. ASSUME NEW s \in Sides, WaitDone(s)
        PROVE  Types'
    <2> USE <1>7 DEF WaitDone, Popped, PopPosts, Under
    <2>1. /\ Last(stack[s]).call \in Calls
          /\ Front(stack[s]) \in Seq(Frames) /\ Front(deserializers_[s]) \in Seq(Pending)
      <3>1. /\ stack[s] \in Seq(Frames) /\ deserializers_[s] \in Seq(Pending)
            /\ stack[s] # <<>> /\ deserializers_[s] # <<>>
        BY WaitingSend DEF At
      <3>2. Last(stack[s]) \in Frames
        BY <3>1, FrontLast
      <3> QED
        BY <3>1, <3>2, FrontLast DEF Frames
    <2>2. Push(io_tasks, s, Replies) \in [Sides -> Seq(Messages \cup {Replies})]
      BY PushTypes DEF IoTypes
    <2>3. ListenerTypes'
      BY <2>1 DEF ListenerTypes
    <2>4. QueueTypes' /\ IoTypes'
      BY <2>2 DEF QueueTypes, IoTypes
    <2>5. WorldTypes'
      BY <2>1 DEF WorldTypes
    <2> QED
      BY <2>3, <2>4, <2>5
  <1>8. ASSUME NEW s \in Sides, LoopDispatch(s)
        PROVE  Types'
    <2> USE <1>8 DEF LoopDispatch
    <2>1. ListenerTypes'
      BY DEF ListenerTypes
    <2>2. QueueTypes' /\ IoTypes'
      BY DEF QueueTypes, IoTypes
    <2>3. WorldTypes'
      BY DEF WorldTypes
    <2> QED
      BY <2>1, <2>2, <2>3
  <1>9. ASSUME NEW s \in Sides, OnSendMessage(s)
        PROVE  Types'
    <2> USE <1>9 DEF OnSendMessage, OnChannelError, CancelPendingSends, unchangedByIo
    <2>1. Signalled(deserializers_[s], Calls) \in Seq(Pending)
      BY SignalledTypes DEF ListenerTypes
    <2>2. /\ Pop(io_tasks, s) \in [Sides -> Seq(Messages \cup {Replies})]
          /\ Head(io_tasks[s]) \in Messages \cup {Replies}
      BY PopTypes, HeadTailProperties DEF IoTypes
    <2>3. Push(wire, Other(s), Head(io_tasks[s])) \in [Sides -> Seq(Messages)]
      BY <2>2, PushTypes DEF WorldTypes, Other, Sides
    <2>7. ListenerTypes'
      BY <2>1 DEF ListenerTypes
    <2>8. QueueTypes' /\ IoTypes'
      BY <2>2 DEF QueueTypes, IoTypes
    <2>9. WorldTypes'
      BY <2>3 DEF WorldTypes
    <2> QED
      BY <2>7, <2>8, <2>9
  <1>10. ASSUME NEW s \in Sides, DispatchReplies(s)
        PROVE  Types'
    <2> USE <1>10 DEF DispatchReplies, unchangedByIo
    <2>1. Pop(io_tasks, s) \in [Sides -> Seq(Messages \cup {Replies})]
      BY PopTypes DEF IoTypes
    <2>2. deserializers_' \in [Sides -> Seq(Pending)]
      BY UnblockTypes DEF ListenerTypes, RepliesTo
    <2>3. received_replies_' \in [Sides -> SUBSET Calls]
      BY DEF QueueTypes
    <2>7. ListenerTypes'
      BY <2>2 DEF ListenerTypes
    <2>8. QueueTypes' /\ IoTypes'
      BY <2>1, <2>3 DEF QueueTypes, IoTypes
    <2>9. WorldTypes'
      BY DEF WorldTypes
    <2> QED
      BY <2>7, <2>8, <2>9
  <1>11. ASSUME NEW s \in Sides, ReceiveReply(s)
        PROVE  Types'
    <2> USE <1>11 DEF ReceiveReply, unchangedByIo
    <2>1. Pop(wire, s) \in [Sides -> Seq(Messages)] /\ Head(wire[s]) \in Messages
      BY PopTypes, HeadTailProperties DEF WorldTypes
    <2>2. deserializers_' \in [Sides -> Seq(Pending)]
      BY UnblockTypes DEF ListenerTypes, RepliesTo
    <2>3. received_replies_' \in [Sides -> SUBSET Calls]
      <3>1. Head(wire[s]).call \in Calls /\ received_replies_ \in [Sides -> SUBSET Calls]
        BY <2>1 DEF Messages, QueueTypes
      <3>2. \/ received_replies_' = received_replies_
            \/ received_replies_' =
                 [received_replies_ EXCEPT ![s] = @ \cup {Head(wire[s]).call}]
        OBVIOUS
      <3>3. CASE received_replies_' = received_replies_
        BY ONLY <3>1, <3>3
      <3>4. CASE received_replies_' =
                   [received_replies_ EXCEPT ![s] = @ \cup {Head(wire[s]).call}]
        BY ONLY <3>1, <3>4, s \in Sides
      <3> QED
        BY ONLY <3>2, <3>3, <3>4
    <2>7. ListenerTypes'
      BY <2>2 DEF ListenerTypes
    <2>8. QueueTypes' /\ IoTypes'
      BY <2>3 DEF QueueTypes, IoTypes
    <2>9. WorldTypes'
      BY <2>1 DEF WorldTypes
    <2> QED
      BY <2>7, <2>8, <2>9
  <1>12. ASSUME NEW s \in Sides, ReceiveCall(s)
        PROVE  Types'
    <2> USE <1>12 DEF ReceiveCall, unchangedByIo
    <2>1. Pop(wire, s) \in [Sides -> Seq(Messages)] /\ Head(wire[s]) \in Messages
      BY PopTypes, HeadTailProperties DEF WorldTypes
    <2>2. Push(message_queue_, s, Head(wire[s]).call) \in [Sides -> Seq(Calls)]
      BY <2>1, PushTypes DEF QueueTypes, Messages
    <2>7. ListenerTypes'
      BY DEF ListenerTypes
    <2>8. QueueTypes' /\ IoTypes'
      BY <2>2 DEF QueueTypes, IoTypes
    <2>9. WorldTypes'
      BY <2>1 DEF WorldTypes
    <2> QED
      BY <2>7, <2>8, <2>9
  <1>13. ASSUME NEW s \in Sides, SignalDispatch(s)
        PROVE  Types'
    <2> USE <1>13 DEF SignalDispatch, EachSignals, unchangedByIo
    <2>7. ListenerTypes'
      BY DEF ListenerTypes
    <2>8. QueueTypes' /\ IoTypes'
      BY DEF QueueTypes, IoTypes
    <2>9. WorldTypes'
      BY DEF WorldTypes
    <2> QED
      BY <2>7, <2>8, <2>9
  <1>14. ASSUME NEW s \in Sides, ChannelError(s)
        PROVE  Types'
    <2> USE <1>14 DEF ChannelError, OnChannelError, CancelPendingSends, unchangedByIo
    <2>1. Signalled(deserializers_[s], Calls) \in Seq(Pending)
      BY SignalledTypes DEF ListenerTypes
    <2>7. ListenerTypes'
      BY <2>1 DEF ListenerTypes
    <2>8. QueueTypes' /\ IoTypes'
      BY DEF QueueTypes, IoTypes
    <2>9. WorldTypes'
      BY DEF WorldTypes
    <2> QED
      BY <2>7, <2>8, <2>9
  <1>15. ASSUME NEW s \in Sides, NEW c \in Calls, SendTimeout(s, c)
        PROVE  Types'
    <2> USE <1>15 DEF SendTimeout, unchangedByIo
    <2>1. Signalled(deserializers_[s], {c}) \in Seq(Pending)
      BY SignalledTypes DEF ListenerTypes
    <2>7. ListenerTypes'
      BY <2>1 DEF ListenerTypes
    <2>8. QueueTypes' /\ IoTypes'
      BY DEF QueueTypes, IoTypes
    <2>9. WorldTypes'
      BY DEF WorldTypes
    <2> QED
      BY <2>7, <2>8, <2>9
  <1>16. ASSUME NEW s \in Sides, ShutdownWatch(s)
        PROVE  Types'
    <2> USE <1>16 DEF ShutdownWatch, CancelPendingSends, unchangedByIo
    <2>1. Signalled(deserializers_[s], Calls) \in Seq(Pending)
      BY SignalledTypes DEF ListenerTypes
    <2>7. ListenerTypes'
      BY <2>1 DEF ListenerTypes
    <2>8. QueueTypes' /\ IoTypes'
      BY DEF QueueTypes, IoTypes
    <2>9. WorldTypes'
      BY DEF WorldTypes
    <2> QED
      BY <2>7, <2>8, <2>9
  <1>17. ASSUME NEW s \in Sides, ShutDown(s)
        PROVE  Types'
    <2> USE <1>17 DEF ShutDown
    <2>7. ListenerTypes'
      BY DEF ListenerTypes
    <2>8. QueueTypes' /\ IoTypes'
      BY DEF QueueTypes, IoTypes
    <2>9. WorldTypes'
      BY DEF WorldTypes
    <2> QED
      BY <2>7, <2>8, <2>9
  <1>18. ASSUME NEW s \in Sides, Die(s)
        PROVE  Types'
    <2> USE <1>18 DEF Die
    <2>1. \A S : <<>> \in Seq(S)
      BY EmptySeq
    <2>7. ListenerTypes'
      BY <2>1 DEF ListenerTypes
    <2>8. QueueTypes' /\ IoTypes'
      BY <2>1 DEF QueueTypes, IoTypes
    <2>9. WorldTypes'
      BY <2>1 DEF WorldTypes
    <2> QED
      BY <2>7, <2>8, <2>9
  <1>19. CASE UNCHANGED vars
    <2> USE <1>19 DEF vars
    <2>7. ListenerTypes'
      BY DEF ListenerTypes
    <2>8. QueueTypes' /\ IoTypes'
      BY DEF QueueTypes, IoTypes
    <2>9. WorldTypes'
      BY DEF WorldTypes
    <2> QED
      BY <2>7, <2>8, <2>9
  <1> QED
    BY <1>1, <1>2, <1>3, <1>4, <1>5, <1>6, <1>7, <1>8, <1>9, <1>10, <1>11, <1>12, <1>13,
       <1>14, <1>15, <1>16, <1>17, <1>18, <1>19 DEF Next, Listener, IoTask, Io

-----------------------------------------------------------------------------
(***************************************************************************)
(* The pending sends are those of the stack.                               *)
(***************************************************************************)

\* The sends of frames that match are among them, two frames apart.
LEMMA MatchedPositions ==
  ASSUME NEW f \in Seq(Frames), NEW d \in Seq(Pending), NEW a \in Nat, Matches(f, d, a)
  PROVE  \A j \in 1 .. Len(d) : Position(f, j) \in 1 .. Len(f) - a
  <1>1. Len(f) \in Nat /\ Len(d) \in Nat
    BY LenProperties
  <1> SUFFICES ASSUME NEW j \in 1 .. Len(d)
               PROVE  Position(f, j) \in 1 .. Len(f) - a
    OBVIOUS
  <1>2. Position(f, Len(d)) = Len(f) - a
    BY DEF Matches
  <1>3. j \in Nat \ {0}
    BY <1>1
  <1>4. \/ Position(f, j) = 2 * j - 1 /\ Position(f, Len(d)) = 2 * Len(d) - 1
        \/ Position(f, j) = 2 * j /\ Position(f, Len(d)) = 2 * Len(d)
    BY <1>1, <1>3, Positions
  <1> QED
    BY <1>1, <1>2, <1>3, <1>4

\* A frame is pushed on one of the other kind.
LEMMA PushMatches ==
  ASSUME NEW f \in Seq(Frames), NEW d \in Seq(Pending), NEW x \in Frames, NEW a \in Nat,
         Matches(f, d, a), f # <<>>, Last(f).kind # x.kind
  PROVE  Matches(Append(f, x), d, a + 1)
  <1> DEFINE g == Append(f, x)
  <1>1. /\ Len(f) \in Nat \ {0} /\ Len(d) \in Nat /\ DOMAIN d = 1 .. Len(d)
        /\ Len(g) = Len(f) + 1 /\ g # <<>>
        /\ \A i \in 1 .. Len(f) : g[i] = f[i]
        /\ g[Len(f) + 1] = x
    BY EmptySeq, LenProperties, AppendProperties
  <1> HIDE DEF g
  <1>2. g[1] = f[1]
    BY <1>1
  <1>3. \A j \in Nat : Position(g, j) = Position(f, j)
    BY <1>1, <1>2 DEF Position
  <1>4. ASSUME NEW i \in 1 .. Len(g) - 1
        PROVE  g[i].kind # g[i + 1].kind
    <2>1. CASE i = Len(f)
      BY <1>1, <2>1 DEF Last
    <2>2. CASE i # Len(f)
      <3>1. i \in 1 .. Len(f) - 1 /\ i \in 1 .. Len(f) /\ i + 1 \in 1 .. Len(f)
        BY <1>1, <2>2
      <3> QED
        BY <1>1, <3>1 DEF Matches
    <2> QED
      BY <2>1, <2>2
  <1>5. Position(g, Len(d)) = Len(g) - (a + 1)
    BY <1>1, <1>3 DEF Matches
  <1>6. ASSUME NEW j \in DOMAIN d
        PROVE  g[Position(g, j)] = Frame("send", d[j].call)
    <2>1. Position(f, j) \in 1 .. Len(f) - a
      BY <1>1, MatchedPositions
    <2>2. Position(g, j) = Position(f, j) /\ Position(f, j) \in 1 .. Len(f)
      BY <1>1, <1>3, <2>1
    <2> QED
      BY <1>1, <2>2 DEF Matches
  <1> QED
    BY <1>4, <1>5, <1>6 DEF Matches, g

\* On an empty stack there is nothing pending.
LEMMA FirstMatches ==
  ASSUME NEW d \in Seq(Pending), NEW x \in Frames, Matches(<<>>, d, 0)
  PROVE  Matches(Append(<<>>, x), d, IF x.kind = "send" THEN 2 ELSE 1)
  <1> DEFINE g == Append(<<>>, x)
  <1>1. Len(d) \in Nat /\ Len(<<>>) = 0 /\ DOMAIN d = 1 .. Len(d)
    BY EmptySeq, LenProperties
  <1>2. Position(<<>>, Len(d)) = 2 * Len(d)
    BY <1>1, Positions
  <1>3. Len(d) = 0
    BY <1>1, <1>2 DEF Matches
  <1>4. Len(g) = 1 /\ g[1] = x /\ g # <<>>
    BY <1>1, EmptySeq, AppendProperties
  <1> HIDE DEF g
  <1>5. Position(g, 0) = 1 - (IF x.kind = "send" THEN 2 ELSE 1)
    <2>1. CASE x.kind = "send"
      BY <1>4, <2>1, Positions
    <2>2. CASE x.kind # "send"
      BY <1>4, <2>2, Positions
    <2> QED
      BY <2>1, <2>2
  <1> QED
    BY <1>1, <1>3, <1>4, <1>5 DEF Matches, g

\* The Send() on top becomes pending.
LEMMA PendingMatches ==
  ASSUME NEW f \in Seq(Frames), NEW d \in Seq(Pending), NEW p \in Pending,
         Matches(f, d, 2), Last(f) = Frame("send", p.call)
  PROVE  Matches(f, Append(d, p), 0)
  <1> DEFINE e == Append(d, p)
  <1>1. /\ Len(f) \in Nat /\ Len(d) \in Nat /\ DOMAIN d = 1 .. Len(d)
        /\ Len(e) = Len(d) + 1 /\ DOMAIN e = 1 .. Len(d) + 1
        /\ \A j \in 1 .. Len(d) : e[j] = d[j]
        /\ e[Len(d) + 1] = p
    BY LenProperties, AppendProperties
  <1> HIDE DEF e
  <1>2. Position(f, Len(d) + 1) = Position(f, Len(d)) + 2
    BY <1>1, Positions
  <1>3. Position(f, Len(e)) = Len(f)
    BY <1>1, <1>2 DEF Matches
  <1>4. ASSUME NEW j \in DOMAIN e
        PROVE  f[Position(f, j)] = Frame("send", e[j].call)
    <2>1. CASE j = Len(e)
      BY <1>1, <1>3, <2>1 DEF Last
    <2>2. CASE j # Len(e)
      BY <1>1, <2>2 DEF Matches
    <2> QED
      BY <2>1, <2>2
  <1> QED
    BY <1>1, <1>3, <1>4 DEF Matches, e

\* The frames below the top are one less.
LEMMA PoppedFrames ==
  ASSUME NEW f \in Seq(Frames), f # <<>>, \A i \in 1 .. Len(f) - 1 : f[i].kind # f[i + 1].kind
  PROVE  /\ Front(f) \in Seq(Frames) /\ Len(f) \in Nat \ {0} /\ Len(Front(f)) = Len(f) - 1
         /\ \A i \in 1 .. Len(f) - 1 : Front(f)[i] = f[i]
         /\ \A i \in 1 .. Len(Front(f)) - 1 : Front(f)[i].kind # Front(f)[i + 1].kind
         /\ Front(f) = <<>> <=> Len(f) = 1
         /\ Front(f) # <<>> =>
              /\ Front(f)[1] = f[1] /\ Last(Front(f)).kind # Last(f).kind
              /\ \A j \in Nat : Position(Front(f), j) = Position(f, j)
  <1> DEFINE g == Front(f)
  <1>1. /\ g \in Seq(Frames) /\ Len(f) \in Nat \ {0} /\ Len(g) = Len(f) - 1
        /\ \A i \in 1 .. Len(f) - 1 : g[i] = f[i]
    BY FrontLast
  <1>2. g = <<>> <=> Len(f) = 1
    BY <1>1, EmptySeq
  <1> HIDE DEF g
  <1>3. \A i \in 1 .. Len(g) - 1 : g[i].kind # g[i + 1].kind
    <2> SUFFICES ASSUME NEW i \in 1 .. Len(g) - 1
                 PROVE  g[i].kind # g[i + 1].kind
      OBVIOUS
    <2>1. i \in 1 .. Len(f) - 1 /\ i + 1 \in 1 .. Len(f) - 1
      BY <1>1
    <2> QED
      BY <1>1, <2>1
  <1>4. ASSUME g # <<>>
        PROVE  /\ g[1] = f[1] /\ Last(g).kind # Last(f).kind
               /\ \A j \in Nat : Position(g, j) = Position(f, j)
    <2>1. Len(f) - 1 \in 1 .. Len(f) - 1 /\ g[1] = f[1]
      BY <1>1, <1>2, <1>4
    <2>2. Last(g) = f[Len(f) - 1] /\ Last(f) = f[Len(f) - 1 + 1]
      BY <1>1, <2>1 DEF Last
    <2>3. f # <<>>
      OBVIOUS
    <2>4. \A j \in Nat : Position(g, j) = Position(f, j)
      BY <1>4, <2>1, <2>3 DEF Position
    <2> QED
      BY <2>1, <2>2, <2>4
  <1> QED
    BY <1>1, <1>2, <1>3, <1>4 DEF g

\* A handler that returns leaves the pending sends.
LEMMA HandlerMatches ==
  ASSUME NEW f \in Seq(Frames), NEW d \in Seq(Pending), f # <<>>,
         Matches(f, d, 1), Last(f).kind = "handler"
  PROVE  Matches(Front(f), d, 0)
  <1> DEFINE g == Front(f)
  <1>1. Len(d) \in Nat /\ DOMAIN d = 1 .. Len(d)
    BY LenProperties
  <1>2. /\ g \in Seq(Frames) /\ Len(f) \in Nat \ {0} /\ Len(g) = Len(f) - 1
        /\ \A i \in 1 .. Len(f) - 1 : g[i] = f[i]
        /\ \A i \in 1 .. Len(g) - 1 : g[i].kind # g[i + 1].kind
        /\ g = <<>> <=> Len(f) = 1
        /\ g # <<>> => \A j \in Nat : Position(g, j) = Position(f, j)
    BY PoppedFrames DEF Matches
  <1> HIDE DEF g
  <1>3. Position(f, Len(d)) = Len(f) - 1
    BY DEF Matches
  <1>4. Position(g, Len(d)) = Len(g)
    <2>1. CASE g = <<>>
      <3>1. Len(d) = 0
        BY <1>1, <1>2, <1>3, <2>1, Positions DEF Last
      <3>2. Position(g, 0) = 0 /\ Len(g) = 0
        BY <1>2, <2>1, Positions
      <3> QED
        BY <3>1, <3>2
    <2>2. CASE g # <<>>
      BY <1>1, <1>2, <1>3, <2>2
    <2> QED
      BY <2>1, <2>2
  <1>5. ASSUME NEW j \in DOMAIN d
        PROVE  g[Position(g, j)] = Frame("send", d[j].call)
    <2>1. Position(f, j) \in 1 .. Len(f) - 1
      BY <1>1, MatchedPositions
    <2>2. g # <<>>
      BY <1>2, <2>1
    <2>3. Position(g, j) = Position(f, j)
      BY <1>1, <1>2, <2>2
    <2> QED
      BY <1>2, <2>1, <2>3 DEF Matches
  <1> QED
    BY <1>2, <1>4, <1>5 DEF Matches, g

\* A Send() that returns takes its own pending send along.
LEMMA SendMatches ==
  ASSUME NEW f \in Seq(Frames), NEW d \in Seq(Pending), f # <<>>, d # <<>>,
         Matches(f, d, 0), Last(f).kind = "send"
  PROVE  Matches(Front(f), Front(d), IF Front(f) = <<>> THEN 0 ELSE 1)
  <1> DEFINE g == Front(f)
             e == Front(d)
  <1>1. /\ Len(d) \in Nat \ {0} /\ DOMAIN d = 1 .. Len(d)
        /\ Len(e) = Len(d) - 1 /\ DOMAIN e = 1 .. Len(d) - 1
        /\ \A j \in 1 .. Len(d) - 1 : e[j] = d[j]
    BY FrontLast, LenProperties
  <1>2. /\ g \in Seq(Frames) /\ Len(f) \in Nat \ {0} /\ Len(g) = Len(f) - 1
        /\ \A i \in 1 .. Len(f) - 1 : g[i] = f[i]
        /\ \A i \in 1 .. Len(g) - 1 : g[i].kind # g[i + 1].kind
        /\ g = <<>> <=> Len(f) = 1
        /\ g # <<>> => \A j \in Nat : Position(g, j) = Position(f, j)
    BY PoppedFrames DEF Matches
  <1> HIDE DEF g, e
  <1>3. Position(f, Len(d)) = Len(f)
    BY <1>2 DEF Matches
  <1>4. Position(f, Len(e)) = Len(f) - 2
    <2>1. \/ Position(f, Len(e)) = 2 * Len(e) - 1 /\ Position(f, Len(d)) = 2 * Len(d) - 1
          \/ Position(f, Len(e)) = 2 * Len(e) /\ Position(f, Len(d)) = 2 * Len(d)
      BY <1>1, Positions
    <2>2. Len(e) = Len(d) - 1 /\ Len(d) \in Nat /\ Position(f, Len(d)) = Len(f) /\ Len(f) \in Nat
      BY <1>1, <1>2, <1>3
    <2> QED
      BY <2>1, <2>2
  <1>5. Position(g, Len(e)) = Len(g) - (IF g = <<>> THEN 0 ELSE 1)
    <2>1. CASE g = <<>>
      <3>1. Len(e) = 0
        BY <1>1, <1>2, <1>3, <2>1, Positions
      <3>2. Position(g, Len(e)) = 0 /\ Len(g) = 0
        BY <1>2, <2>1, <3>1, Positions
      <3> QED
        BY <2>1, <3>2
    <2>2. CASE g # <<>>
      <3>1. Position(g, Len(e)) = Len(g) - 1
        BY <1>1, <1>2, <1>4, <2>2
      <3> QED
        BY <2>2, <3>1
    <2> QED
      BY <2>1, <2>2
  <1>6. ASSUME NEW j \in DOMAIN e
        PROVE  g[Position(g, j)] = Frame("send", e[j].call)
    <2>1. j \in 1 .. Len(d) /\ j \in 1 .. Len(e) /\ e[j] = d[j]
      BY <1>1
    <2>2. Position(f, j) \in 1 .. Len(f)
      BY <1>2, <2>1, MatchedPositions
    <2>3. Position(f, j) <= Len(f) - 2
      BY <1>1, <1>4, <2>1, Positions
    <2>4. g # <<>> /\ Position(f, j) \in 1 .. Len(f) - 1
      BY <1>2, <2>2, <2>3
    <2>5. Position(g, j) = Position(f, j)
      BY <1>2, <2>1, <2>4
    <2> QED
      BY <1>1, <1>2, <2>1, <2>4, <2>5, ZenonT(30) DEF Matches
  <1> QED
    BY <1>2, <1>5, <1>6 DEF Matches, g, e

\* What is signalled or answered stays where it is.
LEMMA SameMatches ==
  ASSUME NEW f \in Seq(Frames), NEW d \in Seq(Pending), NEW e \in Seq(Pending), NEW a \in Nat,
         Matches(f, d, a), Len(e) = Len(d),
         \A j \in 1 .. Len(d) : e[j].call = d[j].call
  PROVE  Matches(f, e, a)
  <1>1. DOMAIN d = 1 .. Len(d) /\ DOMAIN e = 1 .. Len(d)
    BY LenProperties
  <1> QED
    BY <1>1 DEF Matches

\* Signalling changes no call of the pending sends.
LEMMA SignalledCalls ==
  ASSUME NEW d \in Seq(Pending), NEW calls
  PROVE  \A j \in 1 .. Len(d) : Signalled(d, calls)[j].call = d[j].call
  <1> SUFFICES ASSUME NEW j \in 1 .. Len(d)
               PROVE  Signalled(d, calls)[j].call = d[j].call
    OBVIOUS
  <1>1. DOMAIN d = 1 .. Len(d) /\ d[j] \in Pending
    BY LenProperties, ElementOfSeq
  <1> QED
    BY <1>1 DEF Signalled, Pending

\* The pending sends when the innermost one has its reply.
Unblocked(d) == Append(Front(d), [Last(d) EXCEPT !.signalled = TRUE, !.send_result = TRUE])

\* It keeps the calls of all, and the others as they are.
LEMMA UnblockedCalls ==
  ASSUME NEW d \in Seq(Pending), d # <<>>
  PROVE  /\ Unblocked(d) \in Seq(Pending) /\ Len(Unblocked(d)) = Len(d)
         /\ Unblocked(d)[Len(d)].call = Last(d).call
         /\ Unblocked(d)[Len(d)].signalled /\ Unblocked(d)[Len(d)].send_result
         /\ \A j \in 1 .. Len(d) - 1 : Unblocked(d)[j] = d[j]
         /\ \A j \in 1 .. Len(d) : Unblocked(d)[j].call = d[j].call
  <1> DEFINE p == [Last(d) EXCEPT !.signalled = TRUE, !.send_result = TRUE]
  <1>1. /\ Len(d) \in Nat \ {0} /\ Front(d) \in Seq(Pending) /\ Len(Front(d)) = Len(d) - 1
        /\ Last(d) \in Pending /\ Last(d) = d[Len(d)]
        /\ \A j \in 1 .. Len(d) - 1 : Front(d)[j] = d[j]
    BY FrontLast
  <1>2. p \in Pending /\ p.call = Last(d).call /\ p.signalled /\ p.send_result
    BY <1>1 DEF Pending
  <1> HIDE DEF p
  <1>3. /\ Append(Front(d), p) \in Seq(Pending) /\ Len(Append(Front(d), p)) = Len(d)
        /\ Append(Front(d), p)[Len(d)] = p
        /\ \A j \in 1 .. Len(d) - 1 : Append(Front(d), p)[j] = d[j]
    BY <1>1, <1>2, AppendProperties
  <1>4. Unblocked(d) = Append(Front(d), p)
    BY DEF Unblocked, p
  <1>5. \A j \in 1 .. Len(d) : j = Len(d) \/ j \in 1 .. Len(d) - 1
    BY <1>1
  <1> QED
    BY <1>1, <1>2, <1>3, <1>4, <1>5

\* A step of one side keeps the frames of the other.
LEMMA FramedAt ==
  ASSUME Framed, NEW s \in Sides, Innermost(s)', SendsOfStack(s)',
         \A r \in Sides \ {s} : /\ stack'[r] = stack[r] /\ place'[r] = place[r]
                                /\ deserializers_'[r] = deserializers_[r]
  PROVE  Framed'
  BY DEF Framed, Innermost, SendsOfStack

\* The IO thread only signals and answers pending sends.
LEMMA FramedByIo ==
  ASSUME Types, Types', Framed, NEW s \in Sides, UNCHANGED <<stack, place>>,
         \A r \in Sides \ {s} : deserializers_'[r] = deserializers_[r],
         \/ deserializers_'[s] = deserializers_[s]
         \/ deserializers_[s] # <<>> /\ deserializers_'[s] = Unblocked(deserializers_[s])
         \/ \E calls : deserializers_'[s] = Signalled(deserializers_[s], calls)
  PROVE  Framed'
  <1> DEFINE d == deserializers_[s]
             e == deserializers_'[s]
  <1>1. d \in Seq(Pending) /\ e \in Seq(Pending) /\ stack[s] \in Seq(Frames)
    BY DEF Types, ListenerTypes
  <1>2. Len(e) = Len(d) /\ \A j \in 1 .. Len(d) : e[j].call = d[j].call
    <2>1. CASE e = d
      BY <2>1
    <2>2. CASE d # <<>> /\ e = Unblocked(d)
      BY <1>1, <2>2, UnblockedCalls
    <2>3. ASSUME NEW calls, e = Signalled(d, calls)
          PROVE  Len(e) = Len(d) /\ \A j \in 1 .. Len(d) : e[j].call = d[j].call
      BY <1>1, <2>3, SignalledTypes, SignalledCalls
    <2> QED
      BY <2>1, <2>2, <2>3
  <1>3. Matches(stack[s], d, Above(place[s])) /\ Above(place[s]) \in Nat
    BY DEF Framed, SendsOfStack, Above
  <1>4. Matches(stack[s], e, Above(place[s]))
    BY <1>1, <1>2, <1>3, SameMatches
  <1>5. SendsOfStack(s)' /\ Innermost(s)'
    BY <1>4 DEF SendsOfStack, Innermost, Framed
  <1> QED
    BY <1>5, FramedAt

\* Every step keeps the pending sends those of the stack.
LEMMA FramedStep == Types /\ Types' /\ Framed /\ [Next]_vars => Framed'
  <1> SUFFICES ASSUME Types, Types', Framed, [Next]_vars
               PROVE  Framed'
    OBVIOUS
  <1> USE DEF Goto
  <1>0. ASSUME NEW s \in Sides
        PROVE  /\ stack[s] \in Seq(Frames) /\ deserializers_[s] \in Seq(Pending)
               /\ Innermost(s) /\ Matches(stack[s], deserializers_[s], Above(place[s]))
               /\ stack \in [Sides -> Seq(Frames)] /\ deserializers_ \in [Sides -> Seq(Pending)]
               /\ place \in [Sides -> {"loop", "code", "push", "scan", "wait"}]
    BY DEF Types, ListenerTypes, Framed, SendsOfStack
  <1>a. stack \in [Sides -> Seq(Frames)] /\ deserializers_ \in [Sides -> Seq(Pending)]
    BY DEF Types, ListenerTypes
  <1>1. ASSUME NEW s \in Sides, NEW c \in Calls, Send(s, c)
        PROVE  Framed'
    <2>1. CASE shutdown_event_[s]
      BY <1>1, <2>1, FramedByIo DEF Send
    <2>2. CASE ~shutdown_event_[s]
      <3> DEFINE x == Frame("send", c)
      <3>1. /\ stack' = Push(stack, s, x) /\ place' = [place EXCEPT ![s] = "push"]
            /\ deserializers_' = deserializers_ /\ place[s] \in {"loop", "code"}
        BY <1>1, <2>2 DEF Send, At
      <3>2. x \in Frames /\ x.kind = "send"
        BY DEF Frame, Frames
      <3> HIDE DEF x
      <3>3. /\ stack'[s] = Append(stack[s], x) /\ place'[s] = "push"
            /\ \A r \in Sides \ {s} : stack'[r] = stack[r] /\ place'[r] = place[r]
        <4>1. /\ Push(stack, s, x)[s] = Append(stack[s], x)
              /\ \A r \in Sides \ {s} : Push(stack, s, x)[r] = stack[r]
          BY <1>a, PushAt
        <4> QED
          BY <1>0, <3>1, <4>1
      <3>4. Matches(stack'[s], deserializers_[s], 2)
        <4>1. CASE stack[s] = <<>>
          <5>1. place[s] = "loop"
            BY <1>0, <3>1, <4>1 DEF Innermost
          <5>2. Above(place[s]) = 0
            BY <5>1 DEF Above
          <5> QED
            BY <1>0, <3>2, <3>3, <4>1, <5>2, FirstMatches
        <4>2. CASE stack[s] # <<>>
          <5>1. place[s] = "code" /\ Last(stack[s]).kind = "handler"
            BY <1>0, <3>1, <4>2 DEF Innermost
          <5>2. Above(place[s]) = 1
            BY <5>1 DEF Above
          <5>3. Matches(Append(stack[s], x), deserializers_[s], 1 + 1)
            BY <1>0, <3>2, <4>2, <5>1, <5>2, PushMatches
          <5> QED
            BY <3>3, <5>3
        <4> QED
          BY <4>1, <4>2
      <3>5. Innermost(s)'
        BY <1>0, <3>2, <3>3, LastAppend, SMTT(30) DEF Innermost
      <3>6. SendsOfStack(s)'
        BY <3>1, <3>3, <3>4 DEF SendsOfStack, Above
      <3> QED
        BY <3>1, <3>3, <3>5, <3>6, FramedAt
    <2> QED
      BY <2>1, <2>2
  <1>2. ASSUME NEW s \in Sides, SendPush(s)
        PROVE  Framed'
    <2> DEFINE c == Last(stack[s]).call
               p == [call |-> c, signalled |-> FALSE, send_result |-> FALSE]
    <2>1. /\ UNCHANGED stack /\ place' = [place EXCEPT ![s] = "scan"] /\ place[s] = "push"
          /\ deserializers_' = Push(deserializers_, s, p)
      BY <1>2 DEF SendPush, At
    <2>2. stack[s] # <<>> /\ Last(stack[s]) = Frame("send", c) /\ c \in Calls
      <3>1. stack[s] # <<>> /\ Last(stack[s]).kind = "send"
        BY <1>0, <2>1 DEF Innermost
      <3>2. Last(stack[s]) \in Frames
        BY <1>0, <3>1, FrontLast
      <3> QED
        BY <3>1, <3>2 DEF Frames, Frame
    <2>3. p \in Pending /\ p.call = c
      BY <2>2 DEF Pending
    <2> HIDE DEF p
    <2>4. /\ deserializers_'[s] = Append(deserializers_[s], p) /\ place'[s] = "scan"
          /\ \A r \in Sides \ {s} : deserializers_'[r] = deserializers_[r] /\ place'[r] = place[r]
      <3>1. /\ Push(deserializers_, s, p)[s] = Append(deserializers_[s], p)
            /\ \A r \in Sides \ {s} : Push(deserializers_, s, p)[r] = deserializers_[r]
        BY <1>a, PushAt
      <3> QED
        BY <1>0, <2>1, <3>1
    <2>5. Matches(stack[s], deserializers_'[s], 0)
      <3>1. Matches(stack[s], deserializers_[s], 2)
        BY <1>0, <2>1 DEF Above
      <3> QED
        BY <1>0, <2>2, <2>3, <2>4, <3>1, PendingMatches
    <2>6. Innermost(s)' /\ SendsOfStack(s)'
      BY <2>1, <2>2, <2>4, <2>5 DEF Innermost, Frame, SendsOfStack, Above
    <2> QED
      BY <2>1, <2>4, <2>6, FramedAt
  <1>3. ASSUME NEW s \in Sides, Dispatch(s)
        PROVE  Framed'
    <2> DEFINE x == Frame("handler", Head(message_queue_[s]))
    <2>1. /\ stack' = Push(stack, s, x) /\ place' = [place EXCEPT ![s] = "code"]
          /\ UNCHANGED deserializers_ /\ place[s] = "scan"
      BY <1>3 DEF Dispatch, At, unchangedByScan
    <2>2. x \in Frames /\ x.kind = "handler"
      <3>1. Head(message_queue_[s]) \in Calls
        BY <1>3, HeadTailProperties DEF Dispatch, Types, QueueTypes
      <3> QED
        BY <3>1 DEF Frame, Frames
    <2> HIDE DEF x
    <2>3. /\ stack'[s] = Append(stack[s], x) /\ place'[s] = "code"
          /\ \A r \in Sides \ {s} : stack'[r] = stack[r] /\ place'[r] = place[r]
      <3>1. /\ Push(stack, s, x)[s] = Append(stack[s], x)
            /\ \A r \in Sides \ {s} : Push(stack, s, x)[r] = stack[r]
        BY <1>a, PushAt
      <3> QED
        BY <1>0, <2>1, <3>1
    <2>4. Matches(stack[s], deserializers_[s], 0)
      BY <1>0, <2>1 DEF Above
    <2>5. Matches(stack'[s], deserializers_[s], 1)
      <3>1. CASE stack[s] = <<>>
        BY <1>0, <2>2, <2>3, <2>4, <3>1, FirstMatches
      <3>2. CASE stack[s] # <<>>
        <4>1. Last(stack[s]).kind = "send"
          BY <1>0, <2>1, <3>2 DEF Innermost
        <4>2. Matches(Append(stack[s], x), deserializers_[s], 0 + 1)
          BY <1>0, <2>2, <2>4, <3>2, <4>1, PushMatches
        <4> QED
          BY <2>3, <4>2
      <3> QED
        BY <3>1, <3>2
    <2>6. Innermost(s)'
      <3>1. stack'[s] # <<>> /\ Last(stack'[s]) = x
        BY <1>0, <2>2, <2>3, LastAppend
      <3> QED
        BY ONLY <2>2, <2>3, <3>1 DEF Innermost
    <2>7. SendsOfStack(s)'
      BY <2>1, <2>3, <2>5 DEF SendsOfStack, Above
    <2> QED
      BY <2>1, <2>3, <2>6, <2>7, FramedAt
  <1>4. ASSUME NEW s \in Sides, DispatchEnd(s)
        PROVE  Framed'
    <2>1. /\ UNCHANGED <<stack, deserializers_>> /\ place[s] = "scan"
          /\ place' = [place EXCEPT ![s] = IF stack[s] = <<>> THEN "loop" ELSE "wait"]
      BY <1>4 DEF DispatchEnd, At, unchangedByScan
    <2>2. Innermost(s)' /\ SendsOfStack(s)'
      BY <1>0, <2>1 DEF Innermost, SendsOfStack, Above
    <2> QED
      BY <1>0, <2>1, <2>2, FramedAt
  <1>5. ASSUME NEW s \in Sides, Reply(s)
        PROVE  Framed'
    <2>1. /\ UNCHANGED deserializers_ /\ place[s] = "code"
          /\ place' = [place EXCEPT ![s] = "scan"]
          /\ stack' = [stack EXCEPT ![s] = Front(@)]
      BY <1>5 DEF Reply, At
    <2>2. /\ stack[s] # <<>> /\ Last(stack[s]).kind = "handler"
          /\ Matches(stack[s], deserializers_[s], 1)
      BY <1>0, <2>1 DEF Innermost, Above
    <2>3. /\ stack'[s] = Front(stack[s]) /\ place'[s] = "scan"
          /\ \A r \in Sides \ {s} : stack'[r] = stack[r] /\ place'[r] = place[r]
      BY <1>0, <2>1
    <2>4. Matches(Front(stack[s]), deserializers_[s], 0)
      BY <1>0, <2>2, HandlerMatches
    <2>5. Front(stack[s]) = <<>> \/ Last(Front(stack[s])).kind = "send"
      <3> SUFFICES ASSUME Front(stack[s]) # <<>>
                   PROVE  Last(Front(stack[s])).kind = "send"
        OBVIOUS
      <3>1. Last(Front(stack[s])).kind # "handler" /\ Front(stack[s]) \in Seq(Frames)
        BY <1>0, <2>2, PoppedFrames DEF Matches
      <3>2. Last(Front(stack[s])) \in Frames
        BY <3>1, FrontLast
      <3> QED
        BY <3>1, <3>2 DEF Frames
    <2>6. Innermost(s)' /\ SendsOfStack(s)'
      BY <2>1, <2>3, <2>4, <2>5 DEF Innermost, SendsOfStack, Above
    <2> QED
      BY <2>1, <2>3, <2>6, FramedAt
  <1>6. ASSUME NEW s \in Sides, WaitDispatch(s)
        PROVE  Framed'
    <2>1. /\ UNCHANGED <<stack, deserializers_>> /\ place[s] = "wait"
          /\ place' = [place EXCEPT ![s] = "scan"]
      BY <1>6 DEF WaitDispatch, At
    <2>2. Innermost(s)' /\ SendsOfStack(s)'
      BY <1>0, <2>1 DEF Innermost, SendsOfStack, Above
    <2> QED
      BY <1>0, <2>1, <2>2, FramedAt
  <1>7. ASSUME NEW s \in Sides, WaitDone(s)
        PROVE  Framed'
    <2> DEFINE f == Front(stack[s])
               d == Front(deserializers_[s])
    <2>1. /\ place[s] = "wait" /\ place' = [place EXCEPT ![s] = Under(f)]
          /\ stack' = [stack EXCEPT ![s] = f]
          /\ deserializers_' = [deserializers_ EXCEPT ![s] = d]
      BY <1>7 DEF WaitDone, At, Popped
    <2>2. /\ stack[s] # <<>> /\ deserializers_[s] # <<>> /\ Last(stack[s]).kind = "send"
          /\ Matches(stack[s], deserializers_[s], 0)
      <3>1. /\ stack[s] # <<>> /\ deserializers_[s] # <<>>
            /\ Last(stack[s]) = Frame("send", InnerSend(s).call)
        BY <2>1, WaitingSend
      <3>2. Above(place[s]) = 0
        BY <2>1 DEF Above
      <3> QED
        BY <1>0, <3>1, <3>2 DEF Frame
    <2>3. Matches(f, d, IF f = <<>> THEN 0 ELSE 1)
      BY <1>0, <2>2, SendMatches
    <2>4. f # <<>> => Last(f).kind = "handler"
      <3> SUFFICES ASSUME f # <<>>
                   PROVE  Last(f).kind = "handler"
        OBVIOUS
      <3>1. Last(f).kind # "send" /\ f \in Seq(Frames)
        BY <1>0, <2>2, PoppedFrames DEF Matches
      <3>2. Last(f) \in Frames
        BY <3>1, FrontLast
      <3> QED
        BY <3>1, <3>2 DEF Frames
    <2> HIDE DEF f, d
    <2>5. /\ stack'[s] = f /\ place'[s] = Under(f) /\ deserializers_'[s] = d
          /\ \A r \in Sides \ {s} : /\ stack'[r] = stack[r] /\ place'[r] = place[r]
                                     /\ deserializers_'[r] = deserializers_[r]
      BY <1>0, <2>1
    <2>6. Innermost(s)' /\ SendsOfStack(s)'
      BY <2>3, <2>4, <2>5 DEF Innermost, SendsOfStack, Above, Under
    <2> QED
      BY <2>5, <2>6, FramedAt
  <1>8. ASSUME NEW s \in Sides, LoopDispatch(s)
        PROVE  Framed'
    <2>1. /\ UNCHANGED <<stack, deserializers_>> /\ place[s] = "loop"
          /\ place' = [place EXCEPT ![s] = "scan"]
      BY <1>8 DEF LoopDispatch, At
    <2>2. Innermost(s)' /\ SendsOfStack(s)'
      BY <1>0, <2>1 DEF Innermost, SendsOfStack, Above
    <2> QED
      BY <1>0, <2>1, <2>2, FramedAt
  <1>9. ASSUME NEW s \in Sides, \/ IoTask(s) \/ Io(s) \/ \E c \in Calls : SendTimeout(s, c)
        PROVE  Framed'
    <2>1. UNCHANGED <<stack, place>>
      BY <1>9 DEF IoTask, Io, OnSendMessage, DispatchReplies, ReceiveReply, ReceiveCall,
         SignalDispatch, ChannelError, ShutdownWatch, SendTimeout, unchangedByIo
    <2>2. \/ UNCHANGED deserializers_
          \/ deserializers_[s] # <<>> /\ Unblock(s)
          \/ \E calls : deserializers_' = [deserializers_ EXCEPT ![s] = Signalled(@, calls)]
      BY <1>9 DEF IoTask, Io, OnSendMessage, DispatchReplies, ReceiveReply, ReceiveCall,
         SignalDispatch, ChannelError, ShutdownWatch, SendTimeout, unchangedByIo,
         OnChannelError, CancelPendingSends, RepliesTo
    <2>3. \A r \in Sides \ {s} : deserializers_'[r] = deserializers_[r]
      BY <1>0, <2>2 DEF Unblock
    <2>4. \/ deserializers_'[s] = deserializers_[s]
          \/ deserializers_[s] # <<>> /\ deserializers_'[s] = Unblocked(deserializers_[s])
          \/ \E calls : deserializers_'[s] = Signalled(deserializers_[s], calls)
      BY <1>0, <2>2 DEF Unblock, Unblocked
    <2> QED
      BY <2>1, <2>3, <2>4, FramedByIo
  <1>10. ASSUME NEW s \in Sides, ShutDown(s)
        PROVE  Framed'
    BY <1>10, FramedByIo DEF ShutDown, listenerVars
  <1>11. ASSUME NEW s \in Sides, Die(s)
        PROVE  Framed'
    <2>1. /\ stack' = [stack EXCEPT ![s] = <<>>] /\ place' = [place EXCEPT ![s] = "loop"]
          /\ deserializers_' = [deserializers_ EXCEPT ![s] = <<>>]
      BY <1>11 DEF Die
    <2>2. Innermost(s)' /\ SendsOfStack(s)'
      <3>1. stack'[s] = <<>> /\ place'[s] = "loop" /\ deserializers_'[s] = <<>>
        BY <1>0, <2>1
      <3> QED
        BY <3>1 DEF Innermost, SendsOfStack, Matches, Position, Above
    <2> QED
      BY <1>0, <2>1, <2>2, FramedAt
  <1>12. CASE UNCHANGED vars
    <2>1. Left \in Sides
      BY DEF Sides
    <2> QED
      BY <1>12, <2>1, FramedByIo DEF vars, listenerVars
  <1> QED
    BY <1>1, <1>2, <1>3, <1>4, <1>5, <1>6, <1>7, <1>8, <1>9, <1>10, <1>11, <1>12
       DEF Next, Listener
-----------------------------------------------------------------------------
(***************************************************************************)
(* Replies: what comes back to a Send() was answered.                      *)
(***************************************************************************)

AnsweredAt(s) ==
  /\ received_replies_[s] \subseteq answered
  /\ \A m \in ToSet(io_tasks[s]) \cup ToSet(wire[s]) : m.kind = "reply" => m.call \in answered
  /\ \A j \in DOMAIN deserializers_[s] :
       deserializers_[s][j].send_result => deserializers_[s][j].call \in answered

\* A reply, wherever it is, is to a call that was answered.
Answered ==
  /\ \A c \in Calls : returned[c] = "replied" => c \in answered
  /\ \A s \in Sides : AnsweredAt(s)

\* Initially nothing was answered.
LEMMA AnsweredInit == Init => Answered
  BY DEF Init, Answered, AnsweredAt, ToSet

\* What a step puts among the tasks of the IO thread, or on the wire, is all it adds there.
LEMMA IoPush ==
  ASSUME io_tasks \in [Sides -> Seq(Messages \cup {Replies})], NEW s \in Sides,
         NEW x \in Messages \cup {Replies}, io_tasks' = Push(io_tasks, s, x)
  PROVE  /\ \A r \in Sides : /\ ToSet(io_tasks'[r]) \subseteq ToSet(io_tasks[r]) \cup {x}
                             /\ ToSet(io_tasks[r]) \subseteq ToSet(io_tasks'[r])
         /\ x \in ToSet(io_tasks'[s])
  <1>1. ToSet(Append(io_tasks[s], x)) = ToSet(io_tasks[s]) \cup {x}
    <2>1. io_tasks[s] \in Seq(Messages \cup {Replies})
      OBVIOUS
    <2> QED
      BY <2>1, LastAppend
  <1>2. io_tasks'[s] = Append(io_tasks[s], x) /\ \A r \in Sides \ {s} : io_tasks'[r] = io_tasks[r]
    BY PushAt
  <1>3. ASSUME NEW r \in Sides
        PROVE  /\ ToSet(io_tasks'[r]) \subseteq ToSet(io_tasks[r]) \cup {x}
               /\ ToSet(io_tasks[r]) \subseteq ToSet(io_tasks'[r])
    <2>1. CASE r = s
      BY <1>1, <1>2, <2>1
    <2>2. CASE r # s
      BY <1>2, <2>2
    <2> QED
      BY <2>1, <2>2
  <1> QED
    BY <1>1, <1>2, <1>3

\* A message written to the wire is the only new one there.
LEMMA WirePush ==
  ASSUME wire \in [Sides -> Seq(Messages)], NEW s \in Sides, NEW x \in Messages,
         wire' = Push(wire, s, x)
  PROVE  \A r \in Sides : ToSet(wire'[r]) \subseteq ToSet(wire[r]) \cup {x}
  <1>1. ToSet(Append(wire[s], x)) = ToSet(wire[s]) \cup {x}
    <2>1. wire[s] \in Seq(Messages)
      OBVIOUS
    <2> QED
      BY <2>1, LastAppend
  <1>2. wire'[s] = Append(wire[s], x) /\ \A r \in Sides \ {s} : wire'[r] = wire[r]
    BY PushAt
  <1>3. ASSUME NEW r \in Sides
        PROVE  ToSet(wire'[r]) \subseteq ToSet(wire[r]) \cup {x}
    <2>1. CASE r = s
      BY <1>1, <1>2, <2>1
    <2>2. CASE r # s
      BY <1>2, <2>2
    <2> QED
      BY <2>1, <2>2
  <1> QED
    BY <1>3

\* What a step takes from a queue was there.
LEMMA PopSet ==
  ASSUME NEW S, NEW f \in [Sides -> Seq(S)], NEW s \in Sides, f[s] # <<>>
  PROVE  /\ \A r \in Sides : ToSet(Pop(f, s)[r]) \subseteq ToSet(f[r])
         /\ ToSet(f[s]) = {Head(f[s])} \cup ToSet(Pop(f, s)[s])
  <1>1. Pop(f, s)[s] = Tail(f[s]) /\ \A r \in Sides \ {s} : Pop(f, s)[r] = f[r]
    BY PopAt
  <1>2. ToSet(f[s]) = {Head(f[s])} \cup ToSet(Tail(f[s]))
    BY HeadTailSet
  <1> QED
    BY <1>1, <1>2

\* The pending sends of a step of the IO thread: those that have a result had it before,
\* but for the innermost one.
LEMMA SignalledResults ==
  ASSUME NEW d \in Seq(Pending), NEW calls
  PROVE  /\ DOMAIN Signalled(d, calls) = DOMAIN d
         /\ \A j \in DOMAIN d : /\ Signalled(d, calls)[j].call = d[j].call
                                /\ Signalled(d, calls)[j].send_result = d[j].send_result
                                /\ d[j].call \in calls => Signalled(d, calls)[j].signalled
                                /\ d[j].signalled => Signalled(d, calls)[j].signalled
  <1>1. \A j \in DOMAIN d : d[j] \in Pending
    BY LenProperties, ElementOfSeq
  <1>2. DOMAIN Signalled(d, calls) = DOMAIN d
    BY DEF Signalled
  <1>3. ASSUME NEW j \in DOMAIN d
        PROVE  /\ Signalled(d, calls)[j].call = d[j].call
               /\ Signalled(d, calls)[j].send_result = d[j].send_result
               /\ d[j].call \in calls => Signalled(d, calls)[j].signalled
               /\ d[j].signalled => Signalled(d, calls)[j].signalled
    BY <1>1 DEF Signalled, Pending
  <1> QED
    BY <1>2, <1>3

\* On both sides, after the done events of one of them are signalled.
LEMMA SignalledSends ==
  ASSUME deserializers_ \in [Sides -> Seq(Pending)], NEW s \in Sides, NEW calls,
         deserializers_' = [deserializers_ EXCEPT ![s] = Signalled(deserializers_[s], calls)]
  PROVE  \A r \in Sides : \A j \in DOMAIN deserializers_'[r] :
           /\ j \in DOMAIN deserializers_[r]
           /\ deserializers_'[r][j].call = deserializers_[r][j].call
           /\ deserializers_'[r][j].send_result = deserializers_[r][j].send_result
  <1> DEFINE d == deserializers_[s]
  <1>1. d \in Seq(Pending) /\ deserializers_'[s] = Signalled(d, calls)
    OBVIOUS
  <1>2. \A r \in Sides \ {s} : deserializers_'[r] = deserializers_[r]
    OBVIOUS
  <1>3. \A j \in DOMAIN deserializers_'[s] :
          /\ j \in DOMAIN d
          /\ deserializers_'[s][j].call = d[j].call
          /\ deserializers_'[s][j].send_result = d[j].send_result
    <2> HIDE DEF d
    <2> QED
      BY <1>1, SignalledResults
  <1> QED
    BY <1>2, <1>3

\* A step adds replies only to answered calls.
LEMMA AnsweredKept ==
  ASSUME Answered, answered \subseteq answered',
         \A c \in Calls : returned'[c] = "replied" => returned[c] = "replied" \/ c \in answered',
         \A r \in Sides :
           /\ received_replies_'[r] \subseteq received_replies_[r] \cup answered'
           /\ \A m \in ToSet(io_tasks'[r]) \cup ToSet(wire'[r]) : m.kind = "reply" =>
                \/ \E q \in Sides : m \in ToSet(io_tasks[q]) \cup ToSet(wire[q])
                \/ m.call \in answered'
           /\ \A j \in DOMAIN deserializers_'[r] : deserializers_'[r][j].send_result =>
                \/ deserializers_'[r][j].call \in answered'
                \/ /\ j \in DOMAIN deserializers_[r]
                   /\ deserializers_[r][j].send_result
                   /\ deserializers_'[r][j].call = deserializers_[r][j].call
  PROVE  Answered'
  <1>1. \A c \in Calls : returned'[c] = "replied" => c \in answered'
    BY DEF Answered
  <1>2. ASSUME NEW r \in Sides
        PROVE  AnsweredAt(r)'
    <2>1. received_replies_'[r] \subseteq answered'
      BY DEF Answered, AnsweredAt
    <2>2. \A m \in ToSet(io_tasks'[r]) \cup ToSet(wire'[r]) :
             m.kind = "reply" => m.call \in answered'
      BY DEF Answered, AnsweredAt
    <2>3. \A j \in DOMAIN deserializers_'[r] : deserializers_'[r][j].send_result =>
            deserializers_'[r][j].call \in answered'
      BY DEF Answered, AnsweredAt
    <2> QED
      BY <2>1, <2>2, <2>3 DEF AnsweredAt, ToSet
  <1> QED
    BY <1>1, <1>2 DEF Answered

\* Every step keeps replies and calls matched.
LEMMA AnsweredStep == Types /\ Framed /\ Answered /\ [Next]_vars => Answered'
  <1> SUFFICES ASSUME Types, Framed, Answered, [Next]_vars
               PROVE  Answered'
    OBVIOUS
  <1> USE DEF queueVars, ioVars, shutdownVars, historyVars, listenerVars
  <1>a. /\ stack \in [Sides -> Seq(Frames)] /\ deserializers_ \in [Sides -> Seq(Pending)]
        /\ io_tasks \in [Sides -> Seq(Messages \cup {Replies})]
        /\ wire \in [Sides -> Seq(Messages)]
        /\ received_replies_ \in [Sides -> SUBSET Calls]
        /\ returned \in [Calls -> {"no", "replied", "failed"}]
    BY DEF Types, ListenerTypes, IoTypes, WorldTypes, QueueTypes
  <1>1. ASSUME NEW s \in Sides, NEW c \in Calls, Send(s, c)
        PROVE  Answered'
    <2>1. /\ UNCHANGED <<answered, received_replies_, io_tasks, wire, deserializers_>>
          /\ UNCHANGED returned \/ returned' = [returned EXCEPT ![c] = "failed"]
      BY <1>1 DEF Send
    <2> QED
      BY <1>a, <2>1, AnsweredKept
  <1>2. ASSUME NEW s \in Sides, SendPush(s)
        PROVE  Answered'
    <2> DEFINE c == Last(stack[s]).call
               p == [call |-> c, signalled |-> FALSE, send_result |-> FALSE]
    <2>1. /\ UNCHANGED <<answered, received_replies_, wire, returned>> /\ place[s] = "push"
          /\ deserializers_' = Push(deserializers_, s, p)
          /\ io_tasks' = Push(io_tasks, s, Frame("call", c))
      BY <1>2 DEF SendPush, At
    <2>2. c \in Calls
      <3>1. stack[s] \in Seq(Frames) /\ stack[s] # <<>>
        BY <1>a, <2>1 DEF Framed, Innermost
      <3>2. Last(stack[s]) \in Frames
        BY <3>1, FrontLast
      <3> QED
        BY <3>2 DEF Frames
    <2>3. p \in Pending /\ ~p.send_result /\ Frame("call", c) \in Messages \cup {Replies}
          /\ Frame("call", c).kind # "reply"
      BY <2>2 DEF Pending, Frame, Messages
    <2> HIDE DEF p
    <2>4. \A r \in Sides : ToSet(io_tasks'[r]) \subseteq ToSet(io_tasks[r]) \cup {Frame("call", c)}
      BY <1>a, <2>1, <2>3, IoPush
    <2>5. ASSUME NEW r \in Sides, NEW j \in DOMAIN deserializers_'[r],
                 deserializers_'[r][j].send_result
          PROVE  /\ j \in DOMAIN deserializers_[r]
                 /\ deserializers_'[r][j] = deserializers_[r][j]
      <3>1. CASE r # s
        BY <1>a, <2>1, <2>5, <3>1, PushAt
      <3>2. CASE r = s
        <4>1. deserializers_'[s] = Append(deserializers_[s], p)
          BY <1>a, <2>1, PushAt
        <4>2. /\ DOMAIN Append(deserializers_[s], p) = 1 .. Len(deserializers_[s]) + 1
              /\ DOMAIN deserializers_[s] = 1 .. Len(deserializers_[s])
              /\ \A i \in 1 .. Len(deserializers_[s]) :
                   Append(deserializers_[s], p)[i] = deserializers_[s][i]
              /\ Append(deserializers_[s], p)[Len(deserializers_[s]) + 1] = p
              /\ Len(deserializers_[s]) \in Nat
          BY <1>a, <2>3, AppendProperties, LenProperties
        <4> QED
          BY <2>3, <2>5, <3>2, <4>1, <4>2
      <3> QED
        BY <3>1, <3>2
    <2> QED
      BY <2>1, <2>3, <2>4, <2>5, AnsweredKept
  <1>3. ASSUME NEW s \in Sides, \/ Dispatch(s) \/ DispatchEnd(s) \/ WaitDispatch(s)
                                \/ LoopDispatch(s) \/ SignalDispatch(s) \/ ShutDown(s)
        PROVE  Answered'
    <2>1. UNCHANGED <<answered, received_replies_, io_tasks, wire, deserializers_, returned>>
      BY <1>3 DEF Dispatch, DispatchEnd, WaitDispatch, LoopDispatch, SignalDispatch, ShutDown,
         unchangedByScan, unchangedByIo
    <2> QED
      BY <2>1, AnsweredKept
  <1>4. ASSUME NEW s \in Sides, Reply(s)
        PROVE  Answered'
    <2> DEFINE c == Last(stack[s]).call
    <2>1. /\ UNCHANGED <<received_replies_, wire, returned, deserializers_>> /\ place[s] = "code"
          /\ io_tasks' = Push(io_tasks, s, Frame("reply", c)) /\ answered' = answered \cup {c}
      BY <1>4 DEF Reply, At
    <2>2. Frame("reply", c) \in Messages \cup {Replies} /\ Frame("reply", c).call = c
      <3>1. stack[s] \in Seq(Frames) /\ stack[s] # <<>>
        BY <1>a, <2>1 DEF Framed, Innermost
      <3>2. Last(stack[s]) \in Frames
        BY <3>1, FrontLast
      <3> QED
        BY <3>2 DEF Frames, Frame, Messages
    <2>3. \A r \in Sides : ToSet(io_tasks'[r]) \subseteq ToSet(io_tasks[r]) \cup {Frame("reply", c)}
      BY <1>a, <2>1, <2>2, IoPush
    <2> QED
      BY <2>1, <2>2, <2>3, AnsweredKept
  <1>5. ASSUME NEW s \in Sides, WaitDone(s)
        PROVE  Answered'
    <2>1. /\ UNCHANGED <<answered, received_replies_, wire>> /\ place[s] = "wait"
          /\ deserializers_' = [deserializers_ EXCEPT ![s] = Front(@)]
          /\ io_tasks' = Push(io_tasks, s, Replies)
          /\ returned' = [returned EXCEPT ![Last(stack[s]).call] =
                            IF InnerSend(s).send_result THEN "replied" ELSE "failed"]
      BY <1>5 DEF WaitDone, At, Popped, PopPosts
    <2>2. /\ Last(stack[s]).call = InnerSend(s).call
          /\ deserializers_[s] \in Seq(Pending) /\ deserializers_[s] # <<>>
      <3>1. /\ Last(stack[s]) = Frame("send", InnerSend(s).call)
            /\ deserializers_[s] \in Seq(Pending) /\ deserializers_[s] # <<>>
        BY <2>1, WaitingSend
      <3> QED
        BY <3>1 DEF Frame
    <2>3. /\ DOMAIN deserializers_[s] = 1 .. Len(deserializers_[s])
          /\ Len(deserializers_[s]) \in Nat \ {0}
          /\ InnerSend(s) = deserializers_[s][Len(deserializers_[s])]
          /\ DOMAIN Front(deserializers_[s]) = 1 .. Len(deserializers_[s]) - 1
          /\ \A j \in 1 .. Len(deserializers_[s]) - 1 :
               Front(deserializers_[s])[j] = deserializers_[s][j]
      <3> DEFINE d == deserializers_[s]
      <3>1. d \in Seq(Pending) /\ d # <<>> /\ InnerSend(s) = Last(d)
        BY <2>2 DEF InnerSend
      <3> HIDE DEF d
      <3>2. /\ Len(d) \in Nat \ {0} /\ d[Len(d)] = Last(d)
            /\ Front(d) \in Seq(Pending) /\ Len(Front(d)) = Len(d) - 1
            /\ \A j \in 1 .. Len(d) - 1 : Front(d)[j] = d[j]
        BY ONLY <3>1, FrontLast
      <3>3. DOMAIN d = 1 .. Len(d) /\ DOMAIN Front(d) = 1 .. Len(Front(d))
        BY ONLY <3>1, <3>2, LenProperties
      <3> QED
        BY <3>1, <3>2, <3>3 DEF d
    <2>4. InnerSend(s).send_result => InnerSend(s).call \in answered
      BY <2>3 DEF Answered, AnsweredAt
    <2>5. \A c \in Calls : returned'[c] = "replied" => returned[c] = "replied" \/ c \in answered'
      BY <1>a, <2>1, <2>2, <2>4
    <2>6. \A r \in Sides : ToSet(io_tasks'[r]) \subseteq ToSet(io_tasks[r]) \cup {Replies}
      BY <1>a, <2>1, IoPush
    <2>7. Replies.kind # "reply"
      BY DEF Replies
    <2>8. \A r \in Sides : \A j \in DOMAIN deserializers_'[r] :
            j \in DOMAIN deserializers_[r] /\ deserializers_'[r][j] = deserializers_[r][j]
      <3>1. deserializers_'[s] = Front(deserializers_[s])
        BY <1>a, <2>1
      <3>2. \A r \in Sides \ {s} : deserializers_'[r] = deserializers_[r]
        BY <1>a, <2>1
      <3>3. \A j \in DOMAIN deserializers_'[s] :
              j \in DOMAIN deserializers_[s] /\ deserializers_'[s][j] = deserializers_[s][j]
        BY <2>3, <3>1
      <3> QED
        BY <3>2, <3>3
    <2> QED
      BY <2>1, <2>5, <2>6, <2>7, <2>8, AnsweredKept
  <1>6. ASSUME NEW s \in Sides, OnSendMessage(s)
        PROVE  Answered'
    <2> DEFINE m == Head(io_tasks[s])
    <2>1. /\ UNCHANGED <<answered, received_replies_, returned>>
          /\ io_tasks' = Pop(io_tasks, s) /\ io_tasks[s] # <<>> /\ m # Replies
          /\ \/ UNCHANGED wire /\ CancelPendingSends(s)
             \/ UNCHANGED deserializers_ /\ wire' = Push(wire, Other(s), m)
      BY <1>6 DEF OnSendMessage, OnChannelError, unchangedByIo
    <2>2. m \in Messages /\ m \in ToSet(io_tasks[s])
      BY <1>a, <2>1, HeadTailSet
    <2>3. \A r \in Sides : ToSet(io_tasks'[r]) \subseteq ToSet(io_tasks[r])
      BY <1>a, <2>1, PopSet
    <2>4. \A r \in Sides : ToSet(wire'[r]) \subseteq ToSet(wire[r]) \cup {m}
      <3>1. Other(s) \in Sides
        BY DEF Other, Sides
      <3> QED
        BY <1>a, <2>1, <2>2, <3>1, WirePush
    <2>5. \A r \in Sides : \A j \in DOMAIN deserializers_'[r] :
            /\ j \in DOMAIN deserializers_[r]
            /\ deserializers_'[r][j].call = deserializers_[r][j].call
            /\ deserializers_'[r][j].send_result = deserializers_[r][j].send_result
      <3>1. CASE UNCHANGED deserializers_
        BY <3>1
      <3>2. CASE CancelPendingSends(s)
        <4>1. deserializers_' = [deserializers_ EXCEPT ![s] = Signalled(deserializers_[s], Calls)]
          BY <3>2 DEF CancelPendingSends
        <4> QED
          BY <1>a, <4>1, SignalledSends
      <3> QED
        BY <2>1, <3>1, <3>2
    <2> QED
      BY <2>1, <2>2, <2>3, <2>4, <2>5, AnsweredKept
  <1>7. ASSUME NEW s \in Sides, NEW c \in answered, deserializers_[s] # <<>>,
               InnerSend(s).call = c, Unblock(s)
        PROVE  \A r \in Sides : \A j \in DOMAIN deserializers_'[r] :
                 \/ deserializers_'[r][j].call \in answered
                 \/ /\ j \in DOMAIN deserializers_[r]
                    /\ deserializers_'[r][j] = deserializers_[r][j]
    <2> DEFINE d == deserializers_[s]
    <2>1. deserializers_' = [deserializers_ EXCEPT ![s] = Unblocked(d)]
      BY <1>7 DEF Unblock, Unblocked
    <2>2. /\ Unblocked(d)[Len(d)].call = c /\ DOMAIN Unblocked(d) = 1 .. Len(d)
          /\ \A j \in 1 .. Len(d) - 1 : Unblocked(d)[j] = d[j]
          /\ DOMAIN d = 1 .. Len(d) /\ Len(d) \in Nat
      BY <1>a, <1>7, UnblockedCalls, LenProperties DEF InnerSend
    <2>3. \A j \in 1 .. Len(d) : j = Len(d) \/ j \in 1 .. Len(d) - 1
      BY <2>2
    <2> QED
      BY <1>a, <2>1, <2>2, <2>3
  <1>8. ASSUME NEW s \in Sides, DispatchReplies(s)
        PROVE  Answered'
    <2>1. /\ UNCHANGED <<answered, wire, returned>>
          /\ io_tasks' = Pop(io_tasks, s) /\ io_tasks[s] # <<>>
          /\ \/ UNCHANGED <<deserializers_, received_replies_>>
             \/ \E c \in received_replies_[s] :
                  /\ deserializers_[s] # <<>> /\ InnerSend(s).call = c /\ Unblock(s)
                  /\ received_replies_' = [received_replies_ EXCEPT ![s] = @ \ {c}]
      BY <1>8 DEF DispatchReplies, RepliesTo, unchangedByIo
    <2>2. \A r \in Sides : ToSet(io_tasks'[r]) \subseteq ToSet(io_tasks[r])
      BY <1>a, <2>1, PopSet
    <2>3. \A r \in Sides : received_replies_'[r] \subseteq received_replies_[r]
      BY <1>a, <2>1
    <2>4. received_replies_[s] \subseteq answered
      BY DEF Answered, AnsweredAt
    <2>5. \A r \in Sides : \A j \in DOMAIN deserializers_'[r] :
            \/ deserializers_'[r][j].call \in answered
            \/ /\ j \in DOMAIN deserializers_[r]
               /\ deserializers_'[r][j] = deserializers_[r][j]
      BY <1>7, <2>1, <2>4
    <2> QED
      BY <2>1, <2>2, <2>3, <2>5, AnsweredKept
  <1>9. ASSUME NEW s \in Sides, ReceiveReply(s)
        PROVE  Answered'
    <2> DEFINE c == Head(wire[s]).call
    <2>1. /\ UNCHANGED <<answered, io_tasks, returned>>
          /\ wire' = Pop(wire, s) /\ wire[s] # <<>> /\ Head(wire[s]).kind = "reply"
          /\ \/ /\ UNCHANGED received_replies_
                /\ deserializers_[s] # <<>> /\ InnerSend(s).call = c /\ Unblock(s)
             \/ /\ UNCHANGED deserializers_
                /\ received_replies_' = [received_replies_ EXCEPT ![s] = @ \cup {c}]
      BY <1>9 DEF ReceiveReply, RepliesTo, unchangedByIo
    <2>2. \A r \in Sides : ToSet(wire'[r]) \subseteq ToSet(wire[r])
      BY <1>a, <2>1, PopSet
    <2>3. c \in answered
      BY <1>a, <2>1, HeadTailSet DEF Answered, AnsweredAt
    <2>4. \A r \in Sides : received_replies_'[r] \subseteq received_replies_[r] \cup answered
      <3>1. received_replies_ \in [Sides -> SUBSET Calls] /\ s \in Sides
        BY <1>a
      <3>2. CASE received_replies_' = received_replies_
        BY ONLY <3>2
      <3>3. CASE received_replies_' = [received_replies_ EXCEPT ![s] = @ \cup {c}]
        BY ONLY <2>3, <3>1, <3>3
      <3> QED
        BY ONLY <2>1, <3>2, <3>3
    <2>5. \A r \in Sides : \A j \in DOMAIN deserializers_'[r] :
            \/ deserializers_'[r][j].call \in answered
            \/ /\ j \in DOMAIN deserializers_[r]
               /\ deserializers_'[r][j] = deserializers_[r][j]
      BY <1>7, <2>1, <2>3
    <2> QED
      BY <2>1, <2>2, <2>4, <2>5, AnsweredKept
  <1>10. ASSUME NEW s \in Sides, ReceiveCall(s)
         PROVE  Answered'
    <2>1. /\ UNCHANGED <<answered, io_tasks, returned, received_replies_, deserializers_>>
          /\ wire' = Pop(wire, s) /\ wire[s] # <<>>
      BY <1>10 DEF ReceiveCall, unchangedByIo
    <2>2. \A r \in Sides : ToSet(wire'[r]) \subseteq ToSet(wire[r])
      BY <1>a, <2>1, PopSet
    <2> QED
      BY <2>1, <2>2, AnsweredKept
  <1>11. ASSUME NEW s \in Sides, \/ ChannelError(s) \/ ShutdownWatch(s)
                                 \/ \E c \in Calls : SendTimeout(s, c)
         PROVE  Answered'
    <2>1. /\ UNCHANGED <<answered, io_tasks, wire, returned, received_replies_>>
          /\ \E calls : deserializers_' = [deserializers_ EXCEPT ![s] = Signalled(@, calls)]
      BY <1>11 DEF ChannelError, ShutdownWatch, SendTimeout, OnChannelError,
         CancelPendingSends, unchangedByIo
    <2>2. \A r \in Sides : \A j \in DOMAIN deserializers_'[r] :
            /\ j \in DOMAIN deserializers_[r]
            /\ deserializers_'[r][j].call = deserializers_[r][j].call
            /\ deserializers_'[r][j].send_result = deserializers_[r][j].send_result
      BY <1>a, <2>1, SignalledSends
    <2> QED
      BY <2>1, <2>2, AnsweredKept
  <1>12. ASSUME NEW s \in Sides, Die(s)
         PROVE  Answered'
    <2>1. /\ UNCHANGED <<answered, returned>>
          /\ received_replies_' = [received_replies_ EXCEPT ![s] = {}]
          /\ io_tasks' = [io_tasks EXCEPT ![s] = <<>>] /\ wire' = [wire EXCEPT ![s] = <<>>]
          /\ deserializers_' = [deserializers_ EXCEPT ![s] = <<>>]
      BY <1>12 DEF Die
    <2>2. ToSet(<<>>) = {} /\ DOMAIN <<>> = {}
      BY DEF ToSet
    <2> QED
      BY <1>a, <2>1, <2>2, AnsweredKept
  <1>13. CASE UNCHANGED vars
    BY <1>13, AnsweredKept DEF vars
  <1> QED
    BY <1>1, <1>2, <1>3, <1>4, <1>5, <1>6, <1>8, <1>9, <1>10, <1>11, <1>12, <1>13
       DEF Next, Listener, IoTask, Io
-----------------------------------------------------------------------------
(***************************************************************************)
(* The journey of a call: it is sent once, so nothing that comes of it is  *)
(* about before its Send() has pushed it.                                  *)
(***************************************************************************)

\* The Send() of c has not yet registered itself.
Unpushed(s, c) == place[s] = "push" /\ Last(stack[s]).call = c

\* The call c, its handler or its reply is somewhere at the side s.
Travels(s, c) ==
  \/ \E m \in ToSet(io_tasks[s]) \cup ToSet(wire[s]) : m # Replies /\ m.call = c
  \/ c \in ToSet(message_queue_[s]) \cup received_replies_[s]
  \/ Frame("handler", c) \in ToSet(stack[s])

Journey ==
  /\ \A s \in Sides : \A c \in Calls : Unpushed(s, c) => c \in sent /\ SenderOf[c] = s
  /\ \A s \in Sides : \A c \in Calls :
       Travels(s, c) => c \in sent /\ ~Unpushed(SenderOf[c], c)

\* Initially no call is on its way.
LEMMA JourneyInit == Init => Journey
  <1>1. ToSet(<<>>) = {}
    BY DEF ToSet
  <1> QED
    BY <1>1 DEF Init, Journey, Unpushed, Travels

\* A step that registers no call and begins no Send() makes calls go on.
LEMMA JourneyKept ==
  ASSUME Journey, UNCHANGED sent,
         \A r \in Sides : place'[r] = "push" => place[r] = "push" /\ stack'[r] = stack[r],
         \A r \in Sides :
           /\ \A m \in ToSet(io_tasks'[r]) \cup ToSet(wire'[r]) : m # Replies =>
                \E q \in Sides : \/ m \in ToSet(io_tasks[q]) \cup ToSet(wire[q])
                                 \/ Frame("handler", m.call) \in ToSet(stack[q])
           /\ \A c \in ToSet(message_queue_'[r]) \cup received_replies_'[r] :
                \/ c \in ToSet(message_queue_[r]) \cup received_replies_[r]
                \/ \E m \in ToSet(wire[r]) : m # Replies /\ m.call = c
           /\ \A f \in ToSet(stack'[r]) :
                \/ f \in ToSet(stack[r])
                \/ f.call \in ToSet(message_queue_[r])
  PROVE  Journey'
  <1>1. ASSUME NEW r \in Sides, NEW c \in Calls, Unpushed(r, c)'
        PROVE  Unpushed(r, c)
    BY <1>1 DEF Unpushed
  <1>2. ASSUME NEW r \in Sides, NEW c \in Calls, Travels(r, c)'
        PROVE  \E q \in Sides : Travels(q, c)
    <2>1. CASE \E m \in ToSet(io_tasks'[r]) \cup ToSet(wire'[r]) : m # Replies /\ m.call = c
      BY <2>1 DEF Travels
    <2>2. CASE c \in ToSet(message_queue_'[r]) \cup received_replies_'[r]
      BY <2>2 DEF Travels
    <2>3. CASE Frame("handler", c) \in ToSet(stack'[r])
      <3>1. Frame("handler", c).call = c
        BY DEF Frame
      <3> QED
        BY <2>3, <3>1 DEF Travels
    <2> QED
      BY <1>2, <2>1, <2>2, <2>3 DEF Travels, ToSet
  <1>3. \A c \in Calls : SenderOf[c] \in Sides
    BY SideAssumption
  <1> QED
    BY <1>1, <1>2, <1>3 DEF Journey

\* Every step keeps the calls on their way.
LEMMA JourneyStep == Types /\ Framed /\ Journey /\ [Next]_vars => Journey'
  <1> SUFFICES ASSUME Types, Framed, Journey, [Next]_vars
               PROVE  Journey'
    OBVIOUS
  <1> USE DEF queueVars, ioVars, shutdownVars, historyVars, listenerVars
  <1>a. /\ stack \in [Sides -> Seq(Frames)] /\ deserializers_ \in [Sides -> Seq(Pending)]
        /\ place \in [Sides -> {"loop", "code", "push", "scan", "wait"}]
        /\ io_tasks \in [Sides -> Seq(Messages \cup {Replies})]
        /\ wire \in [Sides -> Seq(Messages)]
        /\ message_queue_ \in [Sides -> Seq(Calls)]
        /\ received_replies_ \in [Sides -> SUBSET Calls]
    BY DEF Types, ListenerTypes, IoTypes, WorldTypes, QueueTypes
  <1>b. ASSUME NEW s \in Sides, place[s] \in {"push", "code"}
        PROVE  /\ stack[s] \in Seq(Frames) /\ stack[s] # <<>>
               /\ Last(stack[s]).call \in Calls /\ Last(stack[s]) \in ToSet(stack[s])
               /\ ToSet(Front(stack[s])) \subseteq ToSet(stack[s])
    <2>1. stack[s] \in Seq(Frames) /\ stack[s] # <<>>
      BY <1>a, <1>b DEF Framed, Innermost
    <2>2. Last(stack[s]) \in Frames
      BY <2>1, FrontLast
    <2>3. Last(stack[s]).call \in Calls
      BY <2>2 DEF Frames
    <2> QED
      BY <2>1, <2>3, FrontSet
  <1>1. ASSUME NEW s \in Sides, NEW c \in Calls, Send(s, c)
        PROVE  Journey'
    <2>1. /\ UNCHANGED <<received_replies_, io_tasks, wire, message_queue_>>
          /\ sent' = sent \cup {c} /\ c \notin sent /\ SenderOf[c] = s
          /\ place[s] \in {"loop", "code"}
          /\ \/ UNCHANGED <<stack, place>>
             \/ /\ stack' = Push(stack, s, Frame("send", c))
                /\ place' = [place EXCEPT ![s] = "push"]
      BY <1>1 DEF Send, At, Goto
    <2>2. CASE UNCHANGED <<stack, place>>
      BY <2>1, <2>2 DEF Journey, Unpushed, Travels
    <2>3. CASE /\ stack' = Push(stack, s, Frame("send", c))
               /\ place' = [place EXCEPT ![s] = "push"]
      <3>1. Frame("send", c) \in Frames /\ Frame("send", c).call = c
        BY DEF Frames, Frame
      <3>2. /\ stack'[s] = Append(stack[s], Frame("send", c))
            /\ \A r \in Sides \ {s} : stack'[r] = stack[r]
            /\ place'[s] = "push" /\ \A r \in Sides \ {s} : place'[r] = place[r]
        BY <1>a, <2>3, PushAt
      <3>3. /\ Last(stack'[s]) = Frame("send", c)
            /\ ToSet(stack'[s]) = ToSet(stack[s]) \cup {Frame("send", c)}
        <4>1. stack[s] \in Seq(Frames)
          BY <1>a
        <4> QED
          BY <3>1, <3>2, <4>1, LastAppend
      <3>4. ASSUME NEW r \in Sides, NEW k \in Calls, Unpushed(r, k)'
            PROVE  (r = s /\ k = c) \/ Unpushed(r, k)
        BY <3>1, <3>2, <3>3, <3>4 DEF Unpushed
      <3>5. ASSUME NEW r \in Sides, NEW k \in Calls, Travels(r, k)'
            PROVE  Travels(r, k)
        <4>1. Frame("handler", k) # Frame("send", c)
          BY DEF Frame
        <4>2. Frame("handler", k) \in ToSet(stack'[r]) => Frame("handler", k) \in ToSet(stack[r])
          <5>1. CASE r = s
            BY <3>3, <4>1, <5>1
          <5>2. CASE r # s
            BY <3>2, <5>2
          <5> QED
            BY <5>1, <5>2
        <4> QED
          BY <2>1, <3>5, <4>2 DEF Travels
      <3>6. ASSUME NEW r \in Sides, NEW k \in Calls, Unpushed(r, k)'
            PROVE  k \in sent' /\ SenderOf[k] = r
        BY <2>1, <3>4, <3>6 DEF Journey
      <3>7. ASSUME NEW r \in Sides, NEW k \in Calls, Travels(r, k)'
            PROVE  k \in sent' /\ ~Unpushed(SenderOf[k], k)'
        <4>1. k \in sent /\ ~Unpushed(SenderOf[k], k) /\ SenderOf[k] \in Sides /\ k # c
          BY <2>1, <3>5, <3>7, SideAssumption DEF Journey
        <4> QED
          BY <2>1, <3>4, <4>1
      <3> QED
        BY <3>6, <3>7 DEF Journey
    <2> QED
      BY <2>1, <2>2, <2>3
  <1>2. ASSUME NEW s \in Sides, SendPush(s)
        PROVE  Journey'
    <2> DEFINE c == Last(stack[s]).call
    <2>1. /\ UNCHANGED <<stack, received_replies_, wire, message_queue_, sent>>
          /\ place[s] = "push" /\ place' = [place EXCEPT ![s] = "scan"]
          /\ io_tasks' = Push(io_tasks, s, Frame("call", c))
      BY <1>2 DEF SendPush, At, Goto
    <2>2. c \in Calls /\ Unpushed(s, c)
      BY <1>b, <2>1 DEF Unpushed
    <2>3. /\ Frame("call", c) \in Messages \cup {Replies}
          /\ Frame("call", c).call = c
      BY <2>2 DEF Frame, Messages
    <2>4. \A r \in Sides : ToSet(io_tasks'[r]) \subseteq ToSet(io_tasks[r]) \cup {Frame("call", c)}
      BY <1>a, <2>1, <2>3, IoPush
    <2>5. place'[s] = "scan" /\ \A r \in Sides \ {s} : place'[r] = place[r]
      BY <1>a, <2>1
    <2>6. ASSUME NEW r \in Sides, NEW k \in Calls, Unpushed(r, k)'
          PROVE  Unpushed(r, k) /\ r # s
      BY <2>1, <2>5, <2>6 DEF Unpushed
    <2>7. ASSUME NEW r \in Sides, NEW k \in Calls, Travels(r, k)'
          PROVE  Travels(r, k) \/ k = c
      BY <2>1, <2>3, <2>4, <2>7 DEF Travels
    <2>8. SenderOf[c] = s /\ c \in sent /\ \A k \in Calls : SenderOf[k] \in Sides
      BY <2>2, SideAssumption DEF Journey
    <2> HIDE DEF c
    <2> QED
      BY <2>1, <2>2, <2>6, <2>7, <2>8 DEF Journey
  <1>3. ASSUME NEW s \in Sides, Dispatch(s)
        PROVE  Journey'
    <2> DEFINE c == Head(message_queue_[s])
    <2>1. /\ UNCHANGED <<received_replies_, wire, io_tasks, sent>> /\ message_queue_[s] # <<>>
          /\ place' = [place EXCEPT ![s] = "code"]
          /\ message_queue_' = Pop(message_queue_, s)
          /\ stack' = Push(stack, s, Frame("handler", c))
      BY <1>3 DEF Dispatch, Goto, unchangedByScan
    <2>2. c \in Calls /\ c \in ToSet(message_queue_[s])
      BY <1>a, <2>1, HeadTailSet
    <2>3. Frame("handler", c) \in Frames /\ Frame("handler", c).call = c
      BY <2>2 DEF Frames, Frame
    <2>4. /\ stack'[s] = Append(stack[s], Frame("handler", c))
          /\ \A r \in Sides \ {s} : stack'[r] = stack[r]
          /\ place'[s] = "code" /\ \A r \in Sides \ {s} : place'[r] = place[r]
      BY <1>a, <2>1, PushAt
    <2>5. ToSet(stack'[s]) = ToSet(stack[s]) \cup {Frame("handler", c)}
      <3>1. stack[s] \in Seq(Frames)
        BY <1>a
      <3> QED
        BY <2>3, <2>4, <3>1, LastAppend
    <2>6. \A r \in Sides : ToSet(message_queue_'[r]) \subseteq ToSet(message_queue_[r])
      BY <1>a, <2>1, PopSet
    <2>7. \A f \in ToSet(stack'[s]) :
            f \in ToSet(stack[s]) \/ f.call \in ToSet(message_queue_[s])
      BY ONLY <2>2, <2>3, <2>5
    <2>8. \A r \in Sides : \A f \in ToSet(stack'[r]) :
            f \in ToSet(stack[r]) \/ f.call \in ToSet(message_queue_[r])
      BY ONLY <2>4, <2>7
    <2>9. \A r \in Sides : place'[r] = "push" => place[r] = "push" /\ stack'[r] = stack[r]
      BY ONLY <2>4
    <2> QED
      BY <2>1, <2>6, <2>8, <2>9, JourneyKept
  <1>4. ASSUME NEW s \in Sides, \/ DispatchEnd(s) \/ WaitDispatch(s) \/ LoopDispatch(s)
        PROVE  Journey'
    <2>1. /\ UNCHANGED <<received_replies_, wire, io_tasks, sent, message_queue_, stack>>
          /\ \E p \in {"loop", "wait", "scan"} : place' = [place EXCEPT ![s] = p]
      BY <1>4 DEF DispatchEnd, WaitDispatch, LoopDispatch, Goto, unchangedByScan
    <2> QED
      BY <1>a, <2>1, JourneyKept
  <1>5. ASSUME NEW s \in Sides, Reply(s)
        PROVE  Journey'
    <2> DEFINE f == Last(stack[s])
    <2>1. /\ UNCHANGED <<received_replies_, wire, sent, message_queue_>> /\ place[s] = "code"
          /\ place' = [place EXCEPT ![s] = "scan"]
          /\ io_tasks' = Push(io_tasks, s, Frame("reply", f.call))
          /\ stack' = [stack EXCEPT ![s] = Front(stack[s])]
      BY <1>5 DEF Reply, At, Goto
    <2>2. f.call \in Calls /\ f = Frame("handler", f.call) /\ f \in ToSet(stack[s])
      <3>1. f \in ToSet(stack[s]) /\ stack[s] \in Seq(Frames) /\ stack[s] # <<>>
        BY <1>b, <2>1
      <3>2. f.kind = "handler" /\ f \in Frames
        BY <2>1, <3>1, FrontLast DEF Framed, Innermost
      <3> HIDE DEF f
      <3> QED
        BY <3>1, <3>2 DEF Frames, Frame
    <2>3. /\ Frame("reply", f.call) \in Messages \cup {Replies}
          /\ Frame("reply", f.call).call = f.call
      BY <2>2 DEF Frame, Messages
    <2>4. \A r \in Sides :
            ToSet(io_tasks'[r]) \subseteq ToSet(io_tasks[r]) \cup {Frame("reply", f.call)}
      BY <1>a, <2>1, <2>3, IoPush
    <2>5. /\ stack'[s] = Front(stack[s]) /\ \A r \in Sides \ {s} : stack'[r] = stack[r]
          /\ place'[s] = "scan" /\ \A r \in Sides \ {s} : place'[r] = place[r]
      BY <1>a, <2>1
    <2>6. \A r \in Sides : ToSet(stack'[r]) \subseteq ToSet(stack[r])
      BY <1>b, <2>1, <2>5
    <2>7. Frame("handler", Frame("reply", f.call).call) \in ToSet(stack[s])
      BY <2>2, <2>3
    <2> HIDE DEF f
    <2>8. \A r \in Sides : \A m \in ToSet(io_tasks'[r]) \cup ToSet(wire'[r]) : m # Replies =>
            \E q \in Sides : \/ m \in ToSet(io_tasks[q]) \cup ToSet(wire[q])
                             \/ Frame("handler", m.call) \in ToSet(stack[q])
      BY <2>1, <2>4, <2>7
    <2> QED
      BY <2>1, <2>5, <2>6, <2>8, JourneyKept
  <1>6. ASSUME NEW s \in Sides, WaitDone(s)
        PROVE  Journey'
    <2>1. /\ UNCHANGED <<received_replies_, wire, sent, message_queue_>> /\ place[s] = "wait"
          /\ place' = [place EXCEPT ![s] = Under(Front(stack[s]))]
          /\ io_tasks' = Push(io_tasks, s, Replies)
          /\ stack' = [stack EXCEPT ![s] = Front(stack[s])]
      BY <1>6 DEF WaitDone, At, Goto, PopPosts
    <2>2. \A r \in Sides : ToSet(io_tasks'[r]) \subseteq ToSet(io_tasks[r]) \cup {Replies}
      BY <1>a, <2>1, IoPush
    <2>3. /\ stack'[s] = Front(stack[s]) /\ \A r \in Sides \ {s} : stack'[r] = stack[r]
          /\ place'[s] # "push" /\ \A r \in Sides \ {s} : place'[r] = place[r]
      BY <1>a, <2>1 DEF Under
    <2>4. \A r \in Sides : ToSet(stack'[r]) \subseteq ToSet(stack[r])
      <3>1. stack[s] \in Seq(Frames) /\ stack[s] # <<>>
        BY <2>1, WaitingSend
      <3>2. ToSet(Front(stack[s])) \subseteq ToSet(stack[s])
        BY <3>1, FrontSet
      <3> QED
        BY <2>3, <3>2
    <2> QED
      BY <2>1, <2>2, <2>3, <2>4, JourneyKept
  <1>7. ASSUME NEW s \in Sides, OnSendMessage(s)
        PROVE  Journey'
    <2> DEFINE m == Head(io_tasks[s])
    <2>1. /\ UNCHANGED <<received_replies_, sent, message_queue_, stack, place>>
          /\ io_tasks' = Pop(io_tasks, s) /\ io_tasks[s] # <<>> /\ m # Replies
          /\ UNCHANGED wire \/ wire' = Push(wire, Other(s), m)
      BY <1>7 DEF OnSendMessage, unchangedByIo
    <2>2. m \in Messages /\ m \in ToSet(io_tasks[s])
      BY <1>a, <2>1, HeadTailSet
    <2>3. \A r \in Sides : ToSet(io_tasks'[r]) \subseteq ToSet(io_tasks[r])
      BY <1>a, <2>1, PopSet
    <2>4. \A r \in Sides : ToSet(wire'[r]) \subseteq ToSet(wire[r]) \cup {m}
      <3>1. Other(s) \in Sides
        BY DEF Other, Sides
      <3> QED
        BY <1>a, <2>1, <2>2, <3>1, WirePush
    <2> QED
      BY <2>1, <2>2, <2>3, <2>4, JourneyKept
  <1>8. ASSUME NEW s \in Sides, DispatchReplies(s)
        PROVE  Journey'
    <2>1. /\ UNCHANGED <<sent, message_queue_, stack, place, wire>>
          /\ io_tasks' = Pop(io_tasks, s) /\ io_tasks[s] # <<>>
          /\ \/ UNCHANGED received_replies_
             \/ \E c \in received_replies_[s] :
                  received_replies_' = [received_replies_ EXCEPT ![s] = @ \ {c}]
      BY <1>8 DEF DispatchReplies, unchangedByIo
    <2>2. \A r \in Sides : ToSet(io_tasks'[r]) \subseteq ToSet(io_tasks[r])
      BY <1>a, <2>1, PopSet
    <2>3. \A r \in Sides : received_replies_'[r] \subseteq received_replies_[r]
      BY <1>a, <2>1
    <2> QED
      BY <2>1, <2>2, <2>3, JourneyKept
  <1>c. \A r \in Sides : \A m \in ToSet(wire[r]) : m # Replies
    <2>1. \A r \in Sides : wire[r] \in Seq(Messages)
      BY <1>a
    <2>2. \A r \in Sides : \A m \in ToSet(wire[r]) : m \in Messages
      BY <2>1, ElementOfSeq, LenProperties DEF ToSet
    <2> QED
      BY <2>2 DEF Messages, Replies
  <1>9. ASSUME NEW s \in Sides, ReceiveReply(s)
        PROVE  Journey'
    <2> DEFINE c == Head(wire[s]).call
    <2>1. /\ UNCHANGED <<sent, message_queue_, stack, place, io_tasks>>
          /\ wire' = Pop(wire, s) /\ wire[s] # <<>>
          /\ \/ UNCHANGED received_replies_
             \/ received_replies_' = [received_replies_ EXCEPT ![s] = @ \cup {c}]
      BY <1>9 DEF ReceiveReply, unchangedByIo
    <2>2. \A r \in Sides : ToSet(wire'[r]) \subseteq ToSet(wire[r])
      BY <1>a, <2>1, PopSet
    <2>3. Head(wire[s]) \in ToSet(wire[s])
      BY <1>a, <2>1, HeadTailSet
    <2>4. \A r \in Sides \ {s} : received_replies_'[r] = received_replies_[r]
      BY <1>a, <2>1
    <2>5. received_replies_'[s] \subseteq received_replies_[s] \cup {c}
      BY <1>a, <2>1
    <2>6. \A r \in Sides : \A k \in received_replies_'[r] :
            k \in received_replies_[r] \/ \E m \in ToSet(wire[r]) : m # Replies /\ m.call = k
      BY <1>c, <2>3, <2>4, <2>5
    <2> QED
      BY <2>1, <2>2, <2>6, JourneyKept
  <1>10. ASSUME NEW s \in Sides, ReceiveCall(s)
         PROVE  Journey'
    <2> DEFINE c == Head(wire[s]).call
    <2>1. /\ UNCHANGED <<sent, stack, place, io_tasks, received_replies_>>
          /\ wire' = Pop(wire, s) /\ wire[s] # <<>>
          /\ message_queue_' = Push(message_queue_, s, c)
      BY <1>10 DEF ReceiveCall, unchangedByIo
    <2>2. \A r \in Sides : ToSet(wire'[r]) \subseteq ToSet(wire[r])
      BY <1>a, <2>1, PopSet
    <2>3. Head(wire[s]) \in ToSet(wire[s]) /\ Head(wire[s]) \in Messages
      BY <1>a, <2>1, HeadTailSet
    <2>4. c \in Calls
      BY <2>3 DEF Messages
    <2>5. /\ message_queue_'[s] = Append(message_queue_[s], c)
          /\ \A r \in Sides \ {s} : message_queue_'[r] = message_queue_[r]
      BY <1>a, <2>1, PushAt
    <2>6. ToSet(message_queue_'[s]) = ToSet(message_queue_[s]) \cup {c}
      <3>1. message_queue_[s] \in Seq(Calls)
        BY <1>a
      <3> QED
        BY <2>4, <2>5, <3>1, LastAppend
    <2>7. \A r \in Sides : \A k \in ToSet(message_queue_'[r]) :
            k \in ToSet(message_queue_[r]) \/ \E m \in ToSet(wire[r]) : m # Replies /\ m.call = k
      BY <1>c, <2>3, <2>5, <2>6
    <2> QED
      BY <2>1, <2>2, <2>7, JourneyKept
  <1>11. ASSUME NEW s \in Sides, \/ SignalDispatch(s) \/ ChannelError(s) \/ ShutdownWatch(s)
                                 \/ ShutDown(s) \/ \E c \in Calls : SendTimeout(s, c)
         PROVE  Journey'
    <2>1. UNCHANGED <<sent, stack, place, io_tasks, received_replies_, wire, message_queue_>>
      BY <1>11 DEF SignalDispatch, ChannelError, ShutdownWatch, ShutDown, SendTimeout,
         unchangedByIo
    <2> QED
      BY <2>1, JourneyKept
  <1>12. ASSUME NEW s \in Sides, Die(s)
         PROVE  Journey'
    <2>1. /\ UNCHANGED sent
          /\ stack' = [stack EXCEPT ![s] = <<>>] /\ place' = [place EXCEPT ![s] = "loop"]
          /\ message_queue_' = [message_queue_ EXCEPT ![s] = <<>>]
          /\ received_replies_' = [received_replies_ EXCEPT ![s] = {}]
          /\ io_tasks' = [io_tasks EXCEPT ![s] = <<>>] /\ wire' = [wire EXCEPT ![s] = <<>>]
      BY <1>12 DEF Die
    <2>2. ToSet(<<>>) = {}
      BY DEF ToSet
    <2>3. /\ stack'[s] = <<>> /\ place'[s] = "loop" /\ message_queue_'[s] = <<>>
          /\ received_replies_'[s] = {} /\ io_tasks'[s] = <<>> /\ wire'[s] = <<>>
      BY <1>a, <2>1
    <2>4. \A r \in Sides \ {s} :
            /\ stack'[r] = stack[r] /\ place'[r] = place[r]
            /\ message_queue_'[r] = message_queue_[r]
            /\ received_replies_'[r] = received_replies_[r] /\ io_tasks'[r] = io_tasks[r]
            /\ wire'[r] = wire[r]
      BY <1>a, <2>1
    <2> QED
      BY <2>1, <2>2, <2>3, <2>4, JourneyKept
  <1>13. CASE UNCHANGED vars
    BY <1>13, JourneyKept DEF vars
  <1> QED
    BY <1>1, <1>2, <1>3, <1>4, <1>5, <1>6, <1>7, <1>8, <1>9, <1>10, <1>11, <1>12, <1>13
       DEF Next, Listener, IoTask, Io
-----------------------------------------------------------------------------
(***************************************************************************)
(* Wake-ups: whatever a sleeping listener thread waits for, somebody is    *)
(* about to tell it.                                                       *)
(***************************************************************************)

\* Calls that nobody is dispatching are announced,
WakesForCalls(s) ==
  place[s] \in {"loop", "wait"} /\ message_queue_[s] # <<>> =>
    dispatch_event_[s] \/ queueing[s] # "no"

\* the innermost reply, if it is there, will be looked for,
WakesForReplies(s) ==
  deserializers_[s] # <<>> /\ ~InnerSend(s).signalled
    /\ InnerSend(s).call \in received_replies_[s] => Replies \in ToSet(io_tasks[s])

\* and a call on a broken pipe is yet to be sent, which will fail.
WakesForErrors(s) ==
  broken[s] => \A j \in DOMAIN deserializers_[s] :
    ~deserializers_[s][j].signalled =>
      Frame("call", deserializers_[s][j].call) \in ToSet(io_tasks[s])

Wakes == \A s \in Sides : WakesForCalls(s) /\ WakesForReplies(s) /\ WakesForErrors(s)

\* Initially nobody waits.
LEMMA WakesInit == Init => Wakes
  BY DEF Init, Wakes, WakesForCalls, WakesForReplies, WakesForErrors

\* The event is set by whoever queues a call and reset only to dispatch.
LEMMA WakesForCallsStep ==
  Types /\ [Next]_vars /\ (\A s \in Sides : WakesForCalls(s)) =>
    \A s \in Sides : WakesForCalls(s)'
  <1> SUFFICES ASSUME Types, [Next]_vars, \A s \in Sides : WakesForCalls(s),
                      NEW r \in Sides
               PROVE  WakesForCalls(r)'
    OBVIOUS
  <1> USE DEF queueVars, ioVars, shutdownVars, historyVars, listenerVars, At, Goto
  <1>a. /\ place \in [Sides -> {"loop", "code", "push", "scan", "wait"}]
        /\ message_queue_ \in [Sides -> Seq(Calls)]
        /\ dispatch_event_ \in [Sides -> BOOLEAN]
        /\ queueing \in [Sides -> {"no", "signal", "signal and post"}]
    BY DEF Types, ListenerTypes, IoTypes, QueueTypes
  <1>1. ASSUME NEW s \in Sides,
               \/ \E c \in Calls : Send(s, c) \/ SendTimeout(s, c)
               \/ SendPush(s) \/ Reply(s) \/ WaitDone(s)
        PROVE  WakesForCalls(r)'
    <2>1. /\ UNCHANGED <<message_queue_, dispatch_event_, queueing>>
          /\ \/ UNCHANGED place
             \/ \E p \in {"push", "scan", "code"} : place' = [place EXCEPT ![s] = p]
             \/ place[s] = "wait" /\ place' = [place EXCEPT ![s] = "loop"]
      BY <1>1 DEF Send, SendTimeout, SendPush, Reply, WaitDone, Under, unchangedByIo
    <2> QED
      BY <1>a, <2>1 DEF WakesForCalls
  <1>2. ASSUME NEW s \in Sides, Dispatch(s)
        PROVE  WakesForCalls(r)'
    <2>1. /\ UNCHANGED <<dispatch_event_, queueing>> /\ place' = [place EXCEPT ![s] = "code"]
          /\ message_queue_' = [message_queue_ EXCEPT ![s] = Tail(@)]
      BY <1>2 DEF Dispatch, unchangedByScan, Pop
    <2> QED
      BY <1>a, <2>1 DEF WakesForCalls
  <1>3. ASSUME NEW s \in Sides, DispatchEnd(s)
        PROVE  WakesForCalls(r)'
    <2>1. /\ UNCHANGED <<message_queue_, dispatch_event_, queueing>>
          /\ message_queue_[s] = <<>>
          /\ \A q \in Sides \ {s} : place'[q] = place[q]
      BY <1>3, <1>a DEF DispatchEnd, unchangedByScan
    <2> QED
      BY <1>a, <2>1 DEF WakesForCalls
  <1>4. ASSUME NEW s \in Sides, WaitDispatch(s) \/ LoopDispatch(s)
        PROVE  WakesForCalls(r)'
    <2>1. /\ UNCHANGED <<message_queue_, queueing>> /\ place' = [place EXCEPT ![s] = "scan"]
          /\ \A q \in Sides \ {s} : dispatch_event_'[q] = dispatch_event_[q]
      BY <1>4, <1>a DEF WaitDispatch, LoopDispatch
    <2> QED
      BY <1>a, <2>1 DEF WakesForCalls
  <1>5. ASSUME NEW s \in Sides, ReceiveCall(s)
        PROVE  WakesForCalls(r)'
    <2>1. /\ UNCHANGED <<place, dispatch_event_>> /\ queueing'[s] # "no"
          /\ \A q \in Sides \ {s} : /\ queueing'[q] = queueing[q]
                                    /\ message_queue_'[q] = message_queue_[q]
      BY <1>5, <1>a DEF ReceiveCall, unchangedByIo, Push
    <2> QED
      BY <1>a, <2>1 DEF WakesForCalls
  <1>6. ASSUME NEW s \in Sides, SignalDispatch(s)
        PROVE  WakesForCalls(r)'
    <2>1. /\ UNCHANGED <<place, message_queue_>> /\ dispatch_event_'[s]
          /\ \A q \in Sides \ {s} : /\ queueing'[q] = queueing[q]
                                    /\ dispatch_event_'[q] = dispatch_event_[q]
      BY <1>6, <1>a DEF SignalDispatch, unchangedByIo, EachSignals
    <2> QED
      BY <1>a, <2>1 DEF WakesForCalls
  <1>7. ASSUME NEW s \in Sides, Die(s)
        PROVE  WakesForCalls(r)'
    <2>1. /\ message_queue_'[s] = <<>>
          /\ \A q \in Sides \ {s} : /\ queueing'[q] = queueing[q]
                                    /\ dispatch_event_'[q] = dispatch_event_[q]
                                    /\ place'[q] = place[q]
                                    /\ message_queue_'[q] = message_queue_[q]
      BY <1>7, <1>a DEF Die
    <2> QED
      BY <1>a, <2>1 DEF WakesForCalls
  <1>8. ASSUME NEW s \in Sides, \/ IoTask(s) \/ ReceiveReply(s) \/ ChannelError(s)
                                \/ ShutdownWatch(s) \/ ShutDown(s)
        PROVE  WakesForCalls(r)'
    <2>1. UNCHANGED <<message_queue_, dispatch_event_, queueing, place>>
      BY <1>8 DEF IoTask, OnSendMessage, DispatchReplies, ReceiveReply, ChannelError,
         ShutdownWatch, ShutDown, unchangedByIo
    <2> QED
      BY <2>1 DEF WakesForCalls
  <1>9. CASE UNCHANGED vars
    BY <1>9 DEF vars, WakesForCalls
  <1> QED
    BY <1>1, <1>2, <1>3, <1>4, <1>5, <1>6, <1>7, <1>8, <1>9 DEF Next, Listener, Io

\* Steps that only signal pending sends, or that leave them alone.
LEMMA WakesKept ==
  ASSUME NEW r \in Sides, deserializers_[r] \in Seq(Pending), deserializers_'[r] \in Seq(Pending),
         WakesForReplies(r), WakesForErrors(r), broken'[r] => broken[r],
         \/ deserializers_'[r] = <<>>
         \/ /\ DOMAIN deserializers_'[r] = DOMAIN deserializers_[r]
            /\ \A j \in DOMAIN deserializers_[r] :
                 /\ deserializers_'[r][j].call = deserializers_[r][j].call
                 /\ deserializers_[r][j].signalled => deserializers_'[r][j].signalled
            /\ received_replies_'[r] \subseteq received_replies_[r]
            /\ ToSet(io_tasks[r]) \subseteq ToSet(io_tasks'[r])
  PROVE  WakesForReplies(r)' /\ WakesForErrors(r)'
  <1>1. CASE deserializers_'[r] = <<>>
    BY <1>1 DEF WakesForReplies, WakesForErrors
  <1>2. CASE deserializers_'[r] # <<>>
    <2>1. /\ Len(deserializers_'[r]) = Len(deserializers_[r]) /\ deserializers_[r] # <<>>
          /\ Len(deserializers_[r]) \in DOMAIN deserializers_[r]
      BY <1>2, EmptySeq, LenProperties
    <2>2. /\ InnerSend(r)'.call = InnerSend(r).call
          /\ InnerSend(r).signalled => InnerSend(r)'.signalled
      BY <1>2, <2>1 DEF InnerSend, Last
    <2> QED
      BY <1>2, <2>1, <2>2 DEF WakesForReplies, WakesForErrors
  <1> QED
    BY <1>1, <1>2

\* When all pending sends are signalled there is nothing to wake for.
LEMMA WakesIfSignalled ==
  ASSUME NEW r \in Sides, deserializers_'[r] \in Seq(Pending),
         \A j \in DOMAIN deserializers_'[r] : deserializers_'[r][j].signalled
  PROVE  WakesForReplies(r)' /\ WakesForErrors(r)'
  <1>1. WakesForErrors(r)'
    BY DEF WakesForErrors
  <1>2. CASE deserializers_'[r] = <<>>
    BY <1>1, <1>2 DEF WakesForReplies
  <1>3. CASE deserializers_'[r] # <<>>
    <2>1. Len(deserializers_'[r]) \in DOMAIN deserializers_'[r]
      BY <1>3, EmptySeq, LenProperties
    <2>2. InnerSend(r)'.signalled
      BY <2>1 DEF InnerSend, Last
    <2> QED
      BY <1>1, <2>2 DEF WakesForReplies
  <1> QED
    BY <1>1, <1>2, <1>3

\* Every step keeps what wakes those that wait.
LEMMA WakesStep ==
  Types /\ Types' /\ Framed /\ Journey /\ Wakes /\ [Next]_vars => Wakes'
  <1> SUFFICES ASSUME Types, Types', Framed, Journey, Wakes, [Next]_vars, NEW r \in Sides
               PROVE  WakesForReplies(r)' /\ WakesForErrors(r)'
    BY WakesForCallsStep DEF Wakes
  <1> USE DEF queueVars, ioVars, shutdownVars, historyVars, listenerVars
  <1>a. /\ stack \in [Sides -> Seq(Frames)] /\ deserializers_ \in [Sides -> Seq(Pending)]
        /\ io_tasks \in [Sides -> Seq(Messages \cup {Replies})]
        /\ received_replies_ \in [Sides -> SUBSET Calls]
        /\ broken \in [Sides -> BOOLEAN]
    BY DEF Types, ListenerTypes, IoTypes, WorldTypes, QueueTypes
  <1>b. /\ deserializers_[r] \in Seq(Pending) /\ deserializers_'[r] \in Seq(Pending)
        /\ WakesForReplies(r) /\ WakesForErrors(r)
    BY <1>a DEF Types, ListenerTypes, Wakes
  <1>1. ASSUME UNCHANGED <<deserializers_, received_replies_, broken>>,
               ToSet(io_tasks[r]) \subseteq ToSet(io_tasks'[r])
        PROVE  WakesForReplies(r)' /\ WakesForErrors(r)'
    BY <1>b, <1>1, WakesKept
  <1>2. ASSUME NEW s \in Sides,
               \/ \E c \in Calls : Send(s, c)
               \/ Dispatch(s) \/ DispatchEnd(s) \/ WaitDispatch(s) \/ LoopDispatch(s)
               \/ ReceiveCall(s) \/ SignalDispatch(s) \/ ShutDown(s)
        PROVE  WakesForReplies(r)' /\ WakesForErrors(r)'
    <2>1. UNCHANGED <<deserializers_, received_replies_, broken, io_tasks>>
      BY <1>2 DEF Send, Dispatch, DispatchEnd, WaitDispatch, LoopDispatch, ReceiveCall,
         SignalDispatch, ShutDown, unchangedByScan, unchangedByIo
    <2> QED
      BY <1>1, <2>1
  <1>3. ASSUME NEW s \in Sides, Reply(s)
        PROVE  WakesForReplies(r)' /\ WakesForErrors(r)'
    <2> DEFINE c == Last(stack[s]).call
    <2>1. /\ UNCHANGED <<deserializers_, received_replies_, broken>> /\ place[s] = "code"
          /\ io_tasks' = Push(io_tasks, s, Frame("reply", c))
      BY <1>3 DEF Reply, At
    <2>2. Frame("reply", c) \in Messages \cup {Replies}
      <3>1. stack[s] \in Seq(Frames) /\ stack[s] # <<>>
        BY <1>a, <2>1 DEF Framed, Innermost
      <3>2. Last(stack[s]) \in Frames
        BY <3>1, FrontLast
      <3> QED
        BY <3>2 DEF Frames, Frame, Messages
    <2>3. ToSet(io_tasks[r]) \subseteq ToSet(io_tasks'[r])
      BY <1>a, <2>1, <2>2, IoPush
    <2> QED
      BY <1>1, <2>1, <2>3
  <1>4. ASSUME NEW s \in Sides, SendPush(s)
        PROVE  WakesForReplies(r)' /\ WakesForErrors(r)'
    <2> DEFINE c == Last(stack[s]).call
               p == [call |-> c, signalled |-> FALSE, send_result |-> FALSE]
    <2>1. /\ UNCHANGED <<received_replies_, broken>> /\ place[s] = "push"
          /\ deserializers_' = Push(deserializers_, s, p)
          /\ io_tasks' = Push(io_tasks, s, Frame("call", c))
      BY <1>4 DEF SendPush, At
    <2>2. c \in Calls
      <3>1. stack[s] \in Seq(Frames) /\ stack[s] # <<>>
        BY <1>a, <2>1 DEF Framed, Innermost
      <3>2. Last(stack[s]) \in Frames
        BY <3>1, FrontLast
      <3> QED
        BY <3>2 DEF Frames
    <2>3. Frame("call", c) \in Messages \cup {Replies} /\ p \in Pending /\ p.call = c
      BY <2>2 DEF Frame, Messages, Pending
    <2>4. ToSet(io_tasks[r]) \subseteq ToSet(io_tasks'[r]) /\ Frame("call", c) \in ToSet(io_tasks'[s])
      BY <1>a, <2>1, <2>3, IoPush
    <2>5. c \notin received_replies_[s]
      <3>1. Unpushed(s, c)
        BY <2>1 DEF Unpushed
      <3>2. SenderOf[c] = s /\ ~Travels(s, c)
        BY <2>2, <3>1 DEF Journey
      <3> QED
        BY <3>2 DEF Travels
    <2> HIDE DEF p, c
    <2>6. CASE r = s
      <3> DEFINE d == deserializers_[s]
      <3>1. deserializers_'[s] = Append(d, p) /\ d \in Seq(Pending)
        BY <1>a, <2>1, PushAt
      <3>2. /\ DOMAIN Append(d, p) = 1 .. Len(d) + 1 /\ DOMAIN d = 1 .. Len(d)
            /\ \A i \in 1 .. Len(d) : Append(d, p)[i] = d[i]
            /\ Append(d, p)[Len(d) + 1] = p /\ Last(Append(d, p)) = p
            /\ Len(d) \in Nat
        BY <2>3, <3>1, AppendProperties, LenProperties, LastAppend
      <3>3. WakesForReplies(r)'
        <4>1. InnerSend(s)' = p
          BY <3>1, <3>2 DEF InnerSend
        <4> QED
          BY <2>1, <2>3, <2>5, <2>6, <4>1 DEF WakesForReplies
      <3>4. WakesForErrors(r)'
        <4>1. SUFFICES ASSUME broken[s], NEW j \in 1 .. Len(d) + 1, ~Append(d, p)[j].signalled
                       PROVE  Frame("call", Append(d, p)[j].call) \in ToSet(io_tasks'[s])
          BY <2>1, <2>6, <3>1, <3>2 DEF WakesForErrors
        <4>2. CASE j = Len(d) + 1
          BY <2>3, <2>4, <3>2, <4>2
        <4>3. CASE j \in 1 .. Len(d)
          BY <1>b, <2>4, <2>6, <3>2, <4>1, <4>3 DEF WakesForErrors
        <4> QED
          BY <3>2, <4>1, <4>2, <4>3
      <3> QED
        BY <3>3, <3>4
    <2>7. CASE r # s
      <3>1. deserializers_'[r] = deserializers_[r]
        BY <1>a, <2>1, <2>7, PushAt
      <3> QED
        BY <1>b, <2>1, <2>4, <3>1, WakesKept
    <2> QED
      BY <2>6, <2>7
  <1>5. ASSUME NEW s \in Sides, WaitDone(s)
        PROVE  WakesForReplies(r)' /\ WakesForErrors(r)'
    <2>1. /\ UNCHANGED <<received_replies_, broken>> /\ place[s] = "wait"
          /\ deserializers_' = [deserializers_ EXCEPT ![s] = Front(@)]
          /\ io_tasks' = Push(io_tasks, s, Replies)
      BY <1>5 DEF WaitDone, At, Popped, PopPosts
    <2>2. ToSet(io_tasks[r]) \subseteq ToSet(io_tasks'[r]) /\ Replies \in ToSet(io_tasks'[s])
      BY <1>a, <2>1, IoPush
    <2>3. CASE r = s
      <3>1. deserializers_[s] \in Seq(Pending) /\ deserializers_[s] # <<>>
        BY <2>1, WaitingSend
      <3>2. /\ DOMAIN deserializers_[s] = 1 .. Len(deserializers_[s])
            /\ Len(deserializers_[s]) \in Nat \ {0}
            /\ DOMAIN Front(deserializers_[s]) = 1 .. Len(deserializers_[s]) - 1
            /\ \A j \in 1 .. Len(deserializers_[s]) - 1 :
                 Front(deserializers_[s])[j] = deserializers_[s][j]
        BY <3>1, FrontLast, LenProperties
      <3>3. deserializers_'[s] = Front(deserializers_[s])
        BY <1>a, <2>1
      <3>4. WakesForReplies(r)'
        BY <2>2, <2>3 DEF WakesForReplies
      <3>5. WakesForErrors(r)'
        BY <1>b, <2>1, <2>2, <2>3, <3>2, <3>3, SMTT(30) DEF WakesForErrors
      <3> QED
        BY <3>4, <3>5
    <2>4. CASE r # s
      <3>1. deserializers_'[r] = deserializers_[r]
        BY <1>a, <2>1, <2>4
      <3> QED
        BY <1>b, <2>1, <2>2, <3>1, WakesKept
    <2> QED
      BY <2>3, <2>4
  <1>6. ASSUME NEW s \in Sides, NEW calls,
               deserializers_' = [deserializers_ EXCEPT ![s] = Signalled(@, calls)]
        PROVE  /\ DOMAIN deserializers_'[r] = DOMAIN deserializers_[r]
               /\ \A j \in DOMAIN deserializers_[r] :
                    /\ deserializers_'[r][j].call = deserializers_[r][j].call
                    /\ deserializers_[r][j].signalled => deserializers_'[r][j].signalled
                    /\ r = s /\ deserializers_[r][j].call \in calls =>
                         deserializers_'[r][j].signalled
    <2>1. CASE r = s
      <3>1. deserializers_'[r] = Signalled(deserializers_[r], calls)
        BY <1>a, <1>6, <2>1
      <3> QED
        BY <1>b, <2>1, <3>1, SignalledResults
    <2>2. CASE r # s
      BY <1>a, <1>6, <2>2
    <2> QED
      BY <2>1, <2>2
  <1>7. ASSUME NEW s \in Sides, ChannelError(s)
        PROVE  WakesForReplies(r)' /\ WakesForErrors(r)'
    <2>1. /\ UNCHANGED <<received_replies_, io_tasks>>
          /\ deserializers_' = [deserializers_ EXCEPT ![s] = Signalled(@, Calls)]
          /\ broken' = [broken EXCEPT ![s] = TRUE]
      BY <1>7 DEF ChannelError, OnChannelError, CancelPendingSends
    <2>2. \A j \in DOMAIN deserializers_[r] : deserializers_[r][j].call \in Calls
      <3>1. \A j \in DOMAIN deserializers_[r] : deserializers_[r][j] \in Pending
        BY <1>b, ElementOfSeq, LenProperties
      <3> QED
        BY <3>1 DEF Pending
    <2>3. CASE r = s
      <3>1. \A j \in DOMAIN deserializers_'[r] : deserializers_'[r][j].signalled
        BY <1>6, <2>1, <2>2, <2>3
      <3> QED
        BY <1>b, <3>1, WakesIfSignalled
    <2>4. CASE r # s
      <3>1. broken'[r] = broken[r] /\ deserializers_'[r] = deserializers_[r]
        BY <1>a, <2>1, <2>4
      <3> QED
        BY <1>b, <2>1, <3>1, WakesKept
    <2> QED
      BY <2>3, <2>4
  <1>8. ASSUME NEW s \in Sides, ShutdownWatch(s) \/ \E c \in Calls : SendTimeout(s, c)
        PROVE  WakesForReplies(r)' /\ WakesForErrors(r)'
    <2>1. /\ UNCHANGED <<received_replies_, io_tasks, broken>>
          /\ \E calls : deserializers_' = [deserializers_ EXCEPT ![s] = Signalled(@, calls)]
      BY <1>8 DEF ShutdownWatch, SendTimeout, CancelPendingSends
    <2>2. /\ DOMAIN deserializers_'[r] = DOMAIN deserializers_[r]
          /\ \A j \in DOMAIN deserializers_[r] :
               /\ deserializers_'[r][j].call = deserializers_[r][j].call
               /\ deserializers_[r][j].signalled => deserializers_'[r][j].signalled
      BY <1>6, <2>1
    <2> QED
      BY <1>b, <2>1, <2>2, WakesKept
  <1>9. ASSUME NEW s \in Sides, OnSendMessage(s)
        PROVE  WakesForReplies(r)' /\ WakesForErrors(r)'
    <2>1. /\ UNCHANGED <<received_replies_, broken>>
          /\ io_tasks' = Pop(io_tasks, s) /\ io_tasks[s] # <<>> /\ Head(io_tasks[s]) # Replies
          /\ \/ deserializers_' = [deserializers_ EXCEPT ![s] = Signalled(@, Calls)]
             \/ UNCHANGED deserializers_ /\ ~broken[s]
      BY <1>9 DEF OnSendMessage, OnChannelError, CancelPendingSends
    <2>2. /\ io_tasks'[s] = Tail(io_tasks[s])
          /\ \A q \in Sides \ {s} : io_tasks'[q] = io_tasks[q]
      BY <1>a, <2>1, PopAt
    <2>3. Replies \in ToSet(io_tasks[s]) => Replies \in ToSet(io_tasks'[s])
      <3>1. ToSet(io_tasks[s]) = {Head(io_tasks[s])} \cup ToSet(Tail(io_tasks[s]))
        <4>1. io_tasks[s] \in Seq(Messages \cup {Replies})
          BY <1>a
        <4> QED
          BY <2>1, <4>1, HeadTailSet
      <3> QED
        BY <2>1, <2>2, <3>1
    <2>4. CASE r = s /\ deserializers_' = [deserializers_ EXCEPT ![s] = Signalled(@, Calls)]
      <3>1. \A j \in DOMAIN deserializers_[r] : deserializers_[r][j] \in Pending
        BY <1>b, ElementOfSeq, LenProperties
      <3>2. \A j \in DOMAIN deserializers_'[r] : deserializers_'[r][j].signalled
        BY <1>6, <2>4, <3>1 DEF Pending
      <3> QED
        BY <1>b, <3>2, WakesIfSignalled
    <2>5. CASE r = s /\ UNCHANGED deserializers_ /\ ~broken[s]
      BY <1>b, <2>1, <2>3, <2>5 DEF WakesForReplies, WakesForErrors, InnerSend
    <2>6. CASE r # s
      <3>1. deserializers_'[r] = deserializers_[r]
        BY <1>a, <2>1, <2>6
      <3> QED
        BY <1>b, <2>1, <2>2, <2>6, <3>1, WakesKept
    <2> QED
      BY <2>1, <2>4, <2>5, <2>6
  <1>c. ASSUME NEW s \in Sides, deserializers_[s] # <<>>, Unblock(s)
        PROVE  /\ r # s => deserializers_'[r] = deserializers_[r]
               /\ r = s => /\ DOMAIN deserializers_'[s] = DOMAIN deserializers_[s]
                           /\ deserializers_'[s] # <<>> /\ InnerSend(s)'.signalled
                           /\ \A j \in DOMAIN deserializers_[s] :
                                /\ deserializers_'[s][j].call = deserializers_[s][j].call
                                /\ deserializers_[s][j].signalled =>
                                     deserializers_'[s][j].signalled
    <2> DEFINE d == deserializers_[s]
    <2>1. /\ deserializers_'[s] = Unblocked(d)
          /\ \A q \in Sides \ {s} : deserializers_'[q] = deserializers_[q]
      BY <1>a, <1>c DEF Unblock, Unblocked
    <2>2. /\ d \in Seq(Pending) /\ d # <<>> /\ DOMAIN d = 1 .. Len(d) /\ Len(d) \in Nat \ {0}
          /\ DOMAIN Unblocked(d) = 1 .. Len(d)
          /\ \A j \in 1 .. Len(d) - 1 : Unblocked(d)[j] = d[j]
      BY <1>a, <1>c, EmptySeq, LenProperties, UnblockedCalls
    <2>3. /\ Unblocked(d)[Len(d)].call = d[Len(d)].call /\ Unblocked(d)[Len(d)].signalled
          /\ Unblocked(d) # <<>> /\ Last(Unblocked(d)).signalled
      <3> DEFINE p == [Last(d) EXCEPT !.signalled = TRUE, !.send_result = TRUE]
      <3>1. /\ Last(d) \in Pending /\ Last(d) = d[Len(d)]
            /\ Front(d) \in Seq(Pending) /\ Len(Front(d)) = Len(d) - 1
        BY <2>2, FrontLast
      <3>2. p \in Pending /\ p.signalled /\ p.call = d[Len(d)].call
        BY <3>1 DEF Pending
      <3> HIDE DEF p
      <3>3. /\ Append(Front(d), p)[Len(d)] = p /\ Append(Front(d), p) # <<>>
            /\ Last(Append(Front(d), p)) = p
        BY <2>2, <3>1, <3>2, AppendProperties, LastAppend
      <3>4. Unblocked(d) = Append(Front(d), p)
        BY DEF Unblocked, p
      <3> QED
        BY <3>2, <3>3, <3>4
    <2>4. \A j \in 1 .. Len(d) : j = Len(d) \/ j \in 1 .. Len(d) - 1
      BY <2>2
    <2> HIDE DEF d
    <2>5. \A j \in DOMAIN d : /\ Unblocked(d)[j].call = d[j].call
                              /\ d[j].signalled => Unblocked(d)[j].signalled
      BY <2>2, <2>3, <2>4
    <2>6. InnerSend(s)' = Last(Unblocked(d))
      BY <2>1 DEF InnerSend
    <2> QED
      BY <2>1, <2>2, <2>3, <2>5, <2>6 DEF d
  <1>10. ASSUME NEW s \in Sides, DispatchReplies(s)
         PROVE  WakesForReplies(r)' /\ WakesForErrors(r)'
    <2>1. /\ UNCHANGED broken
          /\ io_tasks' = Pop(io_tasks, s) /\ io_tasks[s] # <<>> /\ Head(io_tasks[s]) = Replies
          /\ \A q \in Sides \ {s} : received_replies_'[q] = received_replies_[q]
          /\ \/ deserializers_[s] # <<>> /\ Unblock(s)
             \/ /\ UNCHANGED <<deserializers_, received_replies_>>
                /\ deserializers_[s] # <<>> => InnerSend(s).call \notin received_replies_[s]
      BY <1>10, <1>a DEF DispatchReplies, RepliesTo
    <2>2. /\ io_tasks'[s] = Tail(io_tasks[s])
          /\ \A q \in Sides \ {s} : io_tasks'[q] = io_tasks[q]
      BY <1>a, <2>1, PopAt
    <2>3. \A c \in Calls : Frame("call", c) \in ToSet(io_tasks[s]) =>
                             Frame("call", c) \in ToSet(io_tasks'[s])
      <3>1. ToSet(io_tasks[s]) = {Head(io_tasks[s])} \cup ToSet(Tail(io_tasks[s]))
        <4>1. io_tasks[s] \in Seq(Messages \cup {Replies})
          BY <1>a
        <4> QED
          BY <2>1, <4>1, HeadTailSet
      <3>2. \A c \in Calls : Frame("call", c) # Replies
        BY DEF Frame, Replies
      <3> QED
        BY <2>1, <2>2, <3>1, <3>2
    <2>4. \A j \in DOMAIN deserializers_[r] : deserializers_[r][j].call \in Calls
      <3>1. \A j \in DOMAIN deserializers_[r] : deserializers_[r][j] \in Pending
        BY <1>b, ElementOfSeq, LenProperties
      <3> QED
        BY <3>1 DEF Pending
    <2>5. CASE r = s /\ deserializers_[s] # <<>> /\ Unblock(s)
      <3>1. /\ DOMAIN deserializers_'[s] = DOMAIN deserializers_[s]
            /\ InnerSend(s)'.signalled
            /\ \A j \in DOMAIN deserializers_[s] :
                 /\ deserializers_'[s][j].call = deserializers_[s][j].call
                 /\ deserializers_[s][j].signalled => deserializers_'[s][j].signalled
        BY <1>c, <2>5
      <3>2. WakesForReplies(r)'
        BY <2>5, <3>1 DEF WakesForReplies
      <3>3. WakesForErrors(r)'
        BY <1>b, <2>1, <2>3, <2>4, <2>5, <3>1 DEF WakesForErrors
      <3> QED
        BY <3>2, <3>3
    <2>6. CASE r = s /\ UNCHANGED <<deserializers_, received_replies_>>
               /\ (deserializers_[s] # <<>> => InnerSend(s).call \notin received_replies_[s])
      <3>1. WakesForReplies(r)'
        BY <2>6 DEF WakesForReplies, InnerSend
      <3>2. WakesForErrors(r)'
        BY <1>b, <2>1, <2>3, <2>4, <2>6 DEF WakesForErrors
      <3> QED
        BY <3>1, <3>2
    <2>7. CASE r # s
      <3>1. deserializers_'[r] = deserializers_[r] /\ io_tasks'[r] = io_tasks[r]
        BY <1>a, <1>c, <2>1, <2>2, <2>7
      <3> QED
        BY <1>b, <2>1, <2>7, <3>1, WakesKept
    <2> QED
      BY <2>1, <2>5, <2>6, <2>7
  <1>11. ASSUME NEW s \in Sides, ReceiveReply(s)
         PROVE  WakesForReplies(r)' /\ WakesForErrors(r)'
    <2> DEFINE c == Head(wire[s]).call
    <2>1. /\ UNCHANGED <<broken, io_tasks>> /\ ~broken[s]
          /\ \/ UNCHANGED received_replies_ /\ deserializers_[s] # <<>> /\ Unblock(s)
             \/ /\ UNCHANGED deserializers_
                /\ deserializers_[s] # <<>> => InnerSend(s).call # c
                /\ received_replies_' = [received_replies_ EXCEPT ![s] = @ \cup {c}]
      BY <1>11 DEF ReceiveReply, RepliesTo, unchangedByIo
    <2> HIDE DEF c
    <2>2. CASE r = s /\ UNCHANGED received_replies_ /\ deserializers_[s] # <<>> /\ Unblock(s)
      <3>1. InnerSend(s)'.signalled
        BY <1>c, <2>2
      <3> QED
        BY <2>1, <2>2, <3>1 DEF WakesForReplies, WakesForErrors
    <2>3. CASE /\ r = s /\ UNCHANGED deserializers_
               /\ deserializers_[s] # <<>> => InnerSend(s).call # c
               /\ received_replies_' = [received_replies_ EXCEPT ![s] = @ \cup {c}]
      <3>1. received_replies_'[s] = received_replies_[s] \cup {c} /\ InnerSend(s)' = InnerSend(s)
        BY <1>a, <2>3 DEF InnerSend
      <3> QED
        BY <1>b, <2>1, <2>3, <3>1 DEF WakesForReplies, WakesForErrors
    <2>4. CASE r # s
      <3>1. deserializers_'[r] = deserializers_[r] /\ received_replies_'[r] = received_replies_[r]
        BY <1>a, <1>c, <2>1, <2>4
      <3> QED
        BY <1>b, <2>1, <3>1, WakesKept
    <2> QED
      BY <2>1, <2>2, <2>3, <2>4
  <1>12. ASSUME NEW s \in Sides, Die(s)
         PROVE  WakesForReplies(r)' /\ WakesForErrors(r)'
    <2>1. /\ UNCHANGED broken
          /\ deserializers_' = [deserializers_ EXCEPT ![s] = <<>>]
          /\ received_replies_' = [received_replies_ EXCEPT ![s] = {}]
          /\ io_tasks' = [io_tasks EXCEPT ![s] = <<>>]
      BY <1>12 DEF Die
    <2>2. \/ deserializers_'[r] = <<>>
          \/ /\ deserializers_'[r] = deserializers_[r] /\ io_tasks'[r] = io_tasks[r]
             /\ received_replies_'[r] = received_replies_[r]
      BY <1>a, <2>1
    <2> QED
      BY <1>b, <2>1, <2>2, WakesKept
  <1>13. CASE UNCHANGED vars
    BY <1>1, <1>13 DEF vars
  <1> QED
    BY <1>2, <1>3, <1>4, <1>5, <1>7, <1>8, <1>9, <1>10, <1>11, <1>12, <1>13
       DEF Next, Listener, IoTask, Io
-----------------------------------------------------------------------------
(***************************************************************************)
(* The theorems.                                                           *)
(***************************************************************************)

\* What every step keeps.
IInv == Types /\ Framed /\ Answered /\ Journey /\ Wakes

\* The inductive invariant holds in every state.
THEOREM Invariance == Spec => []IInv
  <1>1. Init => IInv
    BY TypesInit, AnsweredInit, JourneyInit, WakesInit DEF IInv
  <1>2. IInv /\ [Next]_vars => IInv'
    BY TypesStep, FramedStep, AnsweredStep, JourneyStep, WakesStep DEF IInv
  <1> QED
    BY <1>1, <1>2, PTL DEF Spec

\* Every variable keeps its type and the pending sends of a side, from
\* SyncContext::Push() to Pop(), are those of the frames on its stack.
THEOREM TypeCorrect == Spec => []TypeOK
  <1>1. IInv => TypeOK
    BY DEF IInv, Framed, TypeOK
  <1> QED
    BY <1>1, Invariance, PTL

\* A Send() returns the reply to its own call: TryToUnblockListener() and DispatchReplies()
\* may take replies in any order and at any depth of nesting.
THEOREM OwnReplies == Spec => []OwnReply
  <1>1. IInv => OwnReply
    BY DEF IInv, Answered, AnsweredAt, OwnReply
  <1> QED
    BY <1>1, Invariance, PTL

\* A listener thread that sleeps in WaitMany() has no call to dispatch, and neither a reply
\* nor an error for its innermost Send(), unless the IO thread is about to wake it.
THEOREM NoVainBlock == Spec => []NotBlockedInVain
  <1>1. IInv => NotBlockedInVain
    <2> SUFFICES ASSUME IInv, NEW s \in Sides,
                        At(s, "wait"), ~dispatch_event_[s], ~InnerSend(s).signalled
                 PROVE  /\ message_queue_[s] # <<>> => queueing[s] # "no"
                        /\ InnerSend(s).call \in received_replies_[s] =>
                             Replies \in ToSet(io_tasks[s])
                        /\ broken[s] => Frame("call", InnerSend(s).call) \in ToSet(io_tasks[s])
      BY DEF NotBlockedInVain
    <2>1. deserializers_[s] \in Seq(Pending) /\ deserializers_[s] # <<>>
      BY WaitingSend DEF IInv, At
    <2>2. /\ Len(deserializers_[s]) \in DOMAIN deserializers_[s]
          /\ InnerSend(s) = deserializers_[s][Len(deserializers_[s])]
      BY <2>1, EmptySeq, LenProperties DEF InnerSend, Last
    <2>3. WakesForCalls(s) /\ WakesForReplies(s) /\ WakesForErrors(s)
      BY DEF IInv, Wakes
    <2> QED
      BY <2>1, <2>2, <2>3 DEF WakesForCalls, WakesForReplies, WakesForErrors, At
  <1> QED
    BY <1>1, Invariance, PTL
=============================================================================
