---------------------------- MODULE QueueLemmas ----------------------------
(***************************************************************************)
(* Lemmas about the sequences of the models, which are queues, taken from  *)
(* at the head, and stacks, taken from at the end. Both grow by Append().  *)
(***************************************************************************)
EXTENDS Integers, Sequences, SequencesExt, SequenceTheorems, TLAPS

\* Front() and Last() undo Append().
LEMMA FrontLast ==
  ASSUME NEW S, NEW q \in Seq(S), q # <<>>
  PROVE  /\ Front(q) \in Seq(S) /\ Last(q) \in S
         /\ Len(q) \in Nat \ {0} /\ Len(Front(q)) = Len(q) - 1
         /\ \A i \in 1 .. Len(q) - 1 : Front(q)[i] = q[i]
         /\ q[Len(q)] = Last(q)
  <1>1. Len(q) \in Nat \ {0} /\ \A i \in 1 .. Len(q) : q[i] \in S
    BY EmptySeq, ElementOfSeq
  <1> DEFINE n == Len(q) - 1
  <1>2. n \in Nat /\ \A i \in 1 .. n : q[i] \in S
    BY <1>1
  <1>3. /\ SubSeq(q, 1, n) \in Seq(S)
        /\ Len(SubSeq(q, 1, n)) = IF 1 <= n THEN n - 1 + 1 ELSE 0
        /\ \A i \in 1 .. n - 1 + 1 : SubSeq(q, 1, n)[i] = q[1 + i - 1]
    <2> HIDE DEF n
    <2> QED
      BY <1>2, SubSeqProperties
  <1>4. Len(SubSeq(q, 1, n)) = n /\ \A i \in 1 .. n : SubSeq(q, 1, n)[i] = q[i]
    <2> HIDE DEF n
    <2> QED
      BY <1>2, <1>3
  <1>5. /\ Front(q) \in Seq(S) /\ Len(Front(q)) = Len(q) - 1
        /\ \A i \in 1 .. Len(q) - 1 : Front(q)[i] = q[i]
    BY <1>3, <1>4 DEF Front
  <1> QED
    BY <1>1, <1>5 DEF Last

\* What was pushed is the last element, and the others stay.
LEMMA LastAppend ==
  ASSUME NEW S, NEW q \in Seq(S), NEW x \in S
  PROVE  /\ Last(Append(q, x)) = x
         /\ Append(q, x) # <<>>
         /\ ToSet(Append(q, x)) = ToSet(q) \cup {x}
  <1>1. Len(Append(q, x)) = Len(q) + 1 /\ Len(q) \in Nat
    BY AppendProperties, LenProperties
  <1>2. Last(Append(q, x)) = x
    BY <1>1, AppendProperties DEF Last
  <1>3. DOMAIN Append(q, x) = 1 .. Len(q) + 1 /\ DOMAIN q = 1 .. Len(q)
    BY <1>1, AppendProperties, LenProperties
  <1>4. ToSet(Append(q, x)) = ToSet(q) \cup {x}
    BY <1>1, <1>3, AppendProperties DEF ToSet
  <1> QED
    BY <1>2, <1>4, AppendProperties

\* A queue is its first element and the rest.
LEMMA HeadTailSet ==
  ASSUME NEW S, NEW q \in Seq(S), q # <<>>
  PROVE  /\ Head(q) \in S /\ Tail(q) \in Seq(S)
         /\ Head(q) \in ToSet(q)
         /\ ToSet(q) = {Head(q)} \cup ToSet(Tail(q))
  <1>1. /\ Len(q) \in Nat \ {0} /\ DOMAIN q = 1 .. Len(q)
        /\ Tail(q) \in Seq(S) /\ DOMAIN Tail(q) = 1 .. Len(q) - 1
        /\ \A i \in 1 .. Len(q) - 1 : Tail(q)[i] = q[i + 1]
        /\ Head(q) = q[1] /\ Head(q) \in S
    BY EmptySeq, HeadTailProperties, LenProperties
  <1>2. ASSUME NEW i \in DOMAIN q
        PROVE  q[i] \in {q[1]} \cup ToSet(Tail(q))
    <2>1. i = 1 \/ (i - 1 \in DOMAIN Tail(q) /\ q[i] = Tail(q)[i - 1])
      BY <1>1
    <2> QED
      BY <2>1 DEF ToSet
  <1> QED
    BY <1>1, <1>2, SMTT(30) DEF ToSet

\* The frames below the last one are a part of the stack.
LEMMA FrontSet ==
  ASSUME NEW S, NEW q \in Seq(S), q # <<>>
  PROVE  ToSet(Front(q)) \subseteq ToSet(q) /\ Last(q) \in ToSet(q)
  <1>1. DOMAIN Front(q) = 1 .. Len(q) - 1 /\ DOMAIN q = 1 .. Len(q)
    BY FrontLast, LenProperties
  <1> QED
    BY <1>1, FrontLast, SMTT(30) DEF ToSet

\* One queue after another holds what both hold.
LEMMA ConcatSet ==
  ASSUME NEW S, NEW q \in Seq(S), NEW u \in Seq(S)
  PROVE  /\ q \o u \in Seq(S)
         /\ ToSet(q \o u) = ToSet(q) \cup ToSet(u)
  <1>1. /\ Len(q) \in Nat /\ Len(u) \in Nat /\ Len(q \o u) = Len(q) + Len(u)
        /\ \A i \in 1 .. Len(q) + Len(u) :
             (q \o u)[i] = IF i <= Len(q) THEN q[i] ELSE u[i - Len(q)]
        /\ q \o u \in Seq(S)
    BY ConcatProperties, LenProperties
  <1>2. /\ DOMAIN (q \o u) = 1 .. Len(q) + Len(u)
        /\ DOMAIN q = 1 .. Len(q) /\ DOMAIN u = 1 .. Len(u)
    BY <1>1, LenProperties
  <1>3. ASSUME NEW i \in 1 .. Len(q) + Len(u)
        PROVE  (q \o u)[i] \in ToSet(q) \cup ToSet(u)
    <2>1. CASE i <= Len(q)
      BY <1>1, <1>2, <2>1 DEF ToSet
    <2>2. CASE i > Len(q)
      <3>1. i - Len(q) \in DOMAIN u /\ (q \o u)[i] = u[i - Len(q)]
        BY <1>1, <1>2, <2>2
      <3> QED
        BY <3>1 DEF ToSet
    <2> QED
      BY <1>1, <2>1, <2>2
  <1>4. ASSUME NEW i \in DOMAIN q
        PROVE  q[i] \in ToSet(q \o u)
    BY <1>1, <1>2 DEF ToSet
  <1>5. ASSUME NEW i \in DOMAIN u
        PROVE  u[i] \in ToSet(q \o u)
    <2>1. /\ i + Len(q) \in DOMAIN (q \o u) /\ i + Len(q) - Len(q) = i
          /\ ~(i + Len(q) <= Len(q))
      BY <1>1, <1>2
    <2>2. (q \o u)[i + Len(q)] = u[i]
      BY <1>1, <1>2, <2>1
    <2> QED
      BY <2>1, <2>2 DEF ToSet
  <1> QED
    BY <1>1, <1>2, <1>3, <1>4, <1>5 DEF ToSet

\* What is appended to the second of two queues is appended to both.
LEMMA ConcatAppend ==
  ASSUME NEW S, NEW q \in Seq(S), NEW u \in Seq(S), NEW x \in S
  PROVE  q \o Append(u, x) = Append(q \o u, x)
  <1>1. <<x>> \in Seq(S) /\ q \o u \in Seq(S)
    BY ConcatProperties
  <1>2. Append(u, x) = u \o <<x>> /\ Append(q \o u, x) = (q \o u) \o <<x>>
    BY <1>1, AppendIsConcat
  <1> QED
    BY <1>1, <1>2, ConcatAssociative

\* What moves from the second queue to the first leaves both in one row.
LEMMA ConcatMove ==
  ASSUME NEW S, NEW q \in Seq(S), NEW u \in Seq(S), u # <<>>
  PROVE  Append(q, Head(u)) \o Tail(u) = q \o u
  <1> DEFINE h == Head(u)
             t == Tail(u)
  <1>1. /\ h \in S /\ t \in Seq(S) /\ h = u[1] /\ Len(u) \in Nat \ {0}
        /\ t = SubSeq(u, 2, Len(u)) /\ SubSeq(u, 1, Len(u)) = u
    BY EmptySeq, HeadTailProperties, TailIsSubSeq, SubSeqFull
  <1>2. <<h>> \o t = u
    <2>1. 1 \in 1 .. Len(u) /\ Len(u) \in 1 .. Len(u) /\ 1 + 1 = 2
      BY <1>1
    <2>2. SubSeq(u, 1, Len(u)) = <<u[1]>> \o SubSeq(u, 1 + 1, Len(u))
      BY <2>1, SubSeqRecursiveFirst
    <2> QED
      BY <1>1, <2>1, <2>2
  <1>3. <<h>> \in Seq(S)
    BY <1>1
  <1> HIDE DEF h, t
  <1>4. Append(q, h) = q \o <<h>>
    BY <1>1, AppendIsConcat
  <1>5. (q \o <<h>>) \o t = q \o (<<h>> \o t)
    <2>1. \A a, b, c \in Seq(S) : (a \o b) \o c = a \o (b \o c)
      BY ConcatAssociative, SMTT(30)
    <2> QED
      BY <1>1, <1>3, <2>1, ZenonT(30)
  <1>6. Append(q, h) \o t = q \o u
    BY <1>2, <1>4, <1>5
  <1> QED
    BY <1>6 DEF h, t
=============================================================================
