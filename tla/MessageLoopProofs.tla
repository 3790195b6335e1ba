-------------------------- MODULE MessageLoopProofs --------------------------
(***************************************************************************)
(* Proofs about one thread's message loop.                                 *)
(***************************************************************************)
EXTENDS MessageLoop, FiniteSetTheorems, WellFoundedInduction, QueueLemmas, TLAPS

-----------------------------------------------------------------------------
\* Sequence numbers that roll over.

Half == SeqModulus \div 2

\* n and i differ by a multiple of the number of sequence numbers.
Congruent(n, i) == \E k \in Int : n = i + k * SeqModulus

\* The modulus is twice a positive number.
LEMMA HalfIs == Half \in Nat /\ Half > 0 /\ SeqModulus = 2 * Half
BY NumberAssumption DEF Half

\* Rolling over yields a sequence number that is congruent to what was rolled.
LEMMA WrapCongruent ==
  ASSUME NEW n \in Int
  PROVE  Wrap(n) \in SequenceNumbers /\ Congruent(Wrap(n), n)
<1> DEFINE m == n + Half
<1>1. /\ m \in Int /\ m % SeqModulus \in 0 .. SeqModulus - 1
      /\ m = SeqModulus * (m \div SeqModulus) + (m % SeqModulus)
      /\ m \div SeqModulus \in Int
  BY HalfIs, NumberAssumption
<1>2. Wrap(n) = (m % SeqModulus) - Half
  BY DEF Wrap, Half
<1>3. Wrap(n) \in -Half .. Half - 1
  BY <1>1, <1>2, HalfIs
<1>4. PICK q \in Int : m = SeqModulus * q + (m % SeqModulus)
  BY <1>1
<1>5. Wrap(n) = n + (-q) * SeqModulus
  <2>1. (-q) * SeqModulus = -(SeqModulus * q) /\ SeqModulus * q \in Int
    BY <1>4, NumberAssumption
  <2>2. m = n + Half
    OBVIOUS
  <2> HIDE DEF m
  <2> QED
    BY <1>1, <1>2, <1>4, <2>1, <2>2, HalfIs
<1>6. Congruent(Wrap(n), n)
  BY <1>5 DEF Congruent
<1> QED
  BY <1>3, <1>6 DEF SequenceNumbers, Half

\* Two congruent numbers that are nearer than the modulus are equal.
LEMMA CongruentEqual ==
  ASSUME NEW n \in Int, NEW i \in Int, Congruent(n, i),
         n - i < SeqModulus, i - n < SeqModulus
  PROVE  n = i
<1>1. PICK k \in Int : n = i + k * SeqModulus
  BY DEF Congruent
<1>2. SeqModulus \in Nat /\ SeqModulus > 0
  BY NumberAssumption
<1>3. k * SeqModulus < SeqModulus /\ (-k) * SeqModulus < SeqModulus
  BY <1>1, <1>2
<1>4. ASSUME NEW j \in Int, j >= 1
      PROVE  j * SeqModulus >= SeqModulus
  BY <1>2, <1>4
<1>5. ~ (k >= 1) /\ ~ (-k >= 1)
  BY <1>3, <1>4, <1>2
<1>6. k = 0
  BY <1>5
<1> QED
  BY <1>1, <1>2, <1>6

\* Congruence is a congruence.
LEMMA CongruentSum ==
  ASSUME NEW m \in Int, NEW n \in Int, NEW i \in Int, NEW j \in Int,
         Congruent(m, i), Congruent(n, j)
  PROVE  Congruent(m + n, i + j) /\ Congruent(m - n, i - j)
<1>1. PICK k \in Int : m = i + k * SeqModulus
  BY DEF Congruent
<1>2. PICK h \in Int : n = j + h * SeqModulus
  BY DEF Congruent
<1>3. SeqModulus \in Nat
  BY NumberAssumption
<1>4. /\ m + n = (i + j) + (k + h) * SeqModulus
      /\ m - n = (i - j) + (k - h) * SeqModulus
  BY <1>1, <1>2, <1>3
<1> QED
  BY <1>4 DEF Congruent

\* Congruence is transitive.
LEMMA CongruentTransitive ==
  ASSUME NEW m \in Int, NEW n \in Int, NEW i \in Int,
         Congruent(m, n), Congruent(n, i)
  PROVE  Congruent(m, i)
<1>1. PICK k \in Int : m = n + k * SeqModulus
  BY DEF Congruent
<1>2. PICK h \in Int : n = i + h * SeqModulus
  BY DEF Congruent
<1>3. m = i + (k + h) * SeqModulus
  BY <1>1, <1>2, NumberAssumption
<1> QED
  BY <1>3 DEF Congruent

\* A difference that is nearer than half of the modulus keeps its sign.
LEMMA WrapSign ==
  ASSUME NEW n \in Int, NEW d \in Int, Congruent(n, d), -Half < d, d < Half
  PROVE  Wrap(n) = d
<1>1. Wrap(n) \in -Half .. Half - 1 /\ Congruent(Wrap(n), n)
  BY WrapCongruent DEF SequenceNumbers, Half
<1>2. Wrap(n) \in Int
  BY <1>1, HalfIs
<1>3. Congruent(Wrap(n), d)
  BY <1>1, <1>2, CongruentTransitive
<1> QED
  BY <1>1, <1>2, <1>3, HalfIs, CongruentEqual
-----------------------------------------------------------------------------
\* The first of the delayed tasks.

\* A finite set that a relation orders strictly and totally has a first element.
LEMMA FirstExists ==
  ASSUME NEW Q, IsFiniteSet(Q), Q # {}, NEW R,
         \A t \in Q : <<t, t>> \notin R,
         \A t, u, v \in Q : <<t, u>> \in R /\ <<u, v>> \in R => <<t, v>> \in R,
         \A t, u \in Q : t # u => <<t, u>> \in R \/ <<u, t>> \in R
  PROVE  \E t \in Q : \A u \in Q \ {t} : <<t, u>> \in R
<1> DEFINE Down(t) == {u \in Q : <<u, t>> \in R}
           Downs == {Down(t) : t \in Q}
<1>1. \A t \in Q : Down(t) \in FiniteSubsetsOf(Q)
  BY FS_Subset DEF FiniteSubsetsOf
<1>2. Downs \subseteq FiniteSubsetsOf(Q) /\ Downs # {}
  <2> HIDE DEF Down
  <2> QED
    BY <1>1
<1>3. IsWellFoundedOn(StrictSubsetOrdering(Q), FiniteSubsetsOf(Q))
  BY FS_StrictSubsetOrderingWellFounded
<1>4. \E D \in Downs : \A E \in Downs : ~ (<<E, D>> \in StrictSubsetOrdering(Q))
  <2> HIDE DEF Downs
  <2> QED
    BY <1>2, <1>3, WFMin
<1>5. PICK t \in Q : \A u \in Q : ~ (<<Down(u), Down(t)>> \in StrictSubsetOrdering(Q))
  <2> HIDE DEF Down
  <2> QED
    BY <1>4
<1>6. ASSUME NEW u \in Q, <<u, t>> \in R
      PROVE  FALSE
  <2>1. Down(u) \subseteq Down(t)
    BY <1>6
  <2>2. u \in Down(t) /\ u \notin Down(u)
    BY <1>6
  <2>3. Down(u) \in SUBSET Q /\ Down(t) \in SUBSET Q
    OBVIOUS
  <2> HIDE DEF Down
  <2>4. <<Down(u), Down(t)>> \in StrictSubsetOrdering(Q)
    BY <2>1, <2>2, <2>3 DEF StrictSubsetOrdering
  <2> QED
    BY <2>4, <1>5
<1> QED
  BY <1>6

\* The tasks that were accepted are numbered in their order, modulo the number of
\* sequence numbers.
Ranked ==
  /\ \A t \in Known : t \notin prior[t] /\ prior[t] \subseteq Known
  /\ \A t, u \in Known : t = u \/ t \in prior[u] \/ u \in prior[t]
  /\ \A t, u \in Known : t \in prior[u] => prior[t] \subseteq prior[u]

Numbered ==
  \A t \in Known :
    Congruent(next_sequence_num_ - sequence_num[t],
              Cardinality(Known) - Cardinality(prior[t]))

Ordered == Ranked /\ Numbered

\* Of two accepted tasks, the one that was posted first has the lower number.
LEMMA LowerFirst ==
  ASSUME PostTypes, Ordered,
         NEW t \in Known, NEW u \in Known, t \in prior[u]
  PROVE  /\ Wrap(sequence_num[u] - sequence_num[t]) > 0
         /\ ~ (Wrap(sequence_num[t] - sequence_num[u]) > 0)
<1> DEFINE ct == Cardinality(prior[t])
           cu == Cardinality(prior[u])
           ck == Cardinality(Known)
           d  == cu - ct
<1>1. t \in Tasks /\ u \in Tasks
  BY DEF Known
<1>2. prior[t] \in SUBSET prior[u] /\ prior[t] # prior[u]
  BY DEF Ordered, Ranked
<1>3. prior[u] \in SUBSET Tasks /\ Known \in SUBSET Tasks
  BY <1>1 DEF PostTypes, Known
<1>4. u \notin prior[u] /\ prior[u] # Tasks
  BY <1>1 DEF Ordered, Ranked
<1>5. IsFiniteSet(prior[u]) /\ IsFiniteSet(prior[t]) /\ IsFiniteSet(Known)
  BY <1>2, <1>3, PendingAssumption, FS_Subset
<1>6. ct \in Nat /\ cu \in Nat /\ ck \in Nat /\ Cardinality(Tasks) \in Nat
  BY <1>5, PendingAssumption, FS_CardinalityType
<1>7. ct < cu
  BY <1>2, <1>5, <1>6, FS_Subset
<1>8. cu < Cardinality(Tasks)
  BY <1>3, <1>4, <1>6, PendingAssumption, FS_Subset
<1>9. Cardinality(Tasks) <= Half
  BY <1>6, HalfIs, PendingAssumption
<1>10. d \in Int /\ 0 < d /\ d < Half
  BY <1>6, <1>7, <1>8, <1>9, HalfIs
<1> DEFINE st == sequence_num[t]
           su == sequence_num[u]
           nx == next_sequence_num_
<1>11. st \in Int /\ su \in Int /\ nx \in Int
  BY <1>1, HalfIs DEF PostTypes, SequenceNumbers, Half
<1>12. Congruent(nx - st, ck - ct) /\ Congruent(nx - su, ck - cu)
  BY DEF Ordered, Numbered
<1> HIDE DEF ct, cu, ck, st, su, nx
<1>13. /\ Congruent((nx - st) - (nx - su), (ck - ct) - (ck - cu))
       /\ Congruent((nx - su) - (nx - st), (ck - cu) - (ck - ct))
  <2>1. nx - st \in Int /\ nx - su \in Int /\ ck - ct \in Int /\ ck - cu \in Int
    BY <1>6, <1>11
  <2> QED
    BY <2>1, <1>12, CongruentSum
<1>14. Congruent(su - st, d) /\ Congruent(st - su, -d)
  <2>1. /\ (nx - st) - (nx - su) = su - st /\ (ck - ct) - (ck - cu) = d
        /\ (nx - su) - (nx - st) = st - su /\ (ck - cu) - (ck - ct) = -d
    BY <1>6, <1>11
  <2> QED
    BY <2>1, <1>13
<1>15. Wrap(su - st) = d /\ Wrap(st - su) = -d
  <2>1. su - st \in Int /\ st - su \in Int /\ -d \in Int /\ -Half < d /\ -Half < -d /\ -d < Half
    BY <1>10, <1>11, HalfIs
  <2> HIDE DEF d
  <2> QED
    BY <2>1, <1>10, <1>14, WrapSign
<1> QED
  BY <1>10, <1>15 DEF st, su

\* Before orders the accepted tasks by their time and, of equal times, by the order
\* in which they were posted.
LEMMA BeforeIs ==
  ASSUME PostTypes, Ordered, NEW t \in Known, NEW u \in Known
  PROVE  Before(t, u) <=> \/ delayed_run_time[t] < delayed_run_time[u]
                          \/ /\ delayed_run_time[t] = delayed_run_time[u]
                             /\ t \in prior[u]
<1>1. t \in Tasks /\ u \in Tasks
  BY DEF Known
<1>2. CASE t = u
  <2>1. t \notin prior[u]
    BY <1>2 DEF Ordered, Ranked
  <2>2. sequence_num[u] - sequence_num[t] = 0
    BY <1>1, <1>2, HalfIs DEF PostTypes, SequenceNumbers, Half
  <2>3. Wrap(0) = 0
    <3>1. Congruent(0, 0)
      BY NumberAssumption DEF Congruent
    <3> QED
      BY <3>1, HalfIs, WrapSign
  <2> QED
    BY <2>1, <2>2, <2>3 DEF Before
<1>3. CASE t # u
  <2>1. t \in prior[u] \/ u \in prior[t]
    BY <1>3 DEF Ordered, Ranked
  <2>2. ~ (t \in prior[u] /\ u \in prior[t])
    BY DEF Ordered, Ranked
  <2>3. t \in prior[u] => Wrap(sequence_num[u] - sequence_num[t]) > 0
    BY LowerFirst
  <2>4. u \in prior[t] => ~ (Wrap(sequence_num[u] - sequence_num[t]) > 0)
    BY LowerFirst
  <2> QED
    BY <2>1, <2>2, <2>3, <2>4 DEF Before
<1> QED
  BY <1>2, <1>3

\* The top of the queue of delayed tasks is one of them, and none is due before it.
LEMMA TopIs ==
  ASSUME PostTypes, Ordered, NEW Q \in SUBSET Known, Q # {}
  PROVE  /\ Top(Q) \in Q
         /\ \A u \in Q \ {Top(Q)} : Before(Top(Q), u)
         /\ \A u \in Q : delayed_run_time[Top(Q)] <= delayed_run_time[u]
<1>1. \A t \in Q : t \in Known /\ delayed_run_time[t] \in Int
  BY DEF Known, PostTypes
<1> DEFINE R == {p \in Q \X Q : Before(p[1], p[2])}
<1>2. \A t, u \in Q : <<t, u>> \in R <=>
        \/ delayed_run_time[t] < delayed_run_time[u]
        \/ delayed_run_time[t] = delayed_run_time[u] /\ t \in prior[u]
  BY <1>1, BeforeIs
<1>3. /\ \A t \in Q : t \notin prior[t]
      /\ \A t, u \in Q : t = u \/ t \in prior[u] \/ u \in prior[t]
      /\ \A t, u, v \in Q : t \in prior[u] /\ u \in prior[v] => t \in prior[v]
  BY <1>1 DEF Ordered, Ranked
<1>4. \A t, u \in Q : <<t, u>> \in R <=> Before(t, u)
  OBVIOUS
<1> HIDE DEF R
<1>5. \A t \in Q : <<t, t>> \notin R
  BY <1>1, <1>2, <1>3
<1>6. \A t, u, v \in Q : <<t, u>> \in R /\ <<u, v>> \in R => <<t, v>> \in R
  BY <1>1, <1>2, <1>3
<1>7. \A t, u \in Q : t # u => <<t, u>> \in R \/ <<u, t>> \in R
  BY <1>1, <1>2, <1>3
<1>8. IsFiniteSet(Q)
  BY PendingAssumption, FS_Subset DEF Known
<1>9. \E t \in Q : \A u \in Q \ {t} : <<t, u>> \in R
  BY <1>5, <1>6, <1>7, <1>8, FirstExists
<1>10. \E t \in Q : \A u \in Q \ {t} : Before(t, u)
  BY <1>4, <1>9
<1>11. /\ Top(Q) \in Q
       /\ \A u \in Q \ {Top(Q)} : Before(Top(Q), u)
  BY <1>10 DEF Top
<1>12. ASSUME NEW u \in Q
       PROVE  delayed_run_time[Top(Q)] <= delayed_run_time[u]
  <2>1. u # Top(Q) => <<Top(Q), u>> \in R
    BY <1>4, <1>11
  <2> QED
    BY <2>1, <1>1, <1>2, <1>11
<1> QED
  BY <1>11, <1>12

\* There is one such task.
LEMMA TopOnly ==
  ASSUME PostTypes, Ordered, NEW Q \in SUBSET Known,
         NEW t \in Q, \A u \in Q \ {t} : Before(t, u)
  PROVE  t = Top(Q)
<1>1. /\ Top(Q) \in Q
      /\ \A u \in Q \ {Top(Q)} : Before(Top(Q), u)
  BY TopIs
<1>2. SUFFICES ASSUME t # Top(Q) PROVE FALSE
  OBVIOUS
<1>3. Before(t, Top(Q)) /\ Before(Top(Q), t)
  BY <1>1, <1>2
<1>4. t \in Known /\ Top(Q) \in Known
  BY <1>1
<1> HIDE DEF Top
<1>5. delayed_run_time[t] \in Int /\ delayed_run_time[Top(Q)] \in Int
  BY <1>4 DEF PostTypes, Known
<1>6. t \in prior[Top(Q)] /\ Top(Q) \in prior[t]
  BY <1>3, <1>4, <1>5, BeforeIs
<1> QED
  BY <1>4, <1>6 DEF Ordered, Ranked
-----------------------------------------------------------------------------
\* Types.

\* The elements of a queue that is empty, that grows and that shrinks.
LEMMA Elements ==
  /\ Range(<<>>) = {}
  /\ \A q \in Seq(Tasks), t \in Tasks :
       /\ Append(q, t) \in Seq(Tasks) /\ Append(q, t) # <<>>
       /\ Range(Append(q, t)) = Range(q) \cup {t}
  /\ \A q \in Seq(Tasks) : q # <<>> =>
       /\ Head(q) \in Tasks /\ Tail(q) \in Seq(Tasks)
       /\ Range(q) = {Head(q)} \cup Range(Tail(q))
  /\ \A q \in Seq(Tasks) : Range(q) \subseteq Tasks
<1>1. Range(<<>>) = {}
  BY DEF Range
<1>2. \A q : Range(q) = ToSet(q)
  BY DEF Range, ToSet
<1>3. ASSUME NEW q \in Seq(Tasks), NEW t \in Tasks
      PROVE  /\ Append(q, t) \in Seq(Tasks) /\ Append(q, t) # <<>>
             /\ Range(Append(q, t)) = Range(q) \cup {t}
  BY <1>2, LastAppend, AppendProperties
<1>4. ASSUME NEW q \in Seq(Tasks), q # <<>>
      PROVE  /\ Head(q) \in Tasks /\ Tail(q) \in Seq(Tasks)
             /\ Range(q) = {Head(q)} \cup Range(Tail(q))
  BY <1>2, <1>4, HeadTailSet
<1>5. ASSUME NEW q \in Seq(Tasks)
      PROVE  Range(q) \subseteq Tasks
  BY ElementOfSeq DEF Range
<1> QED
  BY <1>1, <1>3, <1>4, <1>5

\* The tasks in the queues and in the frames were accepted.
Met ==
  /\ Range(incoming_queue_) \cup Held \subseteq Known
  /\ \A l \in RunLoops : task[l] \in Known \cup {NoTask}

\* The destructor's loop has passes left.
Passing ==
  life \in {"alive", "deleting", "reloading", "redeleting"} => passes < MaxPasses

\* The clock ends at a positive number.
LEMMA MaxTimeIs == MaxTime \in Nat /\ 1 <= MaxTime
BY NumberAssumption

\* Initially every variable has its type.
LEMMA TypesInit ==
  ASSUME Init
  PROVE  TypeOK
<1>1. QueueTypes
  BY DEF Init, QueueTypes
<1>2. PostTypes
  <2>1. 0 \in SequenceNumbers
    BY HalfIs DEF SequenceNumbers, Half
  <2> QED
    BY <2>1, NumberAssumption DEF Init, PostTypes
<1>3. PumpTypes
  <2>1. MaxTime \in Nat /\ 1 <= MaxTime
    BY MaxTimeIs
  <2>2. now = 1 /\ recent_time_ = 0 /\ delayed_work_time_ = 0
    BY DEF Init
  <2>3. /\ nestable_tasks_allowed_ \in BOOLEAN
        /\ keep_running_ \in BOOLEAN /\ event_ \in BOOLEAN
    BY DEF Init
  <2>4. /\ now \in 1 .. MaxTime /\ recent_time_ \in 0 .. now
        /\ delayed_work_time_ \in 0 .. MaxTime
    BY <2>1, <2>2
  <2> QED
    BY <2>3, <2>4 DEF PumpTypes
<1>4. RunTypes
  BY DEF Init, RunTypes
<1>5. FrameTypes
  BY DEF Init, FrameTypes, Places, Calls
<1>6. LifeTypes
  BY NumberAssumption DEF Init, LifeTypes, Lives, Outcomes
<1> QED
  BY <1>1, <1>2, <1>3, <1>4, <1>5, <1>6 DEF TypeOK

\* What the code outside the loop does keeps the types.
LEMMA ClientTypes ==
  ASSUME TypeOK, Post \/ Client \/ Destroy \/ Tick
  PROVE  TypeOK'
<1> USE DEF TypeOK, QueueTypes, PostTypes, PumpTypes, RunTypes, FrameTypes, LifeTypes,
            queueVars, postVars, loopVars, pumpVars, runVars, quitVars, frameVars,
            allowVars, lifeVars
<1>1. ASSUME NEW t \in Tasks, NEW nest \in BOOLEAN, NEW d \in Delays[t],
             PostTask(t, nest, d)
      PROVE  TypeOK'
  <2> USE <1>1 DEF PostTask
  <2>1. QueueTypes'
    BY Elements
  <2>2. Wrap(next_sequence_num_ + 1) \in SequenceNumbers
    <3>1. next_sequence_num_ + 1 \in Int
      BY HalfIs DEF SequenceNumbers, Half
    <3> QED
      BY <3>1, WrapCongruent
  <2>3. d \in Nat
    BY NumberAssumption
  <2>4. (IF d > 0 THEN now + d ELSE 0) \in 0 .. MaxTime
    BY <2>3, NumberAssumption
  <2>5. PostTypes'
    <3>1. delayed_run_time' \in [Tasks -> 0 .. MaxTime]
      BY <2>4
    <3>2. delay' \in [Tasks -> Nat] /\ \A u \in Tasks : delay'[u] \in Delays[u] \cup {0}
      BY <2>3
    <3>3. prior' \in [Tasks -> SUBSET Tasks] /\ late' \subseteq Tasks
      BY DEF Known
    <3> QED
      BY <2>2, <3>1, <3>2, <3>3
  <2>6. PumpTypes'
    BY DEF ScheduleWork
  <2>7. RunTypes' /\ FrameTypes' /\ LifeTypes'
    BY DEF Outcomes
  <2> QED
    BY <2>1, <2>5, <2>6, <2>7
<1>2. ASSUME NEW t \in Tasks, RefuseTask(t)
      PROVE  TypeOK'
  BY <1>2 DEF RefuseTask, Outcomes
<1>3. ASSUME NEW m \in RunLoops, NEW until_idle \in BOOLEAN, NEW allow \in BOOLEAN,
             Run(m, until_idle, allow)
      PROVE  TypeOK'
  <2>1. PumpTypes'
    BY <1>3 DEF Run, AllowNestable
  <2>2. RunTypes'
    <3>1. (IF run_loop_ = NoLoop THEN 1 ELSE run_depth_[run_loop_] + 1) \in Nat
      OBVIOUS
    <3>2. run_depth_' \in [RunLoops -> Nat]
      BY <1>3, <3>1 DEF Run
    <3>3. /\ run_loop_' \in RunLoops \cup {NoLoop}
          /\ previous_run_loop_' \in [RunLoops -> RunLoops \cup {NoLoop}]
          /\ running_' \in [RunLoops -> BOOLEAN]
      <4>1. \/ /\ run_loop_' = m
               /\ previous_run_loop_' = [previous_run_loop_ EXCEPT ![m] = run_loop_]
               /\ running_' = [running_ EXCEPT ![m] = TRUE]
            \/ UNCHANGED <<run_loop_, previous_run_loop_, running_>>
        BY <1>3 DEF Run
      <4> QED
        BY ONLY <4>1, TypeOK, m \in RunLoops DEF TypeOK, RunTypes
    <3>4. /\ run_called_' \in [RunLoops -> BOOLEAN]
          /\ quit_called_' \in [RunLoops -> BOOLEAN]
          /\ quit_when_idle_received_' \in [RunLoops -> BOOLEAN]
          /\ quit_now' \subseteq RunLoops
      BY <1>3 DEF Run
    <3> QED
      BY <3>2, <3>3, <3>4
  <2>3. FrameTypes'
    <3>1. at' \in [RunLoops -> Places]
      BY <1>3 DEF Run, Places, Calls
    <3>2. /\ allowing' \in [RunLoops -> BOOLEAN]
          /\ old_state_' \in [RunLoops -> BOOLEAN]
      <4>1. \/ /\ allowing' = [allowing EXCEPT ![run_loop_] = TRUE]
               /\ old_state_' = [old_state_ EXCEPT ![run_loop_] = nestable_tasks_allowed_]
            \/ UNCHANGED <<allowing, old_state_>>
        BY <1>3 DEF Run
      <4> QED
        BY <4>1
    <3>3. /\ did_work' = did_work /\ task' = task /\ caller' = caller
      BY <1>3 DEF Run
    <3> QED
      BY <3>1, <3>2, <3>3
  <2>4. QueueTypes' /\ PostTypes' /\ LifeTypes'
    BY <1>3 DEF Run
  <2> QED
    BY <2>1, <2>2, <2>3, <2>4
<1>4. ASSUME NEW l \in RunLoops, Quit(l)
      PROVE  TypeOK'
  BY <1>4 DEF Quit, unchangedByQuit
<1>5. CASE QuitWhenIdle \/ QuitNow
  BY <1>5 DEF QuitWhenIdle, QuitNow, unchangedByQuit
<1>6. CASE Destroy
  BY <1>6 DEF Destroy, unchangedByDestructor, Lives
<1>7. CASE Tick
  BY <1>7, NumberAssumption, SMTT(30) DEF Tick
<1> QED
  BY <1>1, <1>2, <1>3, <1>4, <1>5, <1>6, <1>7 DEF Post, Client

\* What the pump does keeps the types.
LEMMA PumpTypesKept ==
  ASSUME TypeOK, Met, Ordered, NEW l \in RunLoops, Pump(l)
  PROVE  TypeOK'
<1> USE DEF TypeOK, QueueTypes, PostTypes, PumpTypes, RunTypes, FrameTypes, LifeTypes,
            queueVars, postVars, loopVars, pumpVars, runVars, quitVars, frameVars,
            allowVars, lifeVars, unchangedByPump, unchangedByWait, Goto, Next_,
            Places, Calls
<1>1. ASSUME work_queue_ # <<>>
      PROVE  /\ Head(work_queue_) \in Tasks /\ Head(work_queue_) \in Known
             /\ Tail(work_queue_) \in Seq(Tasks)
  BY <1>1, Elements DEF Met, Held
<1>2. delayed_work_queue_ \in SUBSET Known
  BY DEF Met, Held
<1>3. ASSUME NEW t \in Tasks, NEW from \in Calls, RunTask(l, t, from)
      PROVE  /\ task' \in [RunLoops -> Tasks \cup {NoTask}]
             /\ caller' \in [RunLoops -> Calls]
             /\ outcome' \in [Tasks -> Outcomes]
             /\ at' \in [RunLoops -> Places]
             /\ nestable_tasks_allowed_' \in BOOLEAN
  BY <1>3 DEF RunTask, Outcomes
<1>4. ASSUME NEW t \in Tasks, NEW from \in Calls, NEW next \in Places,
             DeferOrRun(l, t, from, next)
      PROVE  /\ task' \in [RunLoops -> Tasks \cup {NoTask}]
             /\ caller' \in [RunLoops -> Calls]
             /\ outcome' \in [Tasks -> Outcomes]
             /\ at' \in [RunLoops -> Places]
             /\ nestable_tasks_allowed_' \in BOOLEAN
             /\ deferred_non_nestable_work_queue_' \in Seq(Tasks)
  <2>1. CASE RunTask(l, t, from) /\ UNCHANGED deferred_non_nestable_work_queue_
    BY <1>3, <2>1
  <2>2. CASE /\ deferred_non_nestable_work_queue_' = Deferred(t)
             /\ at' = [at EXCEPT ![l] = next]
             /\ UNCHANGED <<nestable_tasks_allowed_, task, caller, outcome>>
    <3>1. Deferred(t) \in Seq(Tasks)
      BY Elements DEF Deferred
    <3> QED
      BY <2>2, <3>1
  <2> QED
    BY ONLY <1>4, <2>1, <2>2 DEF DeferOrRun, Goto
<1>5. CASE DoWorkNothing(l)
  BY <1>5 DEF DoWorkNothing
<1>6. CASE DoWorkReload(l)
  BY <1>6 DEF DoWorkReload
<1>7. CASE DoWorkDelayed(l)
  BY <1>1, <1>7 DEF DoWorkDelayed
<1>8. CASE DoWorkTask(l)
  <2> DEFINE t == Head(work_queue_)
  <2>1. t \in Tasks /\ Tail(work_queue_) \in Seq(Tasks) /\ DeferOrRun(l, t, "DoWork", "DoWork")
    BY <1>1, <1>8 DEF DoWorkTask
  <2> HIDE DEF t
  <2>2. /\ task' \in [RunLoops -> Tasks \cup {NoTask}]
        /\ caller' \in [RunLoops -> Calls]
        /\ outcome' \in [Tasks -> Outcomes]
        /\ at' \in [RunLoops -> Places]
        /\ nestable_tasks_allowed_' \in BOOLEAN
        /\ deferred_non_nestable_work_queue_' \in Seq(Tasks)
    BY <1>4, <2>1
  <2> QED
    BY <1>8, <2>1, <2>2 DEF DoWorkTask
<1>9. CASE DoDelayedNothing(l)
  <2>1. AfterDelayed(l) \in Places
    BY DEF AfterDelayed
  <2>2. PumpTypes'
    BY <1>9, MaxTimeIs DEF DoDelayedNothing
  <2> QED
    BY <1>9, <2>1, <2>2 DEF DoDelayedNothing
<1>10. CASE DoDelayedEarly(l)
  <2> DEFINE t == Top(delayed_work_queue_)
  <2>1. t \in Tasks /\ delayed_work_time_' = delayed_run_time[t]
    BY <1>2, <1>10, TopIs DEF DoDelayedEarly, WakeTime
  <2> HIDE DEF t
  <2> QED
    BY <1>10, <2>1, SMTT(30) DEF DoDelayedEarly, AfterDelayed
<1>11. CASE DoDelayedTask(l)
  <2> DEFINE t == Top(delayed_work_queue_)
             rest == delayed_work_queue_ \ {t}
  <2>1. t \in Tasks /\ rest \in SUBSET Known
    BY <1>2, <1>11, TopIs DEF DoDelayedTask, Known
  <2>2. rest # {} => Top(rest) \in Tasks
    <3> HIDE DEF rest
    <3> QED
      BY <2>1, TopIs DEF Known
  <2>3. /\ delayed_work_queue_' = rest
        /\ delayed_work_time_' = IF rest = {} THEN delayed_work_time_
                                 ELSE delayed_run_time[Top(rest)]
        /\ DeferOrRun(l, t, "DoDelayedWork", AfterDelayed(l))
        /\ recent_time_' = recent_time_ \/ recent_time_' = now
    BY <1>11 DEF DoDelayedTask
  <2> HIDE DEF t, rest
  <2>4. AfterDelayed(l) \in Places
    BY DEF AfterDelayed
  <2>5. /\ task' \in [RunLoops -> Tasks \cup {NoTask}]
        /\ caller' \in [RunLoops -> Calls]
        /\ outcome' \in [Tasks -> Outcomes]
        /\ at' \in [RunLoops -> Places]
        /\ nestable_tasks_allowed_' \in BOOLEAN
        /\ deferred_non_nestable_work_queue_' \in Seq(Tasks)
    BY <1>4, <2>1, <2>3, <2>4
  <2>6. QueueTypes'
    BY <1>11, <2>1, <2>3, <2>5 DEF DoDelayedTask, Known
  <2>7. PumpTypes'
    <3>1. UNCHANGED <<keep_running_, event_, now>>
      BY <1>11 DEF DoDelayedTask
    <3>2. delayed_work_time_' \in 0 .. MaxTime
      <4>1. CASE rest = {}
        BY <2>3, <4>1
      <4>2. CASE rest # {}
        BY <2>2, <2>3, <4>2
      <4> QED
        BY <4>1, <4>2
    <3>3. recent_time_' \in 0 .. now'
      BY <2>3, <3>1
    <3> QED
      BY <2>5, <3>1, <3>2, <3>3
  <2> QED
    BY <1>11, <2>5, <2>6, <2>7 DEF DoDelayedTask
<1>12. CASE DoIdleTask(l)
  <2> DEFINE t == Head(deferred_non_nestable_work_queue_)
  <2>1. /\ t \in Tasks /\ Tail(deferred_non_nestable_work_queue_) \in Seq(Tasks)
        /\ RunTask(l, t, "DoIdleWork")
    BY <1>12, Elements DEF DoIdleTask
  <2> HIDE DEF t
  <2> QED
    BY <1>3, <1>12, <2>1 DEF DoIdleTask
<1>13. CASE DoIdleNothing(l)
  BY <1>13 DEF DoIdleNothing
<1>14. CASE EndTask(l)
  <2>1. at' \in [RunLoops -> Places]
    BY <1>14 DEF EndTask
  <2>2. outcome' \in [Tasks -> Outcomes]
    BY <1>14 DEF EndTask, Outcomes
  <2>3. FrameTypes'
    BY <1>14, <2>1 DEF EndTask
  <2> QED
    BY <1>14, <2>2, <2>3 DEF EndTask
<1>15. CASE Disallow(l)
  BY <1>15 DEF Disallow
<1>16. CASE Wake(l) \/ StartTimedWait(l) \/ TimeOut(l) \/ SkipWait(l)
  <2>1. PumpTypes'
    <3>1. /\ UNCHANGED <<nestable_tasks_allowed_, keep_running_, now, recent_time_>>
          /\ event_' = FALSE \/ event_' = event_
          /\ delayed_work_time_' = 0 \/ delayed_work_time_' = delayed_work_time_
      BY <1>16 DEF Wake, StartTimedWait, TimeOut, SkipWait
    <3>2. delayed_work_time_' \in 0 .. MaxTime
      BY <3>1, MaxTimeIs
    <3>3. event_' \in BOOLEAN
      BY <3>1
    <3> QED
      BY <3>1, <3>2, <3>3
  <2>2. at' \in [RunLoops -> Places]
    BY <1>16 DEF Wake, StartTimedWait, TimeOut, SkipWait
  <2> QED
    BY <1>16, <2>1, <2>2, SMTT(30) DEF Wake, StartTimedWait, TimeOut, SkipWait
<1>17. CASE AfterRun(l)
  <2>1. RunTypes'
    BY <1>17 DEF AfterRun
  <2>2. PumpTypes'
    BY <1>17 DEF AfterRun, DeferredQuit
  <2>3. FrameTypes'
    BY <1>17 DEF AfterRun
  <2> QED
    BY <1>17, <2>1, <2>2, <2>3 DEF AfterRun
<1> QED
  BY <1>5, <1>6, <1>7, <1>8, <1>9, <1>10, <1>11, <1>12, <1>13, <1>14, <1>15, <1>16,
     <1>17 DEF Pump

\* What the destructor does keeps the types.
LEMMA DestructorTypes ==
  ASSUME TypeOK, Passing, Destructor
  PROVE  TypeOK'
<1> USE DEF TypeOK, QueueTypes, PostTypes, PumpTypes, RunTypes, FrameTypes, LifeTypes,
            queueVars, postVars, loopVars, pumpVars, runVars, quitVars, frameVars,
            allowVars, lifeVars, unchangedByDestructor, Lives
<1>1. CASE DeleteFirst
  BY <1>1, SMTT(30) DEF DeleteFirst, DeletePendingTasks, Outcomes
<1>2. CASE DeleteReload
  <2>1. work_queue_' \in Seq(Tasks) /\ incoming_queue_' \in Seq(Tasks)
    BY <1>2 DEF DeleteReload, Reloads
  <2> QED
    BY <1>2, <2>1 DEF DeleteReload
<1>3. CASE DeleteAgain
  <2>1. passes + 1 \in 0 .. MaxPasses
    BY <1>3, NumberAssumption DEF DeleteAgain, Passing
  <2> QED
    BY <1>3, <2>1, SMTT(30) DEF DeleteAgain, DeletePendingTasks, Outcomes
<1>4. CASE WillDestroy
  BY <1>4 DEF WillDestroy
<1> QED
  BY <1>1, <1>2, <1>3, <1>4 DEF Destructor
-----------------------------------------------------------------------------
\* How tasks move between the queues and the frames.

\* The time of t has come.
Ripe(t) == delayed_run_time[t] <= now

\* The tasks that the pump may run or defer in its next step.
Ready == {t \in Held : Ripe(t)} \cup Range(deferred_non_nestable_work_queue_)

\* RunTask() puts one task into a frame.
LEMMA RunMoves ==
  ASSUME TypeOK, NEW l \in RunLoops, NEW t \in Tasks, NEW from \in Calls,
         RunTask(l, t, from)
  PROVE  /\ \A m \in RunLoops : task'[m] \in {task[m], t}
         /\ \A u \in Tasks : outcome'[u] = outcome[u] \/ (u = t /\ outcome'[u] = "running")
BY DEF RunTask, TypeOK, FrameTypes, LifeTypes

\* DeferOrRunPendingTask() puts it there or into the queue of deferred tasks.
LEMMA DeferMoves ==
  ASSUME TypeOK, NEW l \in RunLoops, NEW t \in Tasks, NEW from \in Calls, NEW next,
         DeferOrRun(l, t, from, next)
  PROVE  /\ Range(deferred_non_nestable_work_queue_')
              \subseteq Range(deferred_non_nestable_work_queue_) \cup {t}
         /\ \A m \in RunLoops : task'[m] \in {task[m], t}
         /\ \A u \in Tasks : outcome'[u] = outcome[u] \/ (u = t /\ outcome'[u] = "running")
<1>1. CASE RunTask(l, t, from) /\ UNCHANGED deferred_non_nestable_work_queue_
  BY <1>1, RunMoves
<1>2. CASE /\ deferred_non_nestable_work_queue_' = Deferred(t)
           /\ UNCHANGED <<nestable_tasks_allowed_, task, caller, outcome>>
  BY <1>2, Elements DEF Deferred, TypeOK, QueueTypes
<1> QED
  BY <1>1, <1>2 DEF DeferOrRun

\* What a step of the pump does to the tasks: it takes them from the queues, and it
\* runs or defers none before its time.
Moves ==
  /\ Range(incoming_queue_') \cup Held' \subseteq Range(incoming_queue_) \cup Held
  /\ Range(deferred_non_nestable_work_queue_') \subseteq Ready
  /\ \A l \in RunLoops : task'[l] \in Ready \cup {task[l], NoTask}
  /\ \A t \in Tasks :
       \/ outcome'[t] = outcome[t]
       \/ t \in Ready /\ outcome'[t] = "running"
       \/ (\E l \in RunLoops : t = task[l]) /\ outcome'[t] = "done"

\* Every step of the pump moves tasks in this way.
LEMMA PumpMoves ==
  ASSUME TypeOK, Met, Ordered, NEW l \in RunLoops, Pump(l)
  PROVE  Moves
<1> USE DEF TypeOK, QueueTypes
<1>1. CASE DoDelayedNothing(l) \/ DoWorkNothing(l) \/ DoDelayedEarly(l) \/ DoIdleNothing(l)
           \/ Disallow(l) \/ Wake(l) \/ StartTimedWait(l) \/ TimeOut(l) \/ SkipWait(l)
           \/ AfterRun(l)
  <2>1. UNCHANGED <<queueVars, task, outcome>>
    BY <1>1 DEF DoDelayedNothing, DoWorkNothing, DoDelayedEarly, DoIdleNothing, Disallow,
                Wake, StartTimedWait, TimeOut, SkipWait, AfterRun, unchangedByPump,
                unchangedByWait, frameVars
  <2> QED
    BY <2>1 DEF Moves, queueVars, Held, Ready
<1>2. CASE DoWorkReload(l)
  BY <1>2, Elements DEF DoWorkReload, Moves, Held, Ready, frameVars
<1>3. CASE DoWorkDelayed(l)
  BY <1>3, Elements DEF DoWorkDelayed, Moves, Held, Ready, frameVars
<1>4. CASE DoWorkTask(l)
  <2> DEFINE t == Head(work_queue_)
  <2>1. /\ t \in Tasks /\ t \in Held /\ delayed_run_time[t] = 0
        /\ DeferOrRun(l, t, "DoWork", "DoWork")
    BY <1>4, Elements DEF DoWorkTask, Held
  <2>2. Range(work_queue_') \subseteq Range(work_queue_)
    BY <1>4, Elements DEF DoWorkTask
  <2> HIDE DEF t
  <2>3. t \in Ready
    BY <2>1 DEF Ready, Ripe, PumpTypes
  <2>4. /\ Range(deferred_non_nestable_work_queue_')
             \subseteq Range(deferred_non_nestable_work_queue_) \cup {t}
        /\ \A m \in RunLoops : task'[m] \in {task[m], t}
        /\ \A u \in Tasks : outcome'[u] = outcome[u] \/ (u = t /\ outcome'[u] = "running")
    BY <2>1, DeferMoves DEF Calls
  <2>5. UNCHANGED <<incoming_queue_, delayed_work_queue_>>
    BY <1>4 DEF DoWorkTask
  <2> QED
    BY <2>1, <2>2, <2>3, <2>4, <2>5 DEF Moves, Held, Ready
<1>5. CASE DoDelayedTask(l)
  <2> DEFINE t == Top(delayed_work_queue_)
  <2>1. delayed_work_queue_ \in SUBSET Known
    BY DEF Met, Held
  <2>2. t \in delayed_work_queue_
    BY <1>5, <2>1, TopIs DEF DoDelayedTask
  <2>3. /\ Due(t) /\ delayed_work_queue_' = delayed_work_queue_ \ {t}
        /\ DeferOrRun(l, t, "DoDelayedWork", AfterDelayed(l))
    BY <1>5 DEF DoDelayedTask
  <2> HIDE DEF t
  <2>4. t \in Tasks /\ t \in Held
    BY <2>2 DEF Held
  <2>5. t \in Ready
    BY <2>3, <2>4 DEF Ready, Ripe, Due, PumpTypes, PostTypes
  <2>6. /\ Range(deferred_non_nestable_work_queue_')
             \subseteq Range(deferred_non_nestable_work_queue_) \cup {t}
        /\ \A m \in RunLoops : task'[m] \in {task[m], t}
        /\ \A u \in Tasks : outcome'[u] = outcome[u] \/ (u = t /\ outcome'[u] = "running")
    BY <2>3, <2>4, DeferMoves DEF Calls
  <2>7. UNCHANGED <<incoming_queue_, work_queue_>>
    BY <1>5 DEF DoDelayedTask
  <2> QED
    BY <2>3, <2>4, <2>5, <2>6, <2>7 DEF Moves, Held, Ready
<1>6. CASE DoIdleTask(l)
  <2> DEFINE t == Head(deferred_non_nestable_work_queue_)
  <2>1. /\ t \in Tasks /\ t \in Range(deferred_non_nestable_work_queue_)
        /\ Range(deferred_non_nestable_work_queue_')
             \subseteq Range(deferred_non_nestable_work_queue_)
        /\ RunTask(l, t, "DoIdleWork")
    BY <1>6, Elements DEF DoIdleTask
  <2> HIDE DEF t
  <2>2. /\ \A m \in RunLoops : task'[m] \in {task[m], t}
        /\ \A u \in Tasks : outcome'[u] = outcome[u] \/ (u = t /\ outcome'[u] = "running")
    BY <2>1, RunMoves DEF Calls
  <2>3. UNCHANGED <<incoming_queue_, work_queue_, delayed_work_queue_>>
    BY <1>6 DEF DoIdleTask
  <2> QED
    BY <2>1, <2>2, <2>3 DEF Moves, Held, Ready
<1>7. CASE EndTask(l)
  <2>1. \A u \in Tasks : outcome'[u] = outcome[u] \/ (u = task[l] /\ outcome'[u] = "done")
    BY <1>7 DEF EndTask, LifeTypes
  <2>2. \A m \in RunLoops : task'[m] \in {task[m], NoTask}
    BY <1>7 DEF EndTask, FrameTypes
  <2>3. UNCHANGED queueVars
    BY <1>7 DEF EndTask
  <2> QED
    BY <2>1, <2>2, <2>3 DEF Moves, Held, Ready, queueVars
<1> QED
  BY <1>1, <1>2, <1>3, <1>4, <1>5, <1>6, <1>7 DEF Pump

\* The tasks that were accepted stay so, and only posting adds one to them, with its
\* time and its number.
LEMMA KnownKept ==
  ASSUME TypeOK, Met, Ordered, [Next]_vars
  PROVE  \/ \E t \in Tasks, nest \in BOOLEAN : \E d \in Delays[t] : PostTask(t, nest, d)
         \/ /\ Known' = Known
            /\ UNCHANGED <<next_sequence_num_, nestable, delayed_run_time, sequence_num,
                           delay, prior>>
<1>1. ASSUME NEW t \in Tasks, RefuseTask(t)
      PROVE  /\ Known' = Known
             /\ UNCHANGED <<next_sequence_num_, nestable, delayed_run_time, sequence_num,
                            delay, prior>>
  BY <1>1 DEF RefuseTask, Known, TypeOK, LifeTypes, postVars
<1>2. CASE Client \/ Destroy \/ Tick \/ UNCHANGED vars
  <2>1. UNCHANGED <<postVars, outcome>>
    BY <1>2 DEF Client, Run, Quit, QuitWhenIdle, QuitNow, Destroy, Tick, vars,
                unchangedByQuit, unchangedByDestructor
  <2> QED
    BY <2>1 DEF postVars, Known
<1>3. ASSUME NEW l \in RunLoops, Pump(l)
      PROVE  /\ Known' = Known
             /\ UNCHANGED <<next_sequence_num_, nestable, delayed_run_time, sequence_num,
                            delay, prior>>
  <2>1. UNCHANGED postVars
    BY <1>3 DEF Pump, DoDelayedNothing, DoWorkNothing, DoDelayedEarly, DoIdleNothing,
         Disallow, Wake, StartTimedWait, TimeOut, SkipWait, AfterRun, DoWorkReload,
         DoWorkDelayed, DoWorkTask, DoDelayedTask, DoIdleTask, EndTask, unchangedByPump
  <2>2. Ready \subseteq Known
    BY DEF Ready, Met, Held
  <2>3. \A t \in Tasks : outcome'[t] = outcome[t]
                           \/ (t \in Known /\ outcome'[t] \in {"running", "done"})
    <3>1. \A t \in Tasks, m \in RunLoops : t = task[m] => t \in Known
      BY TaskAssumption DEF Met
    <3> QED
      BY <1>3, <2>2, <3>1, PumpMoves DEF Moves
  <2> QED
    BY <2>1, <2>3 DEF postVars, Known
<1>4. CASE Destructor
  <2>1. UNCHANGED <<next_sequence_num_, nestable, delayed_run_time, sequence_num,
                    delay, prior>>
    BY <1>4 DEF Destructor, DeleteFirst, DeleteReload, DeleteAgain, WillDestroy, postVars
  <2>2. \A t \in Tasks : outcome'[t] = outcome[t] \/ (t \in Held /\ outcome'[t] = "deleted")
    BY <1>4 DEF Destructor, DeleteFirst, DeleteReload, DeleteAgain, WillDestroy,
                DeletePendingTasks
  <2>3. Held \subseteq Known
    BY DEF Met
  <2> QED
    BY <2>1, <2>2, <2>3 DEF Known
<1> QED
  BY <1>1, <1>2, <1>3, <1>4 DEF Next, Post

\* A task that is posted is one more accepted task.
LEMMA KnownPosted ==
  ASSUME TypeOK, NEW t \in Tasks, NEW nest \in BOOLEAN, NEW d \in Delays[t],
         PostTask(t, nest, d)
  PROVE  t \notin Known /\ Known' = Known \cup {t}
BY DEF PostTask, Known, TypeOK, LifeTypes

\* The tasks in the queues and in the frames stay accepted ones.
LEMMA MetStep ==
  ASSUME TypeOK, Met, Ordered, [Next]_vars
  PROVE  Met'
<1>1. ASSUME NEW t \in Tasks, NEW nest \in BOOLEAN, NEW d \in Delays[t],
             PostTask(t, nest, d)
      PROVE  Met'
  <2>1. Known' = Known \cup {t}
    BY <1>1, KnownPosted
  <2>2. /\ Range(incoming_queue_') = Range(incoming_queue_) \cup {t}
        /\ Held' = Held /\ task' = task
    BY <1>1, Elements DEF PostTask, Held, frameVars, TypeOK, QueueTypes
  <2> QED
    BY <2>1, <2>2 DEF Met
<1>2. ASSUME Known' = Known
      PROVE  Met'
  <2>1. CASE \E t \in Tasks : RefuseTask(t)
    BY <1>2, <2>1 DEF RefuseTask, queueVars, frameVars, Met, Held
  <2>2. CASE \E t \in Tasks, nest \in BOOLEAN : \E d \in Delays[t] : PostTask(t, nest, d)
    BY <1>1, <2>2
  <2>3. CASE Client \/ Destroy \/ Tick \/ UNCHANGED vars
    <3>1. UNCHANGED <<queueVars, task>>
      BY <2>3 DEF Client, Run, Quit, QuitWhenIdle, QuitNow, Destroy, Tick, vars, frameVars,
                  unchangedByQuit, unchangedByDestructor
    <3> QED
      BY <1>2, <3>1 DEF queueVars, Met, Held
  <2>4. ASSUME NEW l \in RunLoops, Pump(l)
        PROVE  Met'
    <3>1. Moves
      BY <2>4, PumpMoves
    <3>2. Ready \subseteq Known
      BY DEF Ready, Met, Held
    <3>3. Range(incoming_queue_') \cup Held' \subseteq Known
      BY <3>1 DEF Moves, Met
    <3>4. \A m \in RunLoops : task'[m] \in Known \cup {NoTask}
      BY <3>1, <3>2 DEF Moves, Met
    <3> QED
      BY <1>2, <3>3, <3>4 DEF Met
  <2>5. CASE Destructor
    <3>1. Range(incoming_queue_') \cup Held' \subseteq Range(incoming_queue_) \cup Held
      BY <2>5, Elements DEF Destructor, DeleteFirst, DeleteReload, DeleteAgain, WillDestroy,
                  DeletePendingTasks, Held, queueVars
    <3>2. task' = task
      BY <2>5 DEF Destructor, DeleteFirst, DeleteReload, DeleteAgain, WillDestroy,
                  unchangedByDestructor, frameVars
    <3> QED
      BY <1>2, <3>1, <3>2 DEF Met
  <2> QED
    BY <2>1, <2>2, <2>3, <2>4, <2>5 DEF Next, Post
<1> QED
  BY <1>1, <1>2, KnownKept

\* The tasks stay numbered in the order in which they were accepted.
LEMMA OrderedStep ==
  ASSUME TypeOK, Met, Ordered, [Next]_vars
  PROVE  Ordered'
<1>1. ASSUME NEW t \in Tasks, NEW nest \in BOOLEAN, NEW d \in Delays[t],
             PostTask(t, nest, d)
      PROVE  Ordered'
  <2>1. t \notin Known /\ Known' = Known \cup {t}
    BY <1>1, KnownPosted
  <2>2. /\ prior'[t] = Known /\ sequence_num'[t] = next_sequence_num_
        /\ \A u \in Known : prior'[u] = prior[u] /\ sequence_num'[u] = sequence_num[u]
        /\ next_sequence_num_' = Wrap(next_sequence_num_ + 1)
    BY <1>1, <2>1 DEF PostTask, TypeOK, PostTypes, Known
  <2>3. Ranked'
    BY <2>1, <2>2 DEF Ordered, Ranked
  <2> DEFINE nx == next_sequence_num_
             c  == Cardinality(Known)
  <2>4. nx \in Int /\ \A u \in Known : u \in Tasks /\ sequence_num[u] \in Int
    BY HalfIs DEF TypeOK, PostTypes, SequenceNumbers, Half, Known
  <2>5. IsFiniteSet(Known) /\ \A u \in Known : IsFiniteSet(prior[u])
    BY PendingAssumption, FS_Subset DEF Known, TypeOK, PostTypes
  <2>6. c \in Nat /\ \A u \in Known : Cardinality(prior[u]) \in Nat
    BY <2>5, FS_CardinalityType
  <2>7. Cardinality(Known') = c + 1
    BY <2>1, <2>5, FS_AddElement
  <2>8. Wrap(nx + 1) \in Int /\ Congruent(Wrap(nx + 1), nx + 1)
    <3>1. nx + 1 \in Int
      BY <2>4
    <3> HIDE DEF nx
    <3>2. Wrap(nx + 1) \in SequenceNumbers /\ Congruent(Wrap(nx + 1), nx + 1)
      BY <3>1, WrapCongruent
    <3> QED
      BY <3>2, HalfIs DEF SequenceNumbers, Half
  <2>9. \A i \in Int : Congruent(i, i)
    <3>1. \A i \in Int : i = i + 0 * SeqModulus
      BY NumberAssumption
    <3> QED
      BY <3>1 DEF Congruent
  <2> DEFINE w == Wrap(nx + 1)
  <2>10. w \in Int /\ Congruent(w, nx + 1)
    BY <2>8
  <2>11. ASSUME NEW u \in Known
         PROVE  Congruent(w - sequence_num[u], (c + 1) - Cardinality(prior[u]))
    <3> DEFINE s == sequence_num[u]
               p == Cardinality(prior[u])
    <3>1. Congruent(nx - s, c - p)
      BY DEF Ordered, Numbered
    <3>2. s \in Int /\ p \in Int /\ nx \in Int /\ c \in Int
      BY <2>4, <2>6
    <3> HIDE DEF s, p, w, nx, c
    <3>3. Congruent(w - (nx + 1), 0)
      <4>1. nx + 1 \in Int /\ (nx + 1) - (nx + 1) = 0 /\ w \in Int
        BY <2>10, <3>2
      <4>2. Congruent(nx + 1, nx + 1)
        BY <2>9, <4>1
      <4>3. Congruent(w - (nx + 1), (nx + 1) - (nx + 1))
        BY <2>10, <4>1, <4>2, CongruentSum
      <4> QED
        BY <4>1, <4>3
    <3>4. Congruent((nx - s) + 1, (c - p) + 1)
      <4>1. nx - s \in Int /\ c - p \in Int /\ 1 \in Int /\ Congruent(1, 1)
        BY <3>2, <2>9
      <4> QED
        BY <3>1, <4>1, CongruentSum
    <3>5. Congruent((w - (nx + 1)) + ((nx - s) + 1), 0 + ((c - p) + 1))
      <4>1. /\ w - (nx + 1) \in Int /\ (nx - s) + 1 \in Int /\ 0 \in Int /\ (c - p) + 1 \in Int
        BY <2>10, <3>2
      <4> QED
        BY <3>3, <3>4, <4>1, CongruentSum
    <3>6. /\ (w - (nx + 1)) + ((nx - s) + 1) = w - s
          /\ 0 + ((c - p) + 1) = (c + 1) - p
      BY <2>10, <3>2
    <3>7. Congruent(w - s, (c + 1) - p)
      BY <3>5, <3>6
    <3> QED
      BY <3>7 DEF s, p
  <2>12. Congruent(w - nx, (c + 1) - c)
    <3> HIDE DEF w, nx, c
    <3>1. nx + 1 \in Int /\ nx \in Int /\ (nx + 1) - nx = (c + 1) - c /\ c \in Int
      BY <2>4, <2>6 DEF nx, c
    <3>2. Congruent(nx, nx)
      BY <2>9, <3>1
    <3>3. Congruent(w - nx, (nx + 1) - nx)
      BY <2>10, <3>1, <3>2, CongruentSum
    <3> QED
      BY <3>1, <3>3
  <2>13. Numbered'
    <3>1. next_sequence_num_' = w /\ Cardinality(Known') = c + 1
      BY <2>2, <2>7
    <3> HIDE DEF w, c
    <3>2. ASSUME NEW u \in Known'
          PROVE  Congruent(next_sequence_num_' - sequence_num'[u],
                           Cardinality(Known') - Cardinality(prior'[u]))
      <4>1. CASE u = t
        BY <2>2, <2>12, <3>1, <4>1 DEF c
      <4>2. CASE u \in Known
        BY <2>2, <2>11, <3>1, <4>2
      <4> QED
        BY <2>1, <4>1, <4>2
    <3> QED
      BY <3>2 DEF Numbered, Congruent
  <2> QED
    BY <2>3, <2>13 DEF Ordered
<1>2. ASSUME Known' = Known, UNCHANGED <<next_sequence_num_, sequence_num, prior>>
      PROVE  Ordered'
  BY <1>2 DEF Ordered, Ranked, Numbered
<1> QED
  BY <1>1, <1>2, KnownKept
-----------------------------------------------------------------------------
\* No task is early, and the destructor leaves nothing but late tasks.

\* A task that was run, is deferred or is in a frame was due.
Timely ==
  /\ NeverEarly
  /\ \A t \in Range(deferred_non_nestable_work_queue_) : Ripe(t)
  /\ \A l \in RunLoops : task[l] # NoTask => Ripe(task[l])

\* No step takes a task before its time.
LEMMA TimelyStep ==
  ASSUME TypeOK, Met, Ordered, Timely, [Next]_vars
  PROVE  Timely'
<1>1. now \in Int /\ now' \in Int /\ now <= now'
  <2>1. now' = now \/ now' = now + 1
    BY DEF Next, Post, PostTask, RefuseTask, Client, Run, Quit, QuitWhenIdle, QuitNow,
           unchangedByQuit, Destroy, Tick, Destructor, DeleteFirst, DeleteReload,
           DeleteAgain, WillDestroy, unchangedByDestructor, Pump, DoDelayedNothing,
           DoWorkNothing, DoDelayedEarly, DoIdleNothing, Disallow, Wake, StartTimedWait,
           TimeOut, SkipWait, AfterRun, DoWorkReload, DoWorkDelayed, DoWorkTask,
           DoDelayedTask, DoIdleTask, EndTask, unchangedByPump, vars
  <2> QED
    BY <2>1 DEF TypeOK, PumpTypes
<1>2. \A t \in Known : delayed_run_time'[t] = delayed_run_time[t]
                         /\ delayed_run_time[t] \in Int
  <2>1. ASSUME NEW t \in Tasks, NEW nest \in BOOLEAN, NEW d \in Delays[t],
               PostTask(t, nest, d)
        PROVE  \A u \in Known : delayed_run_time'[u] = delayed_run_time[u]
    BY <2>1, KnownPosted DEF PostTask, TypeOK, PostTypes, Known
  <2>2. \A u \in Known : delayed_run_time[u] \in Int
    BY DEF TypeOK, PostTypes, Known
  <2> QED
    BY <2>1, <2>2, KnownKept
<1>3. \A t \in Known : Ripe(t) => Ripe(t)'
  BY <1>1, <1>2 DEF Ripe
<1>4. /\ \A t \in Tasks : Started(t) => t \in Known /\ Ripe(t)
      /\ \A t \in Range(deferred_non_nestable_work_queue_) : t \in Known /\ Ripe(t)
      /\ \A l \in RunLoops : task[l] # NoTask => task[l] \in Known /\ Ripe(task[l])
  BY DEF Timely, NeverEarly, Started, Ripe, Known, Met, Held
<1>5. ASSUME UNCHANGED <<deferred_non_nestable_work_queue_, task>>,
             \A t \in Tasks : Started(t)' => Started(t)
      PROVE  Timely'
  BY <1>3, <1>4, <1>5 DEF Timely, NeverEarly, Ripe
<1>6. CASE Post
  BY <1>5, <1>6 DEF Post, PostTask, RefuseTask, Started, TypeOK, LifeTypes, queueVars,
                    frameVars
<1>7. CASE Client \/ Destroy \/ Tick \/ UNCHANGED vars
  <2>1. UNCHANGED <<deferred_non_nestable_work_queue_, task, outcome>>
    BY <1>7 DEF Client, Run, Quit, QuitWhenIdle, QuitNow, Destroy, Tick, vars, frameVars,
                unchangedByQuit, unchangedByDestructor, queueVars
  <2> QED
    BY <1>5, <2>1 DEF Started
<1>8. ASSUME NEW l \in RunLoops, Pump(l)
      PROVE  Timely'
  <2>1. Moves
    BY <1>8, PumpMoves
  <2>2. \A t \in Ready : t \in Known /\ Ripe(t)
    BY <1>4 DEF Ready, Met
  <2>3. \A t \in Tasks : Started(t)' => t \in Known /\ Ripe(t)
    <3>1. \A t \in Tasks, m \in RunLoops : t = task[m] => t \in Known /\ Ripe(t)
      BY <1>4, TaskAssumption
    <3> QED
      BY <1>4, <2>1, <2>2, <3>1 DEF Moves, Started
  <2>4. \A t \in Range(deferred_non_nestable_work_queue_') : t \in Known /\ Ripe(t)
    BY <2>1, <2>2 DEF Moves
  <2>5. \A m \in RunLoops : task'[m] # NoTask => task'[m] \in Known /\ Ripe(task'[m])
    BY <1>4, <2>1, <2>2 DEF Moves
  <2>6. NeverEarly'
    BY <1>3, <2>3 DEF NeverEarly, Ripe
  <2>7. \A m \in RunLoops : task'[m] # NoTask => delayed_run_time'[task'[m]] <= now'
    BY <1>3, <2>5 DEF Ripe
  <2> QED
    BY <1>3, <2>4, <2>6, <2>7 DEF Timely, Ripe
<1>9. CASE Destructor
  <2>1. /\ UNCHANGED task
        /\ \/ UNCHANGED deferred_non_nestable_work_queue_
           \/ deferred_non_nestable_work_queue_' = <<>>
    BY <1>9 DEF Destructor, DeleteFirst, DeleteReload, DeleteAgain, WillDestroy,
                DeletePendingTasks, unchangedByDestructor, frameVars, queueVars
  <2>2. \A t \in Tasks : Started(t)' => Started(t)
    BY <1>9 DEF Destructor, DeleteFirst, DeleteReload, DeleteAgain, WillDestroy,
                DeletePendingTasks, Started
  <2>3. CASE UNCHANGED deferred_non_nestable_work_queue_
    BY <1>5, <2>1, <2>2, <2>3
  <2>4. CASE deferred_non_nestable_work_queue_' = <<>>
    BY <1>3, <1>4, <2>1, <2>2, <2>4, Elements DEF Timely, NeverEarly, Ripe
  <2> QED
    BY <2>1, <2>3, <2>4
<1> QED
  BY <1>6, <1>7, <1>8, <1>9 DEF Next

\* While the destructor runs no loop does, so that only late tasks come in; the
\* loop's own queues are empty after a pass.
Dying ==
  /\ Passing
  /\ life # "alive" => run_loop_ = NoLoop
  /\ life \in {"reloading", "observers", "gone"} => Held = {}
  /\ life \in {"redeleting", "observers", "gone"} => Range(incoming_queue_) \subseteq late

\* Every step keeps the order of the destructor.
LEMMA DyingStep ==
  ASSUME TypeOK, Dying, [Next]_vars
  PROVE  Dying'
<1> USE DEF TypeOK, QueueTypes
<1>1. ASSUME NEW t \in Tasks, NEW nest \in BOOLEAN, NEW d \in Delays[t],
             PostTask(t, nest, d)
      PROVE  Dying'
  <2>1. /\ Range(incoming_queue_') = Range(incoming_queue_) \cup {t}
        /\ Held' = Held /\ UNCHANGED <<life, passes, run_loop_>>
        /\ life # "alive" => late' = late \cup {t}
    BY <1>1, Elements DEF PostTask, Held, lifeVars, runVars
  <2> QED
    BY <2>1 DEF Dying, Passing
<1>2. ASSUME UNCHANGED <<queueVars, life, passes, run_loop_, late>>
      PROVE  Dying'
  BY <1>2 DEF Dying, Passing, Held, queueVars
<1>3. ASSUME NEW t \in Tasks, RefuseTask(t)
      PROVE  Dying'
  BY <1>2, <1>3 DEF RefuseTask, lifeVars, runVars, postVars
<1>4. CASE Client
  <2>1. CASE \E m \in RunLoops, until_idle, allow \in BOOLEAN : Run(m, until_idle, allow)
    <3>1. life = "alive" /\ UNCHANGED lifeVars
      BY <2>1 DEF Run, InClient
    <3> QED
      BY <3>1 DEF Dying, Passing, lifeVars
  <2>2. CASE QuitWhenIdle \/ QuitNow \/ \E l \in RunLoops : Quit(l)
    BY <1>2, <2>2 DEF QuitWhenIdle, QuitNow, Quit, unchangedByQuit, lifeVars, runVars,
                      postVars
  <2> QED
    BY <1>4, <2>1, <2>2 DEF Client
<1>5. CASE Destroy
  <2>1. life = "alive" /\ life' = "deleting" /\ run_loop_ = NoLoop
        /\ UNCHANGED <<passes, run_loop_>>
    BY <1>5 DEF Destroy, unchangedByDestructor, runVars
  <2> QED
    BY <2>1 DEF Dying, Passing
<1>6. CASE Tick \/ UNCHANGED vars
  BY <1>2, <1>6 DEF Tick, vars, lifeVars, runVars, postVars
<1>7. ASSUME NEW l \in RunLoops, Pump(l)
      PROVE  Dying'
  <2>1. run_loop_ = l
    BY <1>7 DEF Pump, DoDelayedNothing, DoWorkNothing, DoDelayedEarly, DoIdleNothing,
           Disallow, Wake, StartTimedWait, TimeOut, SkipWait, AfterRun, DoWorkReload,
           DoWorkDelayed, DoWorkTask, DoDelayedTask, DoIdleTask, EndTask, Pumping, InTask,
           Waiting
  <2>2. UNCHANGED lifeVars
    BY <1>7 DEF Pump, DoDelayedNothing, DoWorkNothing, DoDelayedEarly, DoIdleNothing,
           Disallow, Wake, StartTimedWait, TimeOut, SkipWait, AfterRun, DoWorkReload,
           DoWorkDelayed, DoWorkTask, DoDelayedTask, DoIdleTask, EndTask, unchangedByPump
  <2>3. life = "alive"
    BY <2>1, TaskAssumption DEF Dying
  <2> QED
    BY <2>2, <2>3 DEF Dying, Passing, lifeVars
<1>8. CASE DeleteFirst
  <2>1. /\ life = "deleting" /\ life' = "reloading" /\ UNCHANGED <<passes, run_loop_>>
        /\ Held' = {}
    BY <1>8, Elements DEF DeleteFirst, DeletePendingTasks, Held, unchangedByDestructor, runVars
  <2> QED
    BY <2>1 DEF Dying, Passing
<1>9. CASE DeleteReload
  <2>1. /\ life = "reloading" /\ life' = "redeleting" /\ UNCHANGED <<passes, run_loop_>>
    BY <1>9 DEF DeleteReload, unchangedByDestructor, runVars
  <2>2. work_queue_ = <<>>
    BY <2>1, Elements DEF Dying, Held
  <2>3. Range(incoming_queue_') = {}
    BY <1>9, <2>2, Elements DEF DeleteReload, Reloads
  <2> QED
    BY <2>1, <2>3 DEF Dying, Passing
<1>10. CASE DeleteAgain
  <2>1. /\ life = "redeleting" /\ UNCHANGED <<run_loop_, incoming_queue_, late>>
        /\ Held' = {}
        /\ \/ life' = "deleting" /\ passes' < MaxPasses
           \/ life' = "observers"
    BY <1>10, Elements DEF DeleteAgain, DeletePendingTasks, Held, unchangedByDestructor,
                           runVars, postVars
  <2> QED
    BY <2>1 DEF Dying, Passing
<1>11. CASE WillDestroy
  <2>1. /\ life = "observers" /\ life' = "gone"
        /\ UNCHANGED <<run_loop_, incoming_queue_, late>> /\ Held' = Held
    BY <1>11 DEF WillDestroy, Held, unchangedByDestructor, runVars, queueVars
  <2> QED
    BY <2>1 DEF Dying, Passing
<1> QED
  BY <1>1, <1>3, <1>4, <1>5, <1>6, <1>7, <1>8, <1>9, <1>10, <1>11 DEF Next, Post, Destructor

\* The inductive invariant of these properties.
Sound == TypeOK /\ Met /\ Ordered /\ Timely /\ Dying

\* It holds initially,
LEMMA SoundInit ==
  ASSUME Init
  PROVE  Sound
<1>1. Known = {}
  BY DEF Init, Known
<1>2. Ordered
  BY <1>1 DEF Ordered, Ranked, Numbered
<1>3. Range(incoming_queue_) = {} /\ Held = {}
      /\ Range(deferred_non_nestable_work_queue_) = {}
  BY Elements DEF Init, Held
<1>4. Met
  BY <1>3 DEF Met, Init
<1>5. Timely
  BY <1>3 DEF Timely, NeverEarly, Started, Init
<1>6. Dying
  BY <1>3, NumberAssumption DEF Dying, Passing, Init
<1> QED
  BY <1>2, <1>4, <1>5, <1>6, TypesInit DEF Sound

\* and every step preserves it.
LEMMA SoundStep ==
  ASSUME Sound, [Next]_vars
  PROVE  Sound'
<1> USE DEF Sound
<1>1. TypeOK'
  <2>1. CASE Post \/ Client \/ Destroy \/ Tick
    BY <2>1, ClientTypes
  <2>2. ASSUME NEW l \in RunLoops, Pump(l)
        PROVE  TypeOK'
    BY <2>2, PumpTypesKept
  <2>3. CASE Destructor
    BY <2>3, DestructorTypes DEF Dying
  <2>4. CASE UNCHANGED vars
    BY <2>4 DEF vars, queueVars, postVars, loopVars, pumpVars, runVars, quitVars, frameVars,
       allowVars, lifeVars, TypeOK, QueueTypes, PostTypes, PumpTypes, RunTypes, FrameTypes,
       LifeTypes
  <2> QED
    BY <2>1, <2>2, <2>3, <2>4 DEF Next
<1>2. Met' /\ Ordered'
  BY MetStep, OrderedStep
<1>3. Timely'
  BY TimelyStep
<1>4. Dying'
  BY DyingStep
<1> QED
  BY <1>1, <1>2, <1>3, <1>4

\* The inductive invariant holds in every state that the loop can reach.
THEOREM Soundness == Spec => []Sound
<1>1. Init => Sound
  BY SoundInit
<1>2. Sound /\ [Next]_vars => Sound'
  BY SoundStep
<1> QED
  BY <1>1, <1>2, PTL DEF Spec

\* Every variable of the loop keeps its type; in particular the sequence numbers and
\* the top of the delayed queue, which is one of its tasks.
THEOREM TypeCorrect == Spec => []TypeOK
<1>1. Sound => TypeOK
  BY DEF Sound
<1> QED
  BY <1>1, Soundness, PTL

\* MessageLoop::DoDelayedWork() and the queues it feeds start no task before the
\* delay it was posted with has passed.
THEOREM Punctual == Spec => []NeverEarly
<1>1. Sound => NeverEarly
  BY DEF Sound, Timely
<1> QED
  BY <1>1, Soundness, PTL

\* When ~MessageLoop() has closed the incoming queue, what is left in it was posted
\* while the destructor ran, and the loop's own queues are empty.
THEOREM CleanShutdown == Spec => []OnlyLateLeft
<1>1. Sound => OnlyLateLeft
  BY DEF Sound, Dying, OnlyLateLeft
<1> QED
  BY <1>1, Soundness, PTL
-----------------------------------------------------------------------------
\* The stack of running loops.

Running(l) == at[l] \notin {"Unborn", "Left"}

\* previous_run_loop_ chains the running loops, which have distinct depths; all but
\* the innermost are in a task.
Stack ==
  /\ \A l \in RunLoops : /\ running_[l] <=> Running(l)
                         /\ running_[l] => run_called_[l]
                         /\ allowing[l] => at[l] = "RunTask"
  /\ run_loop_ = NoLoop => \A l \in RunLoops : ~running_[l]
  /\ run_loop_ # NoLoop => running_[run_loop_]
  /\ \A l \in RunLoops : running_[l] /\ l # run_loop_ =>
       at[l] = "RunTask" /\ run_depth_[l] < run_depth_[run_loop_]
  /\ \A l \in RunLoops : running_[l] =>
       IF previous_run_loop_[l] = NoLoop
       THEN run_depth_[l] = 1
       ELSE /\ running_[previous_run_loop_[l]]
            /\ run_depth_[l] = run_depth_[previous_run_loop_[l]] + 1
  /\ \A l, m \in RunLoops : running_[l] /\ running_[m] /\ run_depth_[l] = run_depth_[m]
       => l = m

\* Steps of the pump of l within its Run().
LEMMA PumpPlaces ==
  ASSUME TypeOK, NEW l \in RunLoops, Pump(l), ~ AfterRun(l)
  PROVE  /\ run_loop_ = l /\ UNCHANGED runVars
         /\ \E place \in Places \ {"Unborn", "Left"} : at' = [at EXCEPT ![l] = place]
         /\ \/ UNCHANGED allowing
            \/ ~ allowing'[l] /\ at'[l] = "RunTask"
                 /\ \A m \in RunLoops \ {l} : allowing'[m] = allowing[m]
         /\ at[l] # "RunTask" \/ ~ allowing[l] \/ at'[l] = "RunTask"
<1> USE DEF Goto, Next_, Places, Calls, Pumping, InTask, unchangedByPump, allowVars, frameVars
<1> DEFINE Moved(place) == at' = [at EXCEPT ![l] = place]
           Steady == run_loop_ = l /\ UNCHANGED <<runVars, allowing>>
<1>1. CASE DoWorkNothing(l)
  <2>1. Steady /\ Moved(Next_("DoDelayedWork")) /\ at[l] = "DoWork"
    BY <1>1 DEF DoWorkNothing
  <2> QED
    BY <2>1
<1>2. CASE DoWorkReload(l) \/ DoWorkDelayed(l)
  <2>1. Steady /\ Moved("DoWork") /\ at[l] = "DoWork"
    BY <1>2 DEF DoWorkReload, DoWorkDelayed, TypeOK, FrameTypes
  <2> QED
    BY <2>1
<1>3. CASE DoWorkTask(l)
  <2>1. Steady /\ (Moved("RunTask") \/ Moved("DoWork")) /\ at[l] = "DoWork"
    BY <1>3 DEF DoWorkTask, DeferOrRun, RunTask
  <2> QED
    BY <2>1
<1>4. CASE DoDelayedNothing(l) \/ DoDelayedEarly(l) \/ DoDelayedTask(l)
  <2>1. Steady /\ (Moved("RunTask") \/ Moved(AfterDelayed(l))) /\ at[l] = "DoDelayedWork"
    BY <1>4 DEF DoDelayedNothing, DoDelayedEarly, DoDelayedTask, DeferOrRun, RunTask
  <2>2. AfterDelayed(l) \in {"DoWork", "DoIdleWork", "Leave"}
    BY DEF AfterDelayed
  <2> QED
    BY <2>1, <2>2
<1>5. CASE DoIdleTask(l)
  <2>1. Steady /\ Moved("RunTask") /\ at[l] = "DoIdleWork"
    BY <1>5 DEF DoIdleTask, RunTask
  <2> QED
    BY <2>1
<1>6. CASE DoIdleNothing(l)
  <2>1. Steady /\ (Moved("Wait") \/ Moved("Leave")) /\ at[l] = "DoIdleWork"
    BY <1>6 DEF DoIdleNothing
  <2> QED
    BY <2>1
<1>7. CASE EndTask(l)
  <2>1. /\ Steady /\ Moved(Next_(IF caller[l] = "DoWork" THEN "DoDelayedWork" ELSE "DoWork"))
        /\ ~ allowing[l]
    BY <1>7 DEF EndTask
  <2>2. Next_(IF caller[l] = "DoWork" THEN "DoDelayedWork" ELSE "DoWork")
          \in {"DoDelayedWork", "DoWork", "Leave"}
    OBVIOUS
  <2> QED
    BY <2>1, <2>2
<1>8. CASE Disallow(l)
  <2>1. /\ run_loop_ = l /\ at[l] = "RunTask" /\ at' = at /\ UNCHANGED runVars
        /\ allowing' = [allowing EXCEPT ![l] = FALSE]
    BY <1>8 DEF Disallow
  <2>2. Moved("RunTask")
    BY <2>1 DEF TypeOK, FrameTypes
  <2> QED
    BY <2>1, <2>2 DEF TypeOK, FrameTypes
<1>9. CASE Wake(l) \/ StartTimedWait(l) \/ TimeOut(l) \/ SkipWait(l)
  <2>1. Steady /\ (Moved("DoWork") \/ Moved("TimedWait")) /\ at[l] # "RunTask"
    BY <1>9 DEF Wake, StartTimedWait, TimeOut, SkipWait, Waiting
  <2> QED
    BY <2>1
<1> QED
  BY <1>1, <1>2, <1>3, <1>4, <1>5, <1>6, <1>7, <1>8, <1>9 DEF Pump

\* No step breaks the chain.
LEMMA StackStep ==
  ASSUME TypeOK, Stack, [Next]_vars
  PROVE  Stack'
<1> USE DEF TypeOK, RunTypes, FrameTypes
<1>1. ASSUME UNCHANGED <<runVars, at, allowing>>
      PROVE  Stack'
  BY <1>1 DEF Stack, Running, runVars
<1>2. CASE Post \/ Destroy \/ Tick \/ Destructor \/ UNCHANGED vars
  BY <1>1, <1>2 DEF Post, PostTask, RefuseTask, Destroy, Tick, Destructor, DeleteFirst,
     DeleteReload, DeleteAgain, WillDestroy, vars, unchangedByDestructor, frameVars, allowVars
<1>3. CASE QuitWhenIdle \/ QuitNow \/ \E l \in RunLoops : Quit(l)
  BY <1>1, <1>3 DEF QuitWhenIdle, QuitNow, Quit, unchangedByQuit, frameVars, allowVars
<1>4. ASSUME NEW m \in RunLoops, NEW until_idle \in BOOLEAN, NEW allow \in BOOLEAN,
             Run(m, until_idle, allow)
      PROVE  Stack'
  <2>1. /\ ~ run_called_[m] /\ run_called_' = [run_called_ EXCEPT ![m] = TRUE]
        /\ run_loop_ # NoLoop => at[run_loop_] = "RunTask"
    BY <1>4 DEF Run, InClient, InTask
  <2>2. ~ running_[m] /\ m # run_loop_ /\ at[m] # "RunTask"
    BY <2>1, TaskAssumption DEF Stack, Running
  <2>3. \A l \in RunLoops : allowing'[l] => allowing[l] \/ l = run_loop_
    <3>1. UNCHANGED allowing \/ allowing' = [allowing EXCEPT ![run_loop_] = TRUE]
      BY <1>4 DEF Run, allowVars
    <3> QED
      BY <3>1
  <2>4. CASE UNCHANGED <<run_loop_, previous_run_loop_, run_depth_, running_, at>>
    <3>1. \A l \in RunLoops : allowing'[l] => at[l] = "RunTask"
      BY <2>1, <2>3, TaskAssumption DEF Stack
    <3>2. \A l \in RunLoops : running_[l] => run_called_'[l]
      BY <2>1 DEF Stack
    <3> QED
      BY <2>4, <3>1, <3>2 DEF Stack, Running
  <2>5. CASE /\ previous_run_loop_' = [previous_run_loop_ EXCEPT ![m] = run_loop_]
             /\ run_depth_' = [run_depth_ EXCEPT ![m] =
                  IF run_loop_ = NoLoop THEN 1 ELSE run_depth_[run_loop_] + 1]
             /\ run_loop_' = m
             /\ running_' = [running_ EXCEPT ![m] = TRUE]
             /\ at' = [at EXCEPT ![m] = "DoWork"]
    <3>1. /\ run_loop_ = NoLoop => run_depth_'[m] = 1
          /\ run_loop_ # NoLoop => run_depth_'[m] = run_depth_[run_loop_] + 1
          /\ previous_run_loop_'[m] = run_loop_
          /\ running_'[m] /\ at'[m] = "DoWork"
      BY <2>5
    <3>2. \A l \in RunLoops \ {m} :
            /\ run_depth_'[l] = run_depth_[l] /\ previous_run_loop_'[l] = previous_run_loop_[l]
            /\ running_'[l] = running_[l] /\ at'[l] = at[l]
      BY <2>5
    <3>3. \A l \in RunLoops : /\ running_'[l] <=> at'[l] \notin {"Unborn", "Left"}
                              /\ running_'[l] => run_called_'[l]
                              /\ allowing'[l] => at'[l] = "RunTask"
      <4>1. \A l \in RunLoops : allowing'[l] => at[l] = "RunTask"
        BY <2>1, <2>3, TaskAssumption DEF Stack
      <4>2. \A l \in RunLoops \ {m} : run_called_'[l] = run_called_[l]
        BY <2>1
      <4>3. run_called_'[m]
        BY <2>1
      <4>4. ASSUME NEW l \in RunLoops \ {m}
            PROVE  /\ running_'[l] <=> at'[l] \notin {"Unborn", "Left"}
                   /\ running_'[l] => run_called_'[l]
        BY <3>2, <4>2 DEF Stack, Running
      <4>5. \A l \in RunLoops : allowing'[l] => at'[l] = "RunTask"
        BY <2>2, <3>2, <4>1
      <4> QED
        BY <3>1, <4>3, <4>4, <4>5
    <3>4. \A l \in RunLoops : running_'[l] /\ l # m =>
            /\ at'[l] = "RunTask" /\ run_depth_'[l] < run_depth_'[m]
            /\ run_loop_ # NoLoop /\ run_depth_[l] <= run_depth_[run_loop_]
      BY <2>1, <3>1, <3>2 DEF Stack
    <3>5. \A l \in RunLoops : running_'[l] =>
            IF previous_run_loop_'[l] = NoLoop
            THEN run_depth_'[l] = 1
            ELSE /\ running_'[previous_run_loop_'[l]]
                 /\ run_depth_'[l] = run_depth_'[previous_run_loop_'[l]] + 1
      <4>1. CASE run_loop_ = NoLoop
        BY <4>1, <3>1, <3>2, <3>4
      <4>2. CASE run_loop_ # NoLoop
        <5>1. running_[run_loop_] /\ run_loop_ \in RunLoops \ {m}
          BY <2>2, <4>2 DEF Stack
        <5>2. ASSUME NEW l \in RunLoops \ {m}, running_[l]
              PROVE  previous_run_loop_[l] # m
          BY <2>2, <5>2, TaskAssumption DEF Stack
        <5> QED
          BY <2>2, <3>1, <3>2, <4>2, <5>1, <5>2 DEF Stack
      <4> QED
        BY <4>1, <4>2
    <3>6. \A l, k \in RunLoops : running_'[l] /\ running_'[k]
              /\ run_depth_'[l] = run_depth_'[k] => l = k
      BY <3>1, <3>2, <3>4 DEF Stack
    <3> QED
      BY <2>5, <3>1, <3>3, <3>4, <3>5, <3>6, TaskAssumption DEF Stack, Running
  <2> QED
    BY <1>4, <2>4, <2>5 DEF Run
<1>5. ASSUME NEW l \in RunLoops, Pump(l), ~ AfterRun(l)
      PROVE  Stack'
  <2>1. PICK place \in Places \ {"Unborn", "Left"} : at' = [at EXCEPT ![l] = place]
    BY <1>5, PumpPlaces
  <2>2. run_loop_ = l /\ UNCHANGED runVars
    BY <1>5, PumpPlaces
  <2>3. running_[l]
    BY <2>2, TaskAssumption DEF Stack
  <2>4. \A m \in RunLoops : allowing'[m] => at'[m] = "RunTask"
    <3>1. \/ UNCHANGED allowing
          \/ ~ allowing'[l] /\ at'[l] = "RunTask"
               /\ \A m \in RunLoops \ {l} : allowing'[m] = allowing[m]
      BY <1>5, PumpPlaces
    <3>2. at[l] # "RunTask" \/ ~ allowing[l] \/ at'[l] = "RunTask"
      BY <1>5, PumpPlaces
    <3> QED
      BY <2>1, <3>1, <3>2 DEF Stack
  <2>5. /\ \A m \in RunLoops : Running(m)' <=> Running(m)
        /\ \A m \in RunLoops \ {l} : at'[m] = at[m]
    BY <2>1, <2>3 DEF Running, Stack
  <2> QED
    BY <2>2, <2>4, <2>5 DEF Stack, runVars
<1>6. ASSUME NEW l \in RunLoops, AfterRun(l)
      PROVE  Stack'
  <2> DEFINE p == previous_run_loop_[l]
  <2>1. /\ run_loop_ = l /\ running_' = [running_ EXCEPT ![l] = FALSE] /\ run_loop_' = p
        /\ at' = [at EXCEPT ![l] = "Left"] /\ at[l] = "Leave"
        /\ UNCHANGED <<previous_run_loop_, run_depth_, run_called_, allowing>>
    BY <1>6 DEF AfterRun, Pumping, Goto, allowVars
  <2>2. running_[l] /\ ~ allowing[l]
    BY <2>1, TaskAssumption DEF Stack
  <2>3. \A m \in RunLoops : running_[m] => run_depth_[m] >= 1
    BY DEF Stack
  <2>4. CASE p = NoLoop
    <3>1. \A m \in RunLoops \ {l} : ~ running_[m]
      BY <2>1, <2>2, <2>3, <2>4 DEF Stack
    <3> QED
      BY <2>1, <2>2, <2>4, <3>1, TaskAssumption DEF Stack, Running
  <2>5. CASE p # NoLoop
    <3>1. p \in RunLoops /\ running_[p] /\ run_depth_[l] = run_depth_[p] + 1 /\ p # l
      BY <2>2, <2>5 DEF Stack
    <3>2. \A m \in RunLoops \ {l, p} : running_[m] => run_depth_[m] < run_depth_[p]
      BY <2>1, <3>1 DEF Stack
    <3>3. \A m \in RunLoops \ {l} : running_[m] => previous_run_loop_[m] # l
      BY <2>1, <3>1, <3>2, TaskAssumption DEF Stack
    <3>4. \A m \in RunLoops : /\ running_'[m] <=> running_[m] /\ m # l
                              /\ m # l => at'[m] = at[m]
      BY <2>1
    <3>5. at'[l] = "Left"
      BY <2>1
    <3> HIDE DEF p
    <3>6. \A m \in RunLoops : /\ running_'[m] <=> at'[m] \notin {"Unborn", "Left"}
                              /\ running_'[m] => run_called_[m]
                              /\ allowing[m] => at'[m] = "RunTask"
      BY <2>2, <3>4, <3>5 DEF Stack, Running
    <3>7. \A m \in RunLoops : running_'[m] /\ m # p =>
            at'[m] = "RunTask" /\ run_depth_[m] < run_depth_[p]
      BY <2>1, <3>2, <3>4 DEF Stack
    <3>8. \A m \in RunLoops : running_'[m] =>
            IF previous_run_loop_[m] = NoLoop
            THEN run_depth_[m] = 1
            ELSE /\ running_'[previous_run_loop_[m]]
                 /\ run_depth_[m] = run_depth_[previous_run_loop_[m]] + 1
      BY <3>3, <3>4 DEF Stack
    <3>9. \A m, k \in RunLoops : running_'[m] /\ running_'[k]
              /\ run_depth_[m] = run_depth_[k] => m = k
      BY <3>4 DEF Stack
    <3>10. running_'[p]
      BY <3>1, <3>4
    <3> QED
      BY <2>1, <2>5, <3>6, <3>7, <3>8, <3>9, <3>10 DEF Stack, Running
  <2> QED
    BY <2>4, <2>5
<1> QED
  BY <1>2, <1>3, <1>4, <1>5, <1>6 DEF Next, Client
-----------------------------------------------------------------------------
\* The flag that ends the pump's loop.

Told(l) == quit_called_[l] \/ quit_when_idle_received_[l] \/ l \in quit_now

\* keep_running_ speaks of the innermost loop: it is cleared if that loop was told to
\* quit at once, and only if it was told to quit.
Quits ==
  /\ run_loop_ = NoLoop => keep_running_
  /\ \A l \in quit_now : l = run_loop_
  /\ QuitNotLost
  /\ run_loop_ # NoLoop =>
       /\ at[run_loop_] = "Leave" => ~keep_running_
       /\ at[run_loop_] \in {"Wait", "TimedWait"} =>
            keep_running_ /\ ~quit_when_idle_received_[run_loop_]
       /\ ~keep_running_ => Told(run_loop_)

\* The pump reads the flag between its calls and clears it when idle.
LEMMA PumpQuits ==
  ASSUME TypeOK, NEW l \in RunLoops, Pump(l), ~ AfterRun(l)
  PROVE  /\ UNCHANGED quitVars
         /\ at'[l] = "Leave" => ~ keep_running_'
         /\ \/ /\ UNCHANGED keep_running_
               /\ at'[l] \in {"Wait", "TimedWait"} => at[l] \in {"Wait", "TimedWait"}
            \/ /\ keep_running_' = (keep_running_ /\ ~ quit_when_idle_received_[l])
               /\ at'[l] \in {"Wait", "TimedWait"} => keep_running_'
<1> USE DEF Goto, Pumping, InTask, unchangedByPump, frameVars
<1> DEFINE Moved(place) == at' = [at EXCEPT ![l] = place]
           Steady == UNCHANGED <<quitVars, keep_running_>>
<1>0. \A call : \/ keep_running_ /\ Next_(call) = call
                \/ ~ keep_running_ /\ Next_(call) = "Leave"
  BY DEF Next_
<1>a. at \in [RunLoops -> Places]
  BY DEF TypeOK, FrameTypes
<1>1. CASE DoWorkNothing(l)
  <2>1. Steady /\ Moved(Next_("DoDelayedWork"))
    BY <1>1 DEF DoWorkNothing
  <2> QED
    BY <1>0, <1>a, <2>1
<1>2. CASE DoWorkReload(l) \/ DoWorkDelayed(l) \/ Disallow(l)
  <2>1. Steady /\ at' = at /\ at[l] # "Leave"
    BY <1>2 DEF DoWorkReload, DoWorkDelayed, Disallow
  <2> QED
    BY <2>1
<1>3. CASE DoWorkTask(l)
  <2>1. Steady /\ (Moved("RunTask") \/ Moved("DoWork"))
    BY <1>3 DEF DoWorkTask, DeferOrRun, RunTask
  <2> QED
    BY <1>a, <2>1
<1>4. CASE DoDelayedNothing(l) \/ DoDelayedEarly(l) \/ DoDelayedTask(l)
  <2>1. Steady /\ (Moved("RunTask") \/ Moved(AfterDelayed(l)))
    BY <1>4 DEF DoDelayedNothing, DoDelayedEarly, DoDelayedTask, DeferOrRun, RunTask
  <2>2. AfterDelayed(l) \in {"DoWork", "DoIdleWork"}
          \/ (AfterDelayed(l) = "Leave" /\ ~ keep_running_)
    BY <1>0 DEF AfterDelayed
  <2> QED
    BY <1>a, <2>1, <2>2
<1>5. CASE DoIdleTask(l)
  <2>1. Steady /\ Moved("RunTask")
    BY <1>5 DEF DoIdleTask, RunTask
  <2> QED
    BY <1>a, <2>1
<1>6. CASE DoIdleNothing(l)
  <2>1. /\ UNCHANGED quitVars
        /\ keep_running_' = (keep_running_ /\ ~ quit_when_idle_received_[l])
        /\ \/ keep_running_' /\ Moved("Wait")
           \/ ~ keep_running_' /\ Moved("Leave")
    BY <1>6 DEF DoIdleNothing
  <2> QED
    BY <1>a, <2>1
<1>7. CASE EndTask(l)
  <2>1. Steady /\ Moved(Next_(IF caller[l] = "DoWork" THEN "DoDelayedWork" ELSE "DoWork"))
    BY <1>7 DEF EndTask
  <2>2. Next_(IF caller[l] = "DoWork" THEN "DoDelayedWork" ELSE "DoWork")
          \in {"DoWork", "DoDelayedWork"}
          \/ (~ keep_running_ /\ Next_(IF caller[l] = "DoWork" THEN "DoDelayedWork"
                                                              ELSE "DoWork") = "Leave")
    BY <1>0
  <2> QED
    BY <1>a, <2>1, <2>2
<1>8. CASE Wake(l) \/ StartTimedWait(l) \/ TimeOut(l) \/ SkipWait(l)
  <2>1. Steady /\ (Moved("DoWork") \/ (Moved("TimedWait") /\ at[l] = "Wait"))
    BY <1>8 DEF Wake, StartTimedWait, TimeOut, SkipWait, Waiting
  <2> QED
    BY <1>a, <2>1
<1> QED
  BY <1>1, <1>2, <1>3, <1>4, <1>5, <1>6, <1>7, <1>8 DEF Pump

\* Every step keeps the flag right, as long as no loop is run after a quit.
LEMMA QuitsStep ==
  ASSUME ~ NestAfterQuit, TypeOK, Stack, Quits, [Next]_vars
  PROVE  Quits'
<1> USE DEF TypeOK, RunTypes, PumpTypes, FrameTypes
<1>1. ASSUME UNCHANGED <<run_loop_, quitVars, at, keep_running_>>
      PROVE  Quits'
  BY <1>1 DEF Quits, Told, QuitNotLost, quitVars
<1>2. CASE Post \/ Destroy \/ Tick \/ Destructor \/ UNCHANGED vars
  BY <1>1, <1>2 DEF Post, PostTask, RefuseTask, Destroy, Tick, Destructor, DeleteFirst,
     DeleteReload, DeleteAgain, WillDestroy, vars, unchangedByDestructor, frameVars,
     allowVars, runVars, quitVars, pumpVars
<1>3. ASSUME NEW l \in RunLoops, Quit(l)
      PROVE  Quits'
  <2>1. /\ quit_called_' = [quit_called_ EXCEPT ![l] = TRUE]
        /\ keep_running_' = (keep_running_ /\ ~(running_[l] /\ run_loop_ = l))
        /\ UNCHANGED <<quit_when_idle_received_, quit_now, run_loop_, at>>
        /\ run_loop_ # NoLoop => at[run_loop_] = "RunTask"
    BY <1>3 DEF Quit, unchangedByQuit, runVars, frameVars, InClient, InTask
  <2>2. CASE l = run_loop_
    <3>1. running_[l] /\ l # NoLoop
      BY <2>2, TaskAssumption DEF Stack
    <3>2. ~ keep_running_' /\ quit_called_'[l]
      BY <2>1, <2>2, <3>1
    <3>3. /\ UNCHANGED <<quit_when_idle_received_, quit_now, run_loop_, at>>
          /\ at[l] = "RunTask" /\ run_loop_' = l
      BY <2>1, <2>2, <3>1
    <3> QED
      BY <2>2, <3>1, <3>2, <3>3 DEF Quits, Told, QuitNotLost
  <2>3. CASE l # run_loop_
    <3>1. /\ keep_running_' = keep_running_
          /\ run_loop_ # NoLoop => quit_called_'[run_loop_] = quit_called_[run_loop_]
          /\ UNCHANGED <<quit_when_idle_received_, quit_now, run_loop_, at>>
      BY <2>1, <2>3
    <3> QED
      BY <3>1 DEF Quits, Told, QuitNotLost
  <2> QED
    BY <2>2, <2>3
<1>4. CASE QuitWhenIdle
  <2>1. /\ quit_when_idle_received_' = [quit_when_idle_received_ EXCEPT ![run_loop_] = TRUE]
        /\ UNCHANGED <<keep_running_, quit_called_, quit_now, run_loop_, at>>
        /\ run_loop_ # NoLoop /\ at[run_loop_] = "RunTask"
    BY <1>4 DEF QuitWhenIdle, unchangedByQuit, runVars, frameVars, InClient, InTask
  <2> QED
    BY <2>1 DEF Quits, Told, QuitNotLost
<1>5. CASE QuitNow
  <2>1. /\ ~ keep_running_' /\ quit_now' = quit_now \cup {run_loop_}
        /\ UNCHANGED <<quit_called_, quit_when_idle_received_, run_loop_, at>>
        /\ run_loop_ # NoLoop /\ at[run_loop_] = "RunTask"
    BY <1>5 DEF QuitNow, unchangedByQuit, runVars, frameVars, InClient, InTask
  <2> QED
    BY <2>1 DEF Quits, Told, QuitNotLost
<1>6. ASSUME NEW m \in RunLoops, NEW until_idle \in BOOLEAN, NEW allow \in BOOLEAN,
             Run(m, until_idle, allow)
      PROVE  Quits'
  <2>1. /\ keep_running_ /\ ~ run_called_[m]
        /\ UNCHANGED <<keep_running_, quit_called_, quit_now>>
        /\ quit_when_idle_received_' =
             [quit_when_idle_received_ EXCEPT ![m] = @ \/ until_idle]
        /\ run_loop_ # NoLoop => at[run_loop_] = "RunTask"
    BY <1>6 DEF Run, InClient, InTask
  <2>2. quit_now = {}
    BY <2>1, TaskAssumption DEF Quits, QuitNotLost
  <2>3. m # run_loop_
    BY <2>1, TaskAssumption DEF Stack
  <2>4. CASE UNCHANGED <<run_loop_, at>>
    BY <2>1, <2>2, <2>3, <2>4 DEF Quits, QuitNotLost, Told
  <2>5. CASE ~ quit_called_[m] /\ run_loop_' = m /\ at' = [at EXCEPT ![m] = "DoWork"]
    <3>1. at'[m] = "DoWork"
      BY <2>5
    <3> QED
      BY <2>1, <2>2, <2>5, <3>1, TaskAssumption DEF Quits, QuitNotLost, Told
  <2> QED
    BY <1>6, <2>4, <2>5 DEF Run
<1>7. ASSUME NEW l \in RunLoops, Pump(l), ~ AfterRun(l)
      PROVE  Quits'
  <2>1. run_loop_ = l /\ run_loop_' = l /\ l # NoLoop
    BY <1>7, PumpPlaces, TaskAssumption DEF runVars
  <2>2. /\ UNCHANGED quitVars
        /\ at'[l] = "Leave" => ~ keep_running_'
        /\ \/ /\ UNCHANGED keep_running_
              /\ at'[l] \in {"Wait", "TimedWait"} => at[l] \in {"Wait", "TimedWait"}
           \/ /\ keep_running_' = (keep_running_ /\ ~ quit_when_idle_received_[l])
              /\ at'[l] \in {"Wait", "TimedWait"} => keep_running_'
    BY <1>7, PumpQuits
  <2> QED
    BY <2>1, <2>2 DEF Quits, QuitNotLost, Told, quitVars
<1>8. ASSUME NEW l \in RunLoops, AfterRun(l)
      PROVE  Quits'
  <2> DEFINE p == previous_run_loop_[l]
  <2>1. /\ run_loop_ = l /\ run_loop_' = p /\ at' = [at EXCEPT ![l] = "Left"]
        /\ keep_running_' = ~DeferredQuit(l) /\ quit_now' = quit_now \ {l}
        /\ UNCHANGED <<quit_called_, quit_when_idle_received_>>
    BY <1>8 DEF AfterRun, Pumping, Goto
  <2>2. quit_now' = {}
    BY <2>1 DEF Quits
  <2>3. CASE p = NoLoop
    BY <2>1, <2>2, <2>3 DEF Quits, QuitNotLost, DeferredQuit
  <2>4. CASE p # NoLoop
    <3>1. running_[l] /\ l # NoLoop
      BY <2>1, TaskAssumption DEF Stack
    <3>2. p \in RunLoops /\ running_[p] /\ p # l
      BY <2>4, <3>1 DEF Stack
    <3>3. at[p] = "RunTask" /\ at'[p] = "RunTask"
      BY <2>1, <3>2 DEF Stack
    <3> QED
      BY <2>1, <2>2, <2>4, <3>3 DEF Quits, QuitNotLost, DeferredQuit, Told
  <2> QED
    BY <2>3, <2>4
<1> QED
  BY <1>2, <1>3, <1>4, <1>5, <1>6, <1>7, <1>8 DEF Next, Client


\* Initially no loop runs and none was told to quit.
LEMMA NestedInit ==
  ASSUME Init
  PROVE  Stack /\ Quits
BY TaskAssumption DEF Init, Stack, Quits, QuitNotLost, Running

\* The stack of run loops is right in every state.
THEOREM Stacked == Spec => []Stack
<1>1. Init => Stack
  BY NestedInit
<1>2. TypeOK /\ Stack /\ [Next]_vars => Stack'
  BY StackStep
<1> QED
  BY <1>1, <1>2, TypeCorrect, PTL DEF Spec

\* The flag is right in every state, if no loop is run after a quit.
THEOREM Flagged ==
  ASSUME ~ NestAfterQuit
  PROVE  Spec => []Quits
<1>1. Init => Quits
  BY NestedInit
<1>2. TypeOK /\ Stack /\ Quits /\ [Next]_vars => Quits'
  BY QuitsStep
<1> QED
  BY <1>1, <1>2, TypeCorrect, Stacked, PTL DEF Spec

\* RunLoop::Quit(), MessageLoop::QuitNow() and AfterRun(): although keep_running_ is one
\* flag for all loops of the stack, no quit is lost.
THEOREM QuitKept ==
  ASSUME ~ NestAfterQuit
  PROVE  Spec => []QuitNotLost
<1>1. Quits => QuitNotLost
  BY DEF Quits
<1> QED
  BY <1>1, Flagged, PTL

\* RunLoop::Run() returns only to a loop that was told to quit.
THEOREM ReturnsWhenQuit ==
  ASSUME ~ NestAfterQuit
  PROVE  Spec => RunReturnsOnlyWhenQuit
<1>1. ASSUME TypeOK, Stack, Quits, [Next]_vars,
             NEW l \in RunLoops, running_[l], ~ running_'[l]
      PROVE  quit_called_[l] \/ quit_when_idle_received_[l] \/ l \in quit_now
  <2>1. AfterRun(l)
    <3>1. CASE Post \/ Destroy \/ Tick \/ Destructor \/ UNCHANGED vars
               \/ QuitWhenIdle \/ QuitNow \/ \E m \in RunLoops : Quit(m)
      BY <1>1, <3>1 DEF Post, PostTask, RefuseTask, Destroy, Tick, Destructor, DeleteFirst,
         DeleteReload, DeleteAgain, WillDestroy, vars, unchangedByDestructor, runVars,
         QuitWhenIdle, QuitNow, Quit, unchangedByQuit
    <3>2. ASSUME NEW m \in RunLoops, NEW until_idle \in BOOLEAN, NEW allow \in BOOLEAN,
                 Run(m, until_idle, allow)
          PROVE  FALSE
      <4>1. UNCHANGED running_ \/ running_' = [running_ EXCEPT ![m] = TRUE]
        BY <3>2 DEF Run
      <4> QED
        BY <1>1, <4>1 DEF TypeOK, RunTypes
    <3>3. ASSUME NEW m \in RunLoops, Pump(m), ~ AfterRun(m)
          PROVE  FALSE
      BY <1>1, <3>3, PumpPlaces DEF runVars
    <3>4. ASSUME NEW m \in RunLoops, AfterRun(m)
          PROVE  m = l
      BY <1>1, <3>4 DEF AfterRun, TypeOK, RunTypes
    <3> QED
      BY <1>1, <3>1, <3>2, <3>3, <3>4 DEF Next, Client
  <2>2. run_loop_ = l /\ at[l] = "Leave" /\ l # NoLoop
    BY <2>1, TaskAssumption DEF AfterRun, Pumping
  <2> QED
    BY <1>1, <2>2 DEF Quits, Told
<1>2. TypeOK /\ Stack /\ Quits /\ [Next]_vars =>
        [\A l \in RunLoops : running_[l] /\ ~running_'[l] =>
           quit_called_[l] \/ quit_when_idle_received_[l] \/ l \in quit_now]_vars
  BY <1>1
<1> QED
  BY <1>2, TypeCorrect, Stacked, Flagged, PTL DEF Spec, RunReturnsOnlyWhenQuit
-----------------------------------------------------------------------------
\* What a loop that goes idle or sleeps has seen.

\* The top of a queue whose tasks keep their times and numbers stays.
LEMMA TopKept ==
  ASSUME NEW Q,
         \A t \in Q : /\ delayed_run_time'[t] = delayed_run_time[t]
                      /\ sequence_num'[t] = sequence_num[t]
  PROVE  Top(Q)' = Top(Q)
<1>1. \A t, u \in Q : Before(t, u)' <=> Before(t, u)
  BY DEF Before
<1>2. \A t : (t \in Q /\ \A u \in Q \ {t} : Before(t, u)')
               <=> (t \in Q /\ \A u \in Q \ {t} : Before(t, u))
  BY <1>1
<1> HIDE DEF Before
<1> QED
  BY <1>2 DEF Top

\* The pump of l will look at its queues before it goes idle.
Busy(l) ==
  at[l] \in {"DoWork", "RunTask", "Leave"} \/ (at[l] = "DoDelayedWork" /\ did_work[l])

\* What the innermost loop, if it may run tasks, knows of the queues: those of work
\* are empty, or it will look at them, or the pump was signalled; and once it has looked
\* at the delayed tasks, it knows when the first one is due.
Watching ==
  /\ \A t \in delayed_work_queue_ : delayed_run_time[t] # 0
  /\ run_loop_ # NoLoop =>
       /\ nestable_tasks_allowed_ =>
            /\ work_queue_ = <<>> \/ Busy(run_loop_)
            /\ incoming_queue_ = <<>> \/ Busy(run_loop_) \/ event_
            /\ at[run_loop_] \in {"DoIdleWork", "Wait", "TimedWait"} =>
                 \/ delayed_work_queue_ = {}
                 \/ delayed_work_time_ = delayed_run_time[Top(delayed_work_queue_)]
            /\ at[run_loop_] = "DoIdleWork" /\ run_depth_[run_loop_] = 1 => DueThen = {}
       /\ at[run_loop_] \in {"Wait", "TimedWait"} /\ run_depth_[run_loop_] = 1 =>
            deferred_non_nestable_work_queue_ = <<>>

\* A step after which the pump is to look at its queues keeps this.
LEMMA BusyWatching ==
  ASSUME run_loop_' # NoLoop => at'[run_loop_'] \in {"DoWork", "RunTask", "Leave"},
         \A t \in delayed_work_queue_' : delayed_run_time'[t] # 0
  PROVE  Watching'
BY DEF Watching, Busy

\* Every step keeps it.
LEMMA WatchingStep ==
  ASSUME Sound, Stack, Watching, [Next]_vars
  PROVE  Watching'
<1> USE DEF Sound, TypeOK, FrameTypes
<1>1. ASSUME UNCHANGED <<queueVars, delayed_run_time, sequence_num, run_loop_, run_depth_,
                         at, did_work, event_, nestable_tasks_allowed_, delayed_work_time_,
                         recent_time_>>
      PROVE  Watching'
  <2>1. Top(delayed_work_queue_)' = Top(delayed_work_queue_)
    <3>1. ASSUME NEW Q, Q = delayed_work_queue_
          PROVE  Top(Q)' = Top(Q)
      BY <1>1, TopKept
    <3> QED
      BY <1>1, <3>1 DEF queueVars, Top, Before
  <2> QED
    BY <1>1, <2>1 DEF Watching, Busy, DueThen, queueVars
<1>2. ASSUME NEW t \in Tasks, NEW nest \in BOOLEAN, NEW d \in Delays[t],
             PostTask(t, nest, d)
      PROVE  Watching'
  <2>1. \A u \in delayed_work_queue_ : /\ delayed_run_time'[u] = delayed_run_time[u]
                                       /\ sequence_num'[u] = sequence_num[u]
    <3>1. delayed_work_queue_ \subseteq Known
      BY DEF Met, Held
    <3>2. t \notin Known
      BY <1>2, KnownPosted
    <3> QED
      BY <1>2, <3>1, <3>2 DEF PostTask, PostTypes, Known
  <2>2. UNCHANGED <<work_queue_, delayed_work_queue_, deferred_non_nestable_work_queue_,
          run_loop_, run_depth_, at, did_work, nestable_tasks_allowed_, delayed_work_time_,
          recent_time_>>
    BY <1>2 DEF PostTask, runVars, frameVars, loopVars
  <2>3. Top(delayed_work_queue_)' = Top(delayed_work_queue_)
    <3>1. ASSUME NEW Q, Q = delayed_work_queue_
          PROVE  Top(Q)' = Top(Q)
      BY <2>1, <3>1, TopKept
    <3>2. \A Q : Q = delayed_work_queue_ => Top(Q)' = Top(Q)
      BY <3>1
    <3> QED
      BY <2>2, <3>2, SMTT(30) DEF Top, Before
  <2>4. delayed_work_queue_ # {} => Top(delayed_work_queue_) \in delayed_work_queue_
    <3>1. delayed_work_queue_ \in SUBSET Known
      BY DEF Met, Held
    <3> QED
      BY <3>1, TopIs
  <2>5. incoming_queue_ = <<>> => event_'
    BY <1>2 DEF PostTask, ScheduleWork
  <2>6. event_ => event_'
    BY <1>2 DEF PostTask
  <2>7. DueThen' = DueThen
    BY <2>1, <2>2 DEF DueThen
  <2>8. Busy(run_loop_)' <=> Busy(run_loop_)
    BY <2>2 DEF Busy
  <2> HIDE DEF Busy, Top
  <2> QED
    BY <2>1, <2>2, <2>3, <2>4, <2>5, <2>6, <2>7, <2>8 DEF Watching
<1>3. CASE (\E t \in Tasks : RefuseTask(t)) \/ Destroy \/ Tick \/ QuitWhenIdle \/ QuitNow
           \/ (\E l \in RunLoops : Quit(l)) \/ UNCHANGED vars
  BY <1>1, <1>3 DEF RefuseTask, Destroy, Tick, QuitWhenIdle, QuitNow, Quit, vars,
     unchangedByQuit, unchangedByDestructor, postVars, runVars, frameVars, pumpVars, loopVars
<1>4. CASE Destructor
  <2>1. run_loop_' = NoLoop
    BY <1>4 DEF Destructor, DeleteFirst, DeleteReload, DeleteAgain, WillDestroy,
                unchangedByDestructor, runVars, Dying
  <2>2. delayed_work_queue_' \subseteq delayed_work_queue_ /\ UNCHANGED delayed_run_time
    BY <1>4 DEF Destructor, DeleteFirst, DeleteReload, DeleteAgain, WillDestroy,
                DeletePendingTasks, queueVars, postVars
  <2> QED
    BY <2>1, <2>2, BusyWatching DEF Watching
<1>5. ASSUME NEW m \in RunLoops, NEW until_idle \in BOOLEAN, NEW allow \in BOOLEAN,
             Run(m, until_idle, allow)
      PROVE  Watching'
  <2>1. UNCHANGED <<queueVars, postVars>>
    BY <1>5 DEF Run
  <2>2. run_loop_ # NoLoop => at[run_loop_] = "RunTask"
    BY <1>5 DEF Run, InClient, InTask
  <2>3. \/ run_loop_' = m /\ at' = [at EXCEPT ![m] = "DoWork"]
        \/ UNCHANGED <<run_loop_, at>>
    BY <1>5 DEF Run
  <2>4. run_loop_' # NoLoop => at'[run_loop_'] \in {"DoWork", "RunTask", "Leave"}
    BY <2>2, <2>3
  <2> QED
    BY <2>1, <2>4, BusyWatching DEF Watching, queueVars, postVars
<1>6. ASSUME NEW l \in RunLoops, Pump(l)
      PROVE  Watching'
  <2>1. UNCHANGED postVars
    BY <1>6 DEF Pump, DoDelayedNothing, DoWorkNothing, DoDelayedEarly, DoIdleNothing,
         Disallow, Wake, StartTimedWait, TimeOut, SkipWait, AfterRun, DoWorkReload,
         DoWorkDelayed, DoWorkTask, DoDelayedTask, DoIdleTask, EndTask, unchangedByPump
  <2>2. run_loop_ = l /\ l # NoLoop
    BY <1>6, TaskAssumption DEF Pump, DoDelayedNothing, DoWorkNothing, DoDelayedEarly,
         DoIdleNothing, Disallow, Wake, StartTimedWait, TimeOut, SkipWait, AfterRun,
         DoWorkReload, DoWorkDelayed, DoWorkTask, DoDelayedTask, DoIdleTask, EndTask,
         Pumping, InTask, Waiting
  <2>3. UNCHANGED <<delayed_run_time, sequence_num>>
    BY <2>1 DEF postVars
  <2>4. \A Q : Top(Q)' = Top(Q)
    <3>1. ASSUME NEW Q PROVE Top(Q)' = Top(Q)
      BY <2>3, TopKept
    <3> QED
      BY <3>1
  <2>5. ASSUME run_loop_' = l, at'[l] \in {"DoWork", "RunTask", "Leave"},
               delayed_work_queue_' \subseteq delayed_work_queue_
        PROVE  Watching'
    BY <2>3, <2>5, BusyWatching DEF Watching
  <2>6. delayed_work_queue_ \in SUBSET Known
    BY DEF Met, Held
  <2> USE DEF Goto, Pumping, InTask, unchangedByPump, runVars, frameVars
  <2>7. CASE DoWorkNothing(l)
    <3>1. /\ nestable_tasks_allowed_ => work_queue_ = <<>> /\ incoming_queue_ = <<>>
          /\ at'[l] \in {"DoDelayedWork", "Leave"}
          /\ UNCHANGED <<queueVars, nestable_tasks_allowed_, run_loop_>>
      BY <2>7 DEF DoWorkNothing, Next_, loopVars
    <3> QED
      BY <2>2, <2>3, <3>1 DEF Watching, queueVars
  <2>8. CASE DoWorkReload(l)
    <3>1. at'[l] = "DoWork" /\ UNCHANGED <<run_loop_, delayed_work_queue_>>
      BY <2>8 DEF DoWorkReload
    <3> QED
      BY <2>2, <2>5, <3>1
  <2>9. CASE DoWorkDelayed(l)
    <3>1. /\ at'[l] = "DoWork" /\ UNCHANGED run_loop_
          /\ delayed_work_queue_' = delayed_work_queue_ \cup {Head(work_queue_)}
          /\ delayed_run_time[Head(work_queue_)] # 0
      BY <2>9 DEF DoWorkDelayed
    <3> QED
      BY <2>2, <2>3, <3>1, BusyWatching DEF Watching
  <2>10. CASE DoWorkTask(l)
    <3>1. at'[l] \in {"DoWork", "RunTask"} /\ UNCHANGED <<run_loop_, delayed_work_queue_>>
      BY <2>10 DEF DoWorkTask, DeferOrRun, RunTask
    <3> QED
      BY <2>2, <2>5, <3>1
  <2>11. CASE at[l] = "DoDelayedWork" /\ at'[l] = "DoIdleWork" /\ DoDelayedNothing(l)
    <3>1. /\ ~nestable_tasks_allowed_ \/ delayed_work_queue_ = {}
          /\ UNCHANGED <<queueVars, nestable_tasks_allowed_, event_, run_loop_>>
          /\ ~ did_work[l]
      BY <2>11 DEF DoDelayedNothing, AfterDelayed, Next_
    <3>2. nestable_tasks_allowed_ => /\ work_queue_ = <<>>
                                     /\ incoming_queue_ = <<>> \/ event_
      BY <2>2, <2>11, <3>1 DEF Watching, Busy
    <3> QED
      BY <2>2, <2>3, <2>11, <3>1, <3>2 DEF Watching, DueThen, queueVars
  <2>12. CASE at[l] = "DoDelayedWork" /\ at'[l] = "DoIdleWork" /\ DoDelayedEarly(l)
    <3> DEFINE t == Top(delayed_work_queue_)
    <3>1. /\ UNCHANGED <<queueVars, nestable_tasks_allowed_, event_, run_loop_>>
          /\ ~ did_work[l] /\ ~ Due(t) /\ delayed_work_queue_ # {}
          /\ recent_time_' = now /\ delayed_work_time_' = delayed_run_time[t]
      BY <2>12 DEF DoDelayedEarly, AfterDelayed, Next_, WakeTime
    <3>2. nestable_tasks_allowed_ => /\ work_queue_ = <<>>
                                     /\ incoming_queue_ = <<>> \/ event_
      BY <2>2, <2>12, <3>1 DEF Watching, Busy
    <3>3. t \in delayed_work_queue_ /\ \A u \in delayed_work_queue_ :
             delayed_run_time[t] <= delayed_run_time[u]
      BY <2>6, <3>1, TopIs
    <3>4. Top(delayed_work_queue_') = t
      BY <3>1 DEF queueVars
    <3> HIDE DEF t
    <3>5. \A u \in delayed_work_queue_ : delayed_run_time[u] \in Int /\ u \in Tasks
      BY <2>6 DEF PostTypes, Known
    <3>6. now \in Int
      BY DEF PumpTypes
    <3>7. \A u \in delayed_work_queue_ : ~ (delayed_run_time[u] <= now)
      BY <3>1, <3>3, <3>5, <3>6 DEF Due
    <3>8. DueThen' = {}
      BY <2>3, <3>1, <3>7 DEF DueThen, queueVars
    <3>9. Top(delayed_work_queue_)' = t
      BY <2>4, <3>1, <3>4 DEF queueVars
    <3> QED
      BY <2>2, <2>3, <2>12, <3>1, <3>2, <3>8, <3>9 DEF Watching, queueVars
  <2>13. CASE at[l] = "DoDelayedWork" /\ at'[l] = "DoIdleWork" /\ DoDelayedTask(l)
    <3> DEFINE t == Top(delayed_work_queue_)
               rest == delayed_work_queue_ \ {t}
    <3>1. /\ DeferOrRun(l, t, "DoDelayedWork", AfterDelayed(l))
          /\ delayed_work_queue_' = rest
          /\ rest = {} \/ delayed_work_time_' = delayed_run_time[Top(rest)]
          /\ UNCHANGED <<work_queue_, incoming_queue_, event_, run_loop_, run_depth_>>
      BY <2>13 DEF DoDelayedTask
    <3> HIDE DEF t, rest
    <3>2. /\ ~ RunsNow(l, t) /\ ~ did_work[l]
          /\ UNCHANGED nestable_tasks_allowed_
      BY <2>13, <3>1 DEF DeferOrRun, RunTask, AfterDelayed, Next_
    <3>3. run_depth_[l] # 1
      BY <3>2 DEF RunsNow
    <3>4. nestable_tasks_allowed_ => /\ work_queue_ = <<>>
                                     /\ incoming_queue_ = <<>> \/ event_
      BY <2>2, <2>13, <3>2 DEF Watching, Busy
    <3>5. Top(delayed_work_queue_)' = Top(rest)
      BY <2>4, <3>1
    <3>6. rest \subseteq delayed_work_queue_
      BY DEF rest
    <3> QED
      BY <2>2, <2>3, <2>13, <3>1, <3>2, <3>3, <3>4, <3>5, <3>6 DEF Watching
  <2>14. CASE DoDelayedNothing(l) \/ DoDelayedEarly(l) \/ DoDelayedTask(l)
    <3>1. /\ at[l] = "DoDelayedWork"
          /\ at'[l] \in {"DoIdleWork", "DoWork", "RunTask", "Leave"}
          /\ UNCHANGED run_loop_
      BY <2>14 DEF DoDelayedNothing, DoDelayedEarly, DoDelayedTask, DeferOrRun, RunTask,
                   AfterDelayed, Next_
    <3>2. delayed_work_queue_' \subseteq delayed_work_queue_
      BY <2>14 DEF DoDelayedNothing, DoDelayedEarly, DoDelayedTask, queueVars
    <3>3. CASE at'[l] = "DoIdleWork"
      BY <2>11, <2>12, <2>13, <2>14, <3>1, <3>3
    <3>4. CASE at'[l] # "DoIdleWork"
      BY <2>2, <2>5, <3>1, <3>2, <3>4
    <3> QED
      BY <3>3, <3>4
  <2>15. CASE DoIdleTask(l)
    <3>1. at'[l] = "RunTask" /\ UNCHANGED <<run_loop_, delayed_work_queue_>>
      BY <2>15 DEF DoIdleTask, RunTask
    <3> QED
      BY <2>2, <2>5, <3>1
  <2>16. CASE DoIdleNothing(l)
    <3>1. /\ at[l] = "DoIdleWork" /\ at'[l] \in {"Wait", "Leave"}
          /\ run_depth_[l] # 1 \/ deferred_non_nestable_work_queue_ = <<>>
          /\ UNCHANGED <<queueVars, nestable_tasks_allowed_, event_, run_loop_, run_depth_,
                         delayed_work_time_>>
      BY <2>16 DEF DoIdleNothing, loopVars
    <3>2. Top(delayed_work_queue_)' = Top(delayed_work_queue_)
      BY <2>4, <3>1 DEF queueVars
    <3>3. nestable_tasks_allowed_ =>
            /\ work_queue_ = <<>>
            /\ incoming_queue_ = <<>> \/ event_
            /\ \/ delayed_work_queue_ = {}
               \/ delayed_work_time_ = delayed_run_time[Top(delayed_work_queue_)]
      BY <2>2, <3>1 DEF Watching, Busy
    <3> QED
      BY <2>2, <2>3, <3>1, <3>2, <3>3 DEF Watching, queueVars
  <2>17. CASE EndTask(l)
    <3>1. /\ at'[l] \in {"DoDelayedWork", "DoWork", "Leave"} /\ did_work'[l]
          /\ UNCHANGED <<queueVars, run_loop_>>
      BY <2>17 DEF EndTask, Next_
    <3>2. Busy(l)'
      BY <3>1 DEF Busy
    <3> QED
      BY <2>2, <2>3, <3>1, <3>2 DEF Watching, queueVars
  <2>18. CASE Disallow(l) \/ Wake(l) \/ TimeOut(l) \/ SkipWait(l)
    <3>1. at'[l] \in {"RunTask", "DoWork"} /\ UNCHANGED <<queueVars, run_loop_>>
      BY <2>18 DEF Disallow, Wake, TimeOut, SkipWait, unchangedByWait, Waiting
    <3> QED
      BY <2>2, <2>5, <3>1 DEF queueVars
  <2>19. CASE StartTimedWait(l)
    <3>1. /\ at[l] = "Wait" /\ at'[l] = "TimedWait"
          /\ UNCHANGED <<queueVars, nestable_tasks_allowed_, event_, run_loop_, run_depth_,
                         delayed_work_time_>>
      BY <2>19 DEF StartTimedWait, unchangedByWait, loopVars
    <3>2. Top(delayed_work_queue_)' = Top(delayed_work_queue_)
      BY <2>4, <3>1 DEF queueVars
    <3>3. /\ nestable_tasks_allowed_ =>
               /\ work_queue_ = <<>>
               /\ incoming_queue_ = <<>> \/ event_
               /\ \/ delayed_work_queue_ = {}
                  \/ delayed_work_time_ = delayed_run_time[Top(delayed_work_queue_)]
          /\ run_depth_[l] = 1 => deferred_non_nestable_work_queue_ = <<>>
      BY <2>2, <3>1 DEF Watching, Busy
    <3> QED
      BY <2>2, <2>3, <3>1, <3>2, <3>3 DEF Watching, queueVars
  <2>20. CASE AfterRun(l)
    <3> DEFINE p == previous_run_loop_[l]
    <3>1. /\ run_loop_' = p /\ at' = [at EXCEPT ![l] = "Left"] /\ UNCHANGED queueVars
      BY <2>20 DEF AfterRun
    <3>2. p # NoLoop => at'[p] = "RunTask"
      <4>1. running_[l]
        BY <2>2 DEF Stack
      <4>2. SUFFICES ASSUME p # NoLoop PROVE at'[p] = "RunTask"
        OBVIOUS
      <4>3. p \in RunLoops
        BY <4>2 DEF RunTypes
      <4>4. running_[p] /\ run_depth_[l] = run_depth_[p] + 1 /\ run_depth_[p] \in Nat
        BY <4>1, <4>2, <4>3 DEF Stack, RunTypes
      <4>5. p # l
        BY <4>4
      <4> QED
        BY <2>2, <3>1, <4>3, <4>4, <4>5 DEF Stack
    <3> QED
      BY <2>3, <3>1, <3>2, BusyWatching DEF Watching, queueVars
  <2> QED
    BY <1>6, <2>7, <2>8, <2>9, <2>10, <2>14, <2>15, <2>16, <2>17, <2>18, <2>19, <2>20
       DEF Pump
<1> QED
  BY <1>2, <1>3, <1>4, <1>5, <1>6 DEF Next, Post, Client

\* It holds in every state.
THEOREM Watched == Spec => []Watching
<1>1. Init => Watching
  BY DEF Init, Watching
<1>2. Sound /\ Stack /\ Watching /\ [Next]_vars => Watching'
  BY WatchingStep
<1> QED
  BY <1>1, <1>2, Soundness, Stacked, PTL DEF Spec

\* MessageLoop::ScheduleWork(), DoWork() and DoDelayedWork() with the pump's wait: no
\* wake-up is lost.
THEOREM WakesUp ==
  ASSUME ~ NestAfterQuit
  PROVE  Spec => []WakesForWork
<1>1. ASSUME Sound, Stack, Quits, Watching, NEW l \in RunLoops, Asleep(l)
      PROVE  /\ keep_running_ /\ ~quit_called_[l] /\ ~quit_when_idle_received_[l]
             /\ nestable_tasks_allowed_ =>
                  /\ incoming_queue_ = <<>> /\ work_queue_ = <<>>
                  /\ run_depth_[l] = 1 => deferred_non_nestable_work_queue_ = <<>>
                  /\ delayed_work_queue_ # {} =>
                       /\ at[l] = "TimedWait"
                       /\ delayed_work_time_ = delayed_run_time[Top(delayed_work_queue_)]
  <2>1. /\ run_loop_ = l /\ l # NoLoop /\ ~ event_
        /\ at[l] = "TimedWait" \/ (at[l] = "Wait" /\ delayed_work_time_ = 0)
    BY <1>1, TaskAssumption DEF Asleep, Waiting, Pumping
  <2>2. keep_running_ /\ ~quit_called_[l] /\ ~quit_when_idle_received_[l]
    BY <1>1, <2>1 DEF Quits, QuitNotLost
  <2>3. ASSUME nestable_tasks_allowed_
        PROVE  incoming_queue_ = <<>> /\ work_queue_ = <<>>
    BY <1>1, <2>1, <2>3 DEF Watching, Busy
  <2>4. run_depth_[l] = 1 => deferred_non_nestable_work_queue_ = <<>>
    BY <1>1, <2>1 DEF Watching
  <2>5. ASSUME nestable_tasks_allowed_, delayed_work_queue_ # {}
        PROVE  /\ at[l] = "TimedWait"
               /\ delayed_work_time_ = delayed_run_time[Top(delayed_work_queue_)]
    <3>1. delayed_work_time_ = delayed_run_time[Top(delayed_work_queue_)]
      BY <1>1, <2>1, <2>5 DEF Watching
    <3>2. delayed_work_queue_ \in SUBSET Known
      BY <1>1 DEF Sound, Met, Held
    <3>3. Top(delayed_work_queue_) \in delayed_work_queue_
      BY <1>1, <2>5, <3>2, TopIs DEF Sound, TypeOK
    <3>4. delayed_work_time_ # 0
      BY <1>1, <3>1, <3>3 DEF Watching
    <3> QED
      BY <2>1, <3>1, <3>4
  <2> QED
    BY <2>2, <2>3, <2>4, <2>5
<1>2. Sound /\ Stack /\ Quits /\ Watching => WakesForWork
  BY <1>1 DEF WakesForWork
<1> QED
  BY <1>2, Soundness, Stacked, Flagged, Watched, PTL

\* MessageLoop::DoIdleWork() quits the loop only when the loop has done its work.
THEOREM IdleWhenDone == Spec => IdleMeansIdle
<1>1. ASSUME Sound, Stack, Watching, Next, NEW l \in RunLoops, QuitsIdle(l)
      PROVE  /\ work_queue_ = <<>>
             /\ run_depth_[l] = 1 =>
                  deferred_non_nestable_work_queue_ = <<>> /\ DueThen = {}
  <2>1. /\ at[l] = "DoIdleWork" /\ at'[l] = "Leave" /\ nestable_tasks_allowed_
        /\ at \in [RunLoops -> Places]
    BY <1>1 DEF QuitsIdle, Sound, TypeOK, FrameTypes
  <2>2. run_loop_ = l /\ l # NoLoop
    BY <1>1, <2>1, TaskAssumption DEF Stack, Running
  <2>3. DoIdleNothing(l)
    <3>1. CASE Post \/ Destroy \/ Tick \/ Destructor \/ QuitWhenIdle \/ QuitNow
               \/ \E m \in RunLoops : Quit(m)
      BY <2>1, <3>1 DEF Post, PostTask, RefuseTask, Destroy, Tick, Destructor, DeleteFirst,
         DeleteReload, DeleteAgain, WillDestroy, vars, unchangedByDestructor, frameVars,
         QuitWhenIdle, QuitNow, Quit, unchangedByQuit
    <3>2. ASSUME NEW m \in RunLoops, NEW until_idle \in BOOLEAN, NEW allow \in BOOLEAN,
                 Run(m, until_idle, allow)
          PROVE  FALSE
      <4>1. UNCHANGED at \/ at' = [at EXCEPT ![m] = "DoWork"]
        BY <3>2 DEF Run
      <4> QED
        BY <2>1, <4>1
    <3>3. ASSUME NEW m \in RunLoops, Pump(m)
          PROVE  DoIdleNothing(l)
      <4>1. m = run_loop_ /\ (at[m] = "DoIdleWork" => DoIdleTask(m) \/ DoIdleNothing(m))
        BY <3>3 DEF Pump, DoDelayedNothing, DoWorkNothing, DoDelayedEarly, DoIdleNothing,
           Disallow, Wake, StartTimedWait, TimeOut, SkipWait, AfterRun, DoWorkReload,
           DoWorkDelayed, DoWorkTask, DoDelayedTask, DoIdleTask, EndTask, Pumping, InTask,
           Waiting
      <4>2. ~ DoIdleTask(m)
        BY <2>1, <2>2, <4>1 DEF DoIdleTask, RunTask, Goto
      <4> QED
        BY <2>1, <2>2, <4>1, <4>2
    <3> QED
      BY <1>1, <3>1, <3>2, <3>3 DEF Next, Client
  <2>4. run_depth_[l] = 1 => deferred_non_nestable_work_queue_ = <<>>
    BY <2>3 DEF DoIdleNothing
  <2> QED
    BY <1>1, <2>1, <2>2, <2>4 DEF Watching, Busy
<1>2. Sound /\ Stack /\ Watching /\ [Next]_vars =>
        [\A l \in RunLoops : QuitsIdle(l) =>
           /\ work_queue_ = <<>>
           /\ run_depth_[l] = 1 =>
                deferred_non_nestable_work_queue_ = <<>> /\ DueThen = {}]_vars
  BY <1>1
<1> QED
  BY <1>2, Soundness, Stacked, Watched, PTL DEF Spec, IdleMeansIdle
=============================================================================
