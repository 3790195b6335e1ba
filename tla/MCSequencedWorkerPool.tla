------------------------ MODULE MCSequencedWorkerPool ------------------------
(***************************************************************************)
(* Instances of SequencedWorkerPool for TLC: three thread objects for a    *)
(* pool of at most two, and the tasks each run posts.                      *)
(***************************************************************************)
EXTENDS SequencedWorkerPoolRunners, TLC

CONSTANTS w1, w2, w3, main, client, t1, t2, t3, t4, A

WorkerSymmetry == Permutations(Workers)

\* Shutdown: in one sequence a task that the shutdown drops and one that blocks
\* it; outside any sequence one that it ignores and one that blocks it.
ShutdownTokens == [t \in Tasks |-> IF t \in {t1, t2} THEN A ELSE NoToken]
ShutdownBehaviors ==
  [t \in Tasks |-> IF t = t1 THEN "SKIP" ELSE IF t = t3 THEN "CONTINUE" ELSE "BLOCK"]
NoDelays == [t \in Tasks |-> 0]

\* Liveness: three tasks that are alike and a delayed one, none in a sequence.
LiveTokens == [t \in Tasks |-> NoToken]
LiveBehaviors == [t \in Tasks |-> IF t = t4 THEN "SKIP" ELSE "BLOCK"]
LiveDelays == [t \in Tasks |-> IF t = t4 THEN 1 ELSE 0]

\* In place of a symmetry, which liveness forbids, a constraint: workers that are alike
\* are created in one order, and tasks that are alike posted in one. Every other
\* behaviour is one of these under other names.
InOrder ==
  /\ pc[w2] # "unborn" => pc[w1] # "unborn"
  /\ outcome[t2] # "new" => outcome[t1] # "new"
  /\ outcome[t3] # "new" => outcome[t2] # "new"
=============================================================================
