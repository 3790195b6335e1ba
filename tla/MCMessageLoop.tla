---------------------------- MODULE MCMessageLoop ----------------------------
(***************************************************************************)
(* Instances of MessageLoop for TLC.  The tasks of a run are alike, as are *)
(* its run loops: whether a task is nestable and its delay are chosen when *)
(* it is posted, how a run loop is run when it is run.                     *)
(***************************************************************************)
EXTENDS MessageLoopRunner, TLC

CONSTANTS t1, t2, t3, l1, l2, l3

\* Delays of the tasks of a run.
AnyDelayed == [t \in Tasks |-> {0, 1}]
NoneDelayed == [t \in Tasks |-> {0}]
OneDelayed == [t \in Tasks |-> IF t = t1 THEN {1} ELSE {0}]

Symmetry == Permutations(Tasks) \cup Permutations(RunLoops)
=============================================================================
