-------------------------- MODULE MCProfilerThread --------------------------
(***************************************************************************)
(* Instances of ProfilerThread for TLC: the threads of the profiler (UI,   *)
(* IO and DB, of which DB is replaced), and one that has no MessageLoop.   *)
(***************************************************************************)
EXTENDS ProfilerThread, TLC

CONSTANTS ui, o1, o2, o3, other, t1, t2, t3

Symmetry == Permutations(Objects \ {Main}) \cup Permutations(Tasks)
=============================================================================
