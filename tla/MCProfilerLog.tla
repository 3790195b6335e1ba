--------------------------- MODULE MCProfilerLog ---------------------------
(***************************************************************************)
(* Instances of ProfilerLog for TLC: processes of one thread each.         *)
(***************************************************************************)
EXTENDS ProfilerLog

CONSTANTS p1, p2, h1

TwoAndOne == [p \in Clients |-> IF p = p1 THEN 2 ELSE 1]
=============================================================================
