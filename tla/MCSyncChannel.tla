--------------------------- MODULE MCSyncChannel ---------------------------
(***************************************************************************)
(* Instances of SyncChannel for TLC.                                       *)
(***************************************************************************)
EXTENDS SyncChannel

CONSTANTS c1, c2, c3

\* Calls that cross, and one more that can be made while handling the other side's.
Crossing == [c \in Calls |-> IF c = c2 THEN Right ELSE Left]
=============================================================================
