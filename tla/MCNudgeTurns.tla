---------------------------- MODULE MCNudgeTurns ----------------------------
(* Instances of NudgeTurns for TLC: root and another PAI, a. *)
EXTENDS NudgeTurns

CONSTANTS root, a, m1, m2, m3

\* m3 is for root, the others are for a.
MCTo == [m \in Msgs |-> IF m = m3 THEN root ELSE a]
=============================================================================
