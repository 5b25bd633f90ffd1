------------------------------ MODULE MCTools -------------------------------
(***************************************************************************)
(* Instances, for TLC, of what a turn of a PAI works with.                 *)
(***************************************************************************)
EXTENDS Tools

CONSTANTS a, w      \* two characters, of which w takes two bytes

SmallFiles == UNION {[1..n -> {a, w, LF, CR}] : n \in 0..4}
SmallEdits == [old : {<<a>>, <<w>>, <<a, a>>, <<a, w>>, <<LF>>, <<CR, LF, a>>},
               new : {<< >>, <<w>>, <<w, LF>>}]
=============================================================================
