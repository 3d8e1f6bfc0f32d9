----------------------------- MODULE MCThrown -----------------------------
(* Instances of Thrown for TLC.  The isolates are interchangeable,         *)
(* and so are the values.                                                  *)
EXTENDS Thrown, TLC

Symmetry == Permutations(Isolates) \cup Permutations(Values)
=============================================================================
