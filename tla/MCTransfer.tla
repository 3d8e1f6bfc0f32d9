----------------------------- MODULE MCTransfer -----------------------------
(* Instances of Transfer for TLC.  Isolates and plain stores are          *)
(* interchangeable.                                                        *)
EXTENDS Transfer, TLC

Symmetry == Permutations(Isolates) \cup Permutations(Plain)
=============================================================================
