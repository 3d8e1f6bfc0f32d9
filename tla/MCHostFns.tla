----------------------------- MODULE MCHostFns ------------------------------
(* Instances of HostFns for TLC.  The realms are interchangeable.          *)
EXTENDS HostFns, TLC

Symmetry == Permutations(Realms)
=============================================================================
