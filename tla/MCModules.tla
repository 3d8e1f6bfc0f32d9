----------------------------- MODULE MCModules ------------------------------
(* Instances of Modules for TLC.  The realms are interchangeable.          *)
EXTENDS Modules, TLC

Symmetry == Permutations(Realms)
=============================================================================
