------------------------------ MODULE MCRealms ------------------------------
(* Instances of Realms for TLC; the constants are given by the cfgs.       *)
EXTENDS Realms
=============================================================================
