---------------------------- MODULE MCWatchdog -----------------------------
(* Instances of Watchdog for TLC; the constants are given by the cfgs.     *)
EXTENDS Watchdog
=============================================================================
