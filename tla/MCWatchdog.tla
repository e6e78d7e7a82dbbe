------------------------------ MODULE MCWatchdog ------------------------------
(***************************************************************************)
(* Instances of Watchdog for TLC: millis() wraps soon after the thresholds *)
(* can be reached, so that every stall meets the wrap at every phase.      *)
(***************************************************************************)
EXTENDS Watchdog
=============================================================================
