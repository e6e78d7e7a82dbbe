------------------------------- MODULE MCRouter -------------------------------
(***************************************************************************)
(* Instances of Router for TLC.  The driver may fail on one candidate      *)
(* before the last, and the backoff grows once, to its cap: smaller than   *)
(* in module Uplink's own run, since the steps of NAPT come in between.    *)
(***************************************************************************)
EXTENDS Router
===============================================================================
