------------------------------ MODULE MCUplink ------------------------------
(***************************************************************************)
(* Instances of Uplink for TLC.  One unit of time is the initial backoff:  *)
(* the quiet time is as long, the backoff doubles once and then meets its  *)
(* cap, and the attempt deadline lies beyond the longest backoff, as in    *)
(* the source (2 s, 2 s, 15 s, 20 s).                                      *)
(***************************************************************************)
EXTENDS Uplink
=============================================================================
