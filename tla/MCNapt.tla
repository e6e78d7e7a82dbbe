-------------------------------- MODULE MCNapt --------------------------------
(***************************************************************************)
(* Instances of Napt for TLC.  The clock wraps after a few units, so that  *)
(* the grace period ends, the wrap comes round and both meet every step of *)
(* the two tasks.                                                          *)
(***************************************************************************)
EXTENDS Napt
=============================================================================
