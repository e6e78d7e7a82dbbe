------------------------------ MODULE MCLogRing ------------------------------
(***************************************************************************)
(* Instances of the log for TLC: the ring turns more than once, so that a  *)
(* rendering meets it empty, filling, full and turning, and texts get up   *)
(* to two characters longer than fit the buffer.                           *)
(***************************************************************************)
EXTENDS LogText
=============================================================================
