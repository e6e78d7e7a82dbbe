------------------------------- MODULE MCHealth -------------------------------
(* Health with sets of model values; c2, where it is a client, is mute.      *)
EXTENDS Health

CONSTANTS c1, c2

OneClient  == {c1}
TwoClients == {c1, c2}
NoHost     == {}
Second     == {c2}
===============================================================================
