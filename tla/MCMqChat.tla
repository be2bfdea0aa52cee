------------------------------ MODULE MCMqChat ------------------------------
(* MqChat for TLC.  The numbers of Broadcast's texts are bounded by the    *)
(* lines that can be typed.                                                *)
EXTENDS MqChat, TLC

CONSTANTS c1, c2, n1, n2

TwoClients == {c1, c2}
TwoNames == {n1, n2}
=============================================================================
