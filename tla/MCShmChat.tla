----------------------------- MODULE MCShmChat -----------------------------
(* ShmChat for TLC: the processes and lines are given in the .cfg files.   *)
EXTENDS ShmChat, TLC

CONSTANTS c1, c2

TwoClients == {c1, c2}
Texts == {"text", "stop"}
Commands == {"text", "stop", "new"}
JustStop == {"stop"}
ClientSymmetry == Permutations(Clients)
=============================================================================
