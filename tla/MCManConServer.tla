--------------------------- MODULE MCManConServer ---------------------------
(* ManConServer for TLC; the threads of the pool are interchangeable.      *)
EXTENDS ManConServer, TLC

PoolSymmetry == Permutations(Threads)
=============================================================================
