---------------------------- MODULE MCBufferPool ----------------------------
(* Small instances of BufferPool for TLC. *)
EXTENDS BufferPool, TLC

Symmetry == Permutations(Threads) \union Permutations(Data)
=============================================================================
