----------------------------- MODULE MCOverflow ------------------------------
(* Small instances of Overflow for TLC: a value of two chunks, logged as it is,
   and a value that is stored in the chain page although its log record needs
   two overflow pages, as a compressed one does; the tombstone stands for what
   is stored in chain page and record themselves. *)
EXTENDS Overflow, TLC

CONSTANTS large, packed

MCChunks == [v \in Values |-> IF v = large THEN 2 ELSE 0]
MCLogForm == [v \in Values |-> large]
==============================================================================
