---------------------------- MODULE MCDurability ----------------------------
(* Small instances of Durability for TLC. *)
EXTENDS Durability, TLC

Symmetry == Permutations(Keys) \union Permutations(Values)

\* Whatever a new transaction reads was once committed.  TLC refutes it as soon
\* as a session has a rollback or a crash (DurTable.cfg): a rolled-back
\* transaction, and one that was open at a crash and whose id is given out
\* again, do leave something behind.
OnlyCommittedVisible ==
  Quiescent => \A k \in Keys :
     Fresh(k) # NotFound => Fresh(k) \in everCommitted[k]
=============================================================================
