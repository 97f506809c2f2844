----------------------------- MODULE MCBindings -----------------------------
(* All wrappers; the object slots are interchangeable. *)
EXTENDS Bindings, TLC

SlotSymmetry == Permutations(Slots)

(* The properties of Bindings without the exceptions they make, and one    *)
(* more; the README says which wrapper breaks which.                       *)

\* No call and no cursor step reaches a database that was closed.
NothingFreed == eng.freed = {}

\* Every open transaction, and the holder of the lock, has an owner.
EveryoneOwned ==
  /\ eng.active \ eng.rolledBack \subseteq Owned
  /\ eng.holder # 0 => eng.holder \in Owned

\* No transaction is committed after it was rolled back.
NothingRevived == eng.revived = {}

\* No failed single-call write has a COMMIT record.
EveryFailedWriteOut ==
  \A f \in failed : f.txn \notin eng.logged \intersect eng.committed

\* Without a requested rollback, a slot is free for the next transaction.
SlotsAlwaysLeft ==
  eng.live # 0 /\ asked = {} /\ ~dbo.txn_active /\ Cardinality(OpenObjects) < max_txns
    => BeginAllowed(eng)

\* What the Godot node takes for its open transaction is one.
NodeTxnLive ==
  dbo.h # 0 /\ dbo.txn_active /\ dbo.txn_handle # -1 => IsActive(eng, dbo.txn_handle)
=============================================================================
