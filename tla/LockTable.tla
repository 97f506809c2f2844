------------------------------ MODULE LockTable ------------------------------
(***************************************************************************)
(* The lock table (src/src/lock_table.c): a linked list of nodes, each the *)
(* transaction, the key and the mode of one granted lock.  All readers of  *)
(* the list look for the existence of a node, and a transaction never has  *)
(* two nodes for one key, so the list is modelled as the set of its nodes. *)
(***************************************************************************)
EXTENDS Naturals

Modes == {"SHARED", "EXCLUSIVE"}

\* Variant: the fields are filled in the wrong order.
LockNodeSwapped(txn, key, mode) == [txn |-> key, key |-> txn, mode |-> mode]

LockNode(txn, key, mode) == [txn |-> txn, key |-> key, mode |-> mode]

\* garry_lock_held: any mode counts.
LockHeld(locks, txn, key) ==
  \E n \in locks : n.txn = txn /\ n.key = key

\* Variant: the test on the owner is inverted.
HasConflictOwn(locks, txn, key, mode) ==
  \E n \in locks : n.key = key /\ n.txn = txn

\* garry_has_conflict: another transaction on the same key, and one of the
\* two modes is exclusive.
HasConflict(locks, txn, key, mode) ==
  \E n \in locks : /\ n.key = key
                   /\ n.txn # txn
                   /\ n.mode = "EXCLUSIVE" \/ mode = "EXCLUSIVE"

\* garry_lock_acquire, its outcome: it never waits, it grants or refuses.
AcquireOk(locks, txn, key, mode) ==
  LockHeld(locks, txn, key) \/ ~ HasConflict(locks, txn, key, mode)

\* garry_lock_acquire, the list after a grant: a node is linked in only when
\* the transaction had none for the key, whatever mode that one has.
AfterGrant(locks, txn, key, mode) ==
  IF LockHeld(locks, txn, key)
  THEN locks
  ELSE locks \union {LockNode(txn, key, mode)}

\* garry_lock_release
ReleaseAll(locks, txn) == {n \in locks : n.txn # txn}
=============================================================================
