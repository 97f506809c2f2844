----------------------------- MODULE MvccEngine -----------------------------
(***************************************************************************)
(* The transactional core of one session of the engine: the transaction    *)
(* list (src/src/transaction.c), the lock table (src/src/lock_table.c),    *)
(* the B-tree as the set of keys it maps to a chain, the version chains    *)
(* (src/src/version_chain.c) and the operations of the storage layer       *)
(* (src/src/storage_ops.c, src/src/storage_txn.c).                         *)
(*                                                                         *)
(* Every transaction is driven by one thread, which makes one call at a    *)
(* time; threads interleave.  A step of this module is a piece of code     *)
(* that runs under one lock (txn_slot_mutex or root_lock) or touches only  *)
(* the thread's own transaction; pc[t] says where in a call the thread of  *)
(* transaction t is.  Reads do not change the state and are the operators  *)
(* Read and Exists.                                                        *)
(*                                                                         *)
(* Nothing in the engine acquires or releases key locks under a mutex,     *)
(* although lock_table.c asks its callers to.  EngineMutex = TRUE models   *)
(* callers that do serialise their calls (a single-threaded program with   *)
(* many open transactions, or an application mutex): nobody asks for a     *)
(* lock between another's test for a conflict and the insertion of its     *)
(* node.  A release takes away the caller's own nodes only and may come    *)
(* between the two.                                                        *)
(*                                                                         *)
(* A client commits or rolls back a transaction once and does not use it   *)
(* afterwards, as include/garry/transaction.h asks ("After this call txn   *)
(* is invalid"); garry_storage_commit and garry_storage_rollback do not    *)
(* check it, so the guard IsActive of CommitLog and RollbackRelease stands *)
(* for the client.                                                         *)
(***************************************************************************)
EXTENDS VersionChain, LockTable

CONSTANTS Keys,          \* the keys clients use
          max_txns,      \* engine setting: open transactions at a time
          list_cap,      \* length of the active list (max_txns * 64)
          ChainCap,      \* slots of a chain page (GARRY_MAX_SLOTS)
          EngineMutex,   \* lock table calls are serialised by the callers
          MaxTxn         \* bound: transactions begun in a behaviour

ASSUME EngineAssumption ==
  /\ max_txns \in Nat
  /\ list_cap \in Nat
  /\ ChainCap \in Nat
  /\ MaxTxn \in Nat
  /\ EngineMutex \in BOOLEAN

Txns == 1 .. MaxTxn

\* pc: not begun, between calls, in garry_storage_set/_delete (lock node not
\* yet linked; lock held), in garry_storage_commit (COMMIT record synced;
\* locks released; slot removed), in garry_storage_rollback (locks released).
PCs == {"none", "idle", "link", "apply", "logged", "released", "removed", "unwound"}

VARIABLES next_txid,     \* the id the next transaction gets
          active,        \* active_txns: ids in the active list
          rolledBack,    \* those whose txn_states say GARRY_TXN_ROLLED_BACK
          locks,         \* nodes of the lock table
          tree,          \* keys that have a descriptor in the B-tree
          chain,         \* per key, the entries of its chain page
          logged,        \* transactions whose COMMIT record is synced
          pc,            \* per transaction, where its thread is
          op             \* per transaction, the write in progress

vars == <<next_txid, active, rolledBack, locks, tree, chain, logged, pc, op>>

Write == [key : Keys, val : Values \union {Tombstone}]
NoOp == [key |-> NotFound, val |-> NotFound]

Init ==
  /\ next_txid = 1
  /\ active = {}
  /\ rolledBack = {}
  /\ locks = {}
  /\ tree = {}
  /\ chain = [k \in Keys |-> << >>]
  /\ logged = {}
  /\ pc = [t \in Txns |-> "none"]
  /\ op = [t \in Txns |-> NoOp]

-----------------------------------------------------------------------------
\* garry_txn_is_active: in the list and not rolled back.
IsActive(t) == t \in active /\ t \notin rolledBack

\* garry_storage_get: what transaction t reads for key k.  The visibility test
\* uses the active list of the moment of the read.  A chain page that cannot be
\* pinned, which the code reports as a missing key, is left out.
Read(t, k) ==
  IF IsActive(t) /\ k \in tree THEN FindVisible(chain[k], t, active) ELSE NotFound

\* garry_mvcc_exists over the same chain.
Exists(t, k) == k \in tree /\ HasVisible(chain[k], t, active)

-----------------------------------------------------------------------------
\* Variant: rolled-back transactions that keep their slot are not counted.
BeginAllowedNoListCap == Cardinality(active \ rolledBack) < max_txns

\* garry_mvcc_begin: the two limits, a new id, a new slot at the end.
BeginAllowed ==
  /\ Cardinality(active \ rolledBack) < max_txns
  /\ Cardinality(active) < list_cap

Begin(t) ==
  /\ t = next_txid
  /\ BeginAllowed
  /\ next_txid' = next_txid + 1
  /\ active' = active \union {t}
  /\ pc' = [pc EXCEPT ![t] = "idle"]
  /\ UNCHANGED <<rolledBack, locks, tree, chain, logged, op>>

\* Variant: the caller does not look at the answer of garry_lock_acquire.
AcquireLockIgnoringOk(t, k, v) ==
  /\ pc[t] = "idle"
  /\ IsActive(t)
  /\ EngineMutex => \A u \in Txns : pc[u] # "link"
  /\ op' = [op EXCEPT ![t] = [key |-> k, val |-> v]]
  /\ pc' = [pc EXCEPT ![t] = IF LockHeld(locks, t, k) THEN "apply" ELSE "link"]
  /\ UNCHANGED <<next_txid, active, rolledBack, locks, tree, chain, logged>>

(***************************************************************************)
(* garry_storage_set and garry_storage_delete, first part: the activity    *)
(* check and the conflict test of garry_lock_acquire.  A call that is      *)
(* refused returns without a change, and a key held already needs no node. *)
(* A delete carries the value Tombstone.                                   *)
(***************************************************************************)
AcquireLock(t, k, v) ==
  /\ pc[t] = "idle"
  /\ IsActive(t)
  /\ EngineMutex => \A u \in Txns : pc[u] # "link"
  /\ AcquireOk(locks, t, k, "EXCLUSIVE")
  /\ op' = [op EXCEPT ![t] = [key |-> k, val |-> v]]
  /\ pc' = [pc EXCEPT ![t] = IF LockHeld(locks, t, k) THEN "apply" ELSE "link"]
  /\ UNCHANGED <<next_txid, active, rolledBack, locks, tree, chain, logged>>

(***************************************************************************)
(* The end of garry_lock_acquire: the node is linked in.  The insertion    *)
(* reads and writes the head of the list in two steps, so if calls are not *)
(* serialised another thread that is changing the list may overwrite the   *)
(* head and lose the node.                                                 *)
(***************************************************************************)
ChangingList(u) == pc[u] \in {"link", "logged", "removed", "unwound"}

LinkNode(t) ==
  /\ pc[t] = "link"
  /\ \/ locks' = AfterGrant(locks, t, op[t].key, "EXCLUSIVE")
     \/ /\ ~ EngineMutex
        /\ \E u \in Txns \ {t} : ChangingList(u)
        /\ locks' = locks
  /\ pc' = [pc EXCEPT ![t] = "apply"]
  /\ UNCHANGED <<next_txid, active, rolledBack, tree, chain, logged, op>>

\* garry_mvcc_set, garry_mvcc_delete: append to the chain page if it has room.
Appended(k, t, v) ==
  IF CanAppend(chain[k], ChainCap)
  THEN [chain EXCEPT ![k] = AppendVersion(chain[k], t, v)]
  ELSE chain

(***************************************************************************)
(* The rest of garry_storage_set, under the write lock on root_lock: find  *)
(* the key or allocate its chain and insert it in the tree, append.  A set *)
(* that cannot allocate the chain or insert the key ends without an effect *)
(* on this state; it is left out, and BTree says what it does to the tree. *)
(***************************************************************************)
ApplySet(t) ==
  LET k == op[t].key
  IN  /\ pc[t] = "apply"
      /\ op[t].val # Tombstone
      /\ tree' = tree \union {k}
      /\ chain' = Appended(k, t, op[t].val)
      /\ pc' = [pc EXCEPT ![t] = "idle"]
      /\ op' = [op EXCEPT ![t] = NoOp]
      /\ UNCHANGED <<next_txid, active, rolledBack, locks, logged>>

(***************************************************************************)
(* The rest of garry_storage_delete: a tombstone if the key is in the      *)
(* tree, nothing otherwise; the lock is kept in both cases.                *)
(***************************************************************************)
ApplyDelete(t) ==
  LET k == op[t].key
  IN  /\ pc[t] = "apply"
      /\ op[t].val = Tombstone
      /\ chain' = IF k \in tree THEN Appended(k, t, Tombstone) ELSE chain
      /\ pc' = [pc EXCEPT ![t] = "idle"]
      /\ op' = [op EXCEPT ![t] = NoOp]
      /\ UNCHANGED <<next_txid, active, rolledBack, locks, tree, logged>>

-----------------------------------------------------------------------------
\* garry_storage_commit, 1: the COMMIT record is appended and synced.
CommitLog(t) ==
  /\ pc[t] = "idle"
  /\ IsActive(t)
  /\ logged' = logged \union {t}
  /\ pc' = [pc EXCEPT ![t] = "logged"]
  /\ UNCHANGED <<next_txid, active, rolledBack, locks, tree, chain, op>>

\* garry_storage_commit, 2: the key locks are released.
CommitRelease(t) ==
  /\ pc[t] = "logged"
  /\ locks' = ReleaseAll(locks, t)
  /\ pc' = [pc EXCEPT ![t] = "released"]
  /\ UNCHANGED <<next_txid, active, rolledBack, tree, chain, logged, op>>

\* Variant: the slot is not removed from the list.
CommitRemoveForgotten(t) ==
  /\ pc[t] = "released"
  /\ pc' = [pc EXCEPT ![t] = "removed"]
  /\ UNCHANGED <<next_txid, active, rolledBack, locks, tree, chain, logged, op>>

\* garry_mvcc_commit, 1: the slot is removed, under txn_slot_mutex.
CommitRemove(t) ==
  /\ pc[t] = "released"
  /\ active' = active \ {t}
  /\ rolledBack' = rolledBack \ {t}
  /\ pc' = [pc EXCEPT ![t] = "removed"]
  /\ UNCHANGED <<next_txid, locks, tree, chain, logged, op>>

\* garry_mvcc_commit, 2: a second release, and the flush of the pages the
\* transaction modified (what reaches the disk is the concern of Durability).
CommitFlush(t) ==
  /\ pc[t] = "removed"
  /\ locks' = ReleaseAll(locks, t)
  /\ pc' = [pc EXCEPT ![t] = "idle"]
  /\ UNCHANGED <<next_txid, active, rolledBack, tree, chain, logged, op>>

\* Variant: rollback leaves the key locks to the end of the session.
RollbackReleaseNone(t) ==
  /\ pc[t] = "idle"
  /\ IsActive(t)
  /\ pc' = [pc EXCEPT ![t] = "unwound"]
  /\ UNCHANGED <<next_txid, active, rolledBack, locks, tree, chain, logged, op>>

\* garry_storage_rollback, 1: the key locks are released (the ABORT record is
\* not read by recovery).
RollbackRelease(t) ==
  /\ pc[t] = "idle"
  /\ IsActive(t)
  /\ locks' = ReleaseAll(locks, t)
  /\ pc' = [pc EXCEPT ![t] = "unwound"]
  /\ UNCHANGED <<next_txid, active, rolledBack, tree, chain, logged, op>>

\* Variant: rollback removes the slot, as commit does.
RollbackMarkRemoves(t) ==
  /\ pc[t] = "unwound"
  /\ active' = active \ {t}
  /\ locks' = ReleaseAll(locks, t)
  /\ pc' = [pc EXCEPT ![t] = "idle"]
  /\ UNCHANGED <<next_txid, rolledBack, tree, chain, logged, op>>

\* garry_mvcc_rollback: the slot is marked and stays in the list.
RollbackMark(t) ==
  /\ pc[t] = "unwound"
  /\ rolledBack' = rolledBack \union ({t} \intersect active)
  /\ locks' = ReleaseAll(locks, t)
  /\ pc' = [pc EXCEPT ![t] = "idle"]
  /\ UNCHANGED <<next_txid, active, tree, chain, logged, op>>

-----------------------------------------------------------------------------
\* The steps inside a call: a thread that has started a call finishes it.
Step(t) ==
  \/ LinkNode(t)
  \/ ApplySet(t)
  \/ ApplyDelete(t)
  \/ CommitRelease(t)
  \/ CommitRemove(t)
  \/ CommitFlush(t)
  \/ RollbackMark(t)

\* The calls a client makes.
Call(t) ==
  \/ Begin(t)
  \/ \E k \in Keys, v \in Values \union {Tombstone} : AcquireLock(t, k, v)
  \/ CommitLog(t)
  \/ RollbackRelease(t)

Next == \E t \in Txns : Call(t) \/ Step(t)

\* Threads inside a call are scheduled: no step of a call waits for another
\* transaction (garry_lock_acquire refuses instead of blocking).
Fairness == \A t \in Txns : WF_vars(Step(t))

Spec == Init /\ [][Next]_vars /\ Fairness

-----------------------------------------------------------------------------
\* Types of the engine's state: among others, only open transactions are marked
\* rolled back and the engine's own locks are all exclusive.
TypeOK ==
  /\ next_txid \in Nat \ {0}
  /\ active \subseteq Txns
  /\ rolledBack \subseteq active
  /\ locks \subseteq [txn : Txns, key : Keys, mode : {"EXCLUSIVE"}]
  /\ tree \subseteq Keys
  /\ chain \in [Keys -> Seq(Entry)]
  /\ logged \subseteq Txns
  /\ pc \in [Txns -> PCs]
  /\ op \in [Txns -> Write \union {NoOp}]

\* The two limits of garry_mvcc_begin keep the slot arrays from overflowing,
\* however many transactions are rolled back: at most max_txns transactions
\* are open and the list never outgrows its allocation.
SlotLimits ==
  /\ Cardinality(active \ rolledBack) <= max_txns
  /\ Cardinality(active) <= list_cap

\* garry_lock_acquire: no key is locked exclusively by two transactions.
ExclusiveLocks ==
  \A m, n \in locks : m.key = n.key => m.txn = n.txn

\* Every path that ends a transaction releases its locks: one that was
\* committed, rolled back or is already being published holds none, so a
\* refused writer may always retry with success after the holder's call.
NoLockLeak ==
  \A n \in locks : IsActive(n.txn) /\ pc[n.txn] \notin {"none", "released", "removed", "unwound"}

\* A version by one transaction is followed by a version of another one only
\* when the first has its COMMIT record on disk or is being or was rolled
\* back: nobody writes over an uncommitted version (garry_storage_set takes
\* the key lock before it appends, garry_storage_commit logs before it unlocks).
Settled(t) == t \in logged \/ t \in rolledBack \/ pc[t] = "unwound"

NoDirtyWrite ==
  \A k \in Keys : \A i, j \in 1 .. Len(chain[k]) :
     (i < j /\ chain[k][i].txn # chain[k][j].txn) => Settled(chain[k][i].txn)

\* Whatever a transaction can read was written by itself or by a transaction
\* whose COMMIT record is already synced: the effects of a transaction are
\* never seen before its outcome is durable, and never if it rolled back.
NoDirtyRead ==
  \A t \in Txns, k \in Keys :
     IsActive(t) =>
       \A i \in VisibleAt(chain[k], t, active) :
          LET w == chain[k][i].txn
          IN  w = t \/ (w \in logged /\ w \notin rolledBack)

\* The view of an open transaction is changed by nothing but its own writes:
\* what "snapshot isolation" means for garry_storage_get.
SnapshotStable ==
  [][\A t \in Txns, k \in Keys :
       (IsActive(t) /\ IsActive(t)' /\ pc[t] # "apply") => Read(t, k)' = Read(t, k)]_vars

\* A transaction whose COMMIT record is synced is published: its slot leaves
\* the active list and its locks are gone.
CommitPublishes ==
  \A t \in Txns : (t \in logged) ~> (t \notin active /\ \A n \in locks : n.txn # t)
=============================================================================
