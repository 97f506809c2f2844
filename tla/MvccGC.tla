------------------------------- MODULE MvccGC -------------------------------
(***************************************************************************)
(* Garbage collection (src/src/gc.c) running beside the transactions of    *)
(* MvccEngine.  A session starts on a database that was closed cleanly:    *)
(* transaction 1 of an earlier session left one committed version of every *)
(* key of OldKeys.  The collector only looks at pages below                *)
(* header.total_pages, which is not updated while a session runs, so only  *)
(* the chains of OldKeys are pruned.                                       *)
(*                                                                         *)
(* The collector copies the active list under txn_slot_mutex and then      *)
(* prunes page after page under root_lock with that copy.  GcQuiet = TRUE  *)
(* models a program that makes no call while the collector runs.           *)
(***************************************************************************)
EXTENDS MvccEngine

CONSTANTS OldKeys,     \* keys whose chain pages the header knows of
          GcCap,       \* length of the collector's array (GARRY_CHAIN_MAX_ACTIVE)
          GcQuiet

ASSUME GcAssumption ==
  /\ OldKeys \subseteq Keys
  /\ GcCap \in Nat
  /\ GcQuiet \in BOOLEAN
  /\ Values # {} /\ 1 \in Txns

VARIABLES gcSnap,      \* the copied active list
          gcTodo       \* keys whose pages are still to be visited

gcVars == <<vars, gcSnap, gcTodo>>

GcInit ==
  /\ next_txid = 2
  /\ active = {}
  /\ rolledBack = {}
  /\ locks = {}
  /\ tree = OldKeys
  /\ \E v \in Values :
        chain = [k \in Keys |-> IF k \in OldKeys THEN AppendVersion(<< >>, 1, v) ELSE << >>]
  /\ logged = {1}
  /\ pc = [t \in Txns |-> "none"]
  /\ op = [t \in Txns |-> NoOp]
  /\ gcSnap = {}
  /\ gcTodo = {}

\* The copy.  With more entries than the array holds the code writes past its
\* end; that case is left out here.
GcStart ==
  /\ gcTodo = {}
  /\ Cardinality(active) <= GcCap
  /\ GcQuiet => \A t \in Txns : pc[t] \in {"none", "idle"}
  /\ gcSnap' = active
  /\ gcTodo' = OldKeys
  /\ UNCHANGED vars

\* garry_chain_page_prune on one page, under root_lock.
GcPrune(k) ==
  /\ k \in gcTodo
  /\ chain' = [chain EXCEPT ![k] = Prune(chain[k], gcSnap)]
  /\ gcTodo' = gcTodo \ {k}
  /\ gcSnap' = IF gcTodo = {k} THEN {} ELSE gcSnap
  /\ UNCHANGED <<next_txid, active, rolledBack, locks, tree, logged, pc, op>>

\* garry_pool_try_pin finds no slot with the page: it is passed over.
GcSkip(k) ==
  /\ k \in gcTodo
  /\ gcTodo' = gcTodo \ {k}
  /\ gcSnap' = IF gcTodo = {k} THEN {} ELSE gcSnap
  /\ UNCHANGED vars

Engine ==
  /\ GcQuiet => gcTodo = {}
  /\ Next
  /\ UNCHANGED <<gcSnap, gcTodo>>

GcNext == GcStart \/ (\E k \in OldKeys : GcPrune(k) \/ GcSkip(k)) \/ Engine

GcSpec == GcInit /\ [][GcNext]_gcVars

-----------------------------------------------------------------------------
\* Pruning (garry_chain_page_prune) takes away no version an open transaction
\* reads, unless racing writers have put two uncommitted versions in one chain:
\* then only the last of them survives.
GcKeepsOpenReads ==
  [][\A t \in Txns, k \in Keys :
       (/\ gcTodo # gcTodo' /\ chain # chain'
        /\ IsActive(t) /\ pc[t] = "idle"
        /\ NoDirtyWrite)
         => Read(t, k)' = Read(t, k)]_gcVars

\* Pruning loses no committed data: a transaction begun right after it reads
\* what one begun right before it would have read.
GcKeepsLatest ==
  [][\A k \in OldKeys :
       (gcTodo # gcTodo' /\ chain # chain')
         => FindVisible(chain'[k], next_txid, active) = FindVisible(chain[k], next_txid, active)]_gcVars
=============================================================================
