---------------------------- MODULE VersionChain ----------------------------
(***************************************************************************)
(* Version chains (src/src/version_chain.c).  A chain page holds the       *)
(* versions of one key, oldest first.  An entry records the transaction    *)
(* that created it and either a value or a tombstone.  The on-page field   *)
(* txid_deleted is written as 0 by all three append functions and by       *)
(* nothing else, so the condition "txid_deleted # 0 /\ ..." of the readers *)
(* is never true and an entry here carries no such field.  Whether a value *)
(* is stored inline or in overflow pages does not change what is visible.  *)
(***************************************************************************)
EXTENDS Integers, Sequences, FiniteSets

CONSTANTS Values,        \* the values a client may store
          Tombstone,     \* the mark a delete appends
          NotFound       \* what a reader gets when nothing is visible

ASSUME ValuesAssumption ==
  /\ Tombstone \notin Values
  /\ NotFound \notin Values \union {Tombstone}

\* The entries a chain can hold.
Entry == [txn : Nat, val : Values \union {Tombstone}]

(***************************************************************************)
(* garry_chain_page_append, _append_overflow and _append_tombstone: the    *)
(* entry goes after the last slot of the page; a page with no slot left    *)
(* refuses it and is unchanged.  The code counts the bytes left on the     *)
(* page, the model entries.                                                *)
(***************************************************************************)
CanAppend(chain, cap) == Len(chain) < cap

AppendVersion(chain, txn, val) == Append(chain, [txn |-> txn, val |-> val])

\* Variant: the active list is not consulted.
VisibleIgnoringActive(entry, snap, active) == entry.txn <= snap

(***************************************************************************)
(* The visibility test shared by garry_chain_page_find_visible and         *)
(* garry_chain_page_has_visible: the creator is not newer than the reader  *)
(* and is not another transaction of the active list.                      *)
(***************************************************************************)
VisibleTo(entry, snap, active) ==
  /\ entry.txn <= snap
  /\ ~ (entry.txn \in active /\ entry.txn # snap)

VisibleAt(chain, snap, active) ==
  {i \in 1 .. Len(chain) : VisibleTo(chain[i], snap, active)}

\* Variant: the scan runs from the first slot.
NewestIsFirst(slots) == CHOOSE i \in slots : \A j \in slots : i <= j

\* The scan runs from the last slot to the first and stops at the first
\* visible entry.
Newest(slots) == CHOOSE i \in slots : \A j \in slots : j <= i

FindVisible(chain, snap, active) ==
  LET slots == VisibleAt(chain, snap, active)
  IN  IF slots = {} \/ chain[Newest(slots)].val = Tombstone
      THEN NotFound
      ELSE chain[Newest(slots)].val

HasVisible(chain, snap, active) ==
  \E i \in VisibleAt(chain, snap, active) :
     /\ chain[i].val # Tombstone
     /\ \A j \in VisibleAt(chain, snap, active) : j <= i

\* Variant: the active list is not consulted.
SurvivesOnlyLast(chain, i, active) == i = Len(chain)

(***************************************************************************)
(* garry_chain_page_prune: a page with at most one entry is left alone;    *)
(* otherwise the last entry survives, and of the others those whose        *)
(* creator is outside the given active list and not newer than one of its  *)
(* members.                                                                *)
(***************************************************************************)
Survives(chain, i, active) ==
  \/ i = Len(chain)
  \/ /\ \E snap \in active : chain[i].txn <= snap
     /\ chain[i].txn \notin active

\* The survivors among the first n entries.
SurvivorsUpTo(chain, active) ==
  LET Kept[n \in 0 .. Len(chain)] ==
        IF n = 0 THEN << >>
        ELSE IF Survives(chain, n, active) THEN Append(Kept[n - 1], chain[n])
        ELSE Kept[n - 1]
  IN  Kept

Prune(chain, active) ==
  IF Len(chain) <= 1 THEN chain ELSE SurvivorsUpTo(chain, active)[Len(chain)]
=============================================================================
