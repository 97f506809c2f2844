----------------------------- MODULE Durability -----------------------------
(***************************************************************************)
(* The engine over several sessions: the write-ahead log (src/src/         *)
(* wal_log.c, wal_record.c), what reaches the database file and when       *)
(* (src/src/buffer_pool.c, garry_mvcc_commit), closing and opening a       *)
(* database (src/src/transaction.c, storage_engine.c) and redo recovery    *)
(* (src/src/wal_recovery.c), composed with the steps of MvccEngine.        *)
(*                                                                         *)
(* A crash is the end of the process: memory is lost, whatever was written *)
(* to the two files stays.  The tree pages of the file change together     *)
(* (diskTree); each key's chain page changes by itself (diskChain).        *)
(*                                                                         *)
(* Env names the optional events of a run: "delete" and "rollback" calls,  *)
(* "close" (clean, with no transaction open), "abandon" (close with open   *)
(* transactions), "crash" and "evict" (the pool writes back a dirty page   *)
(* to make room).                                                          *)
(***************************************************************************)
EXTENDS MvccEngine

CONSTANTS Env,
          MaxModified,   \* GARRY_MAX_MODIFIED_PAGES
          MaxOpens,      \* bound: how often the database is opened again
          MaxLog         \* bound: records in the log when a write starts

ASSUME DurabilityAssumption ==
  /\ Env \subseteq {"delete", "rollback", "close", "abandon", "crash", "evict"}
  /\ MaxModified \in Nat
  /\ MaxOpens \in Nat
  /\ MaxLog \in Nat

VARIABLES up,          \* a session is running
          opens,       \* how often the database was opened again
          wal,         \* the records of the log file
          diskTree,    \* keys in the tree pages of the file
          diskChain,   \* per key, the entries of its chain page in the file
          diskNext,    \* next_txid in the header page of the file
          modified,    \* modified_pages of each transaction's slot
          mine,        \* history: what each open transaction wrote last
          truth,       \* history: per key, the last committed write
          everCommitted \* history: per key, all committed writes

diskVars == <<up, opens, wal, diskTree, diskChain, diskNext, modified>>
ghosts == <<mine, truth, everCommitted>>
allVars == <<vars, diskVars, ghosts>>

\* garry_make_update_record, _delete_record, _commit_record, _abort_record
Record(kind, t, k, v) == [kind |-> kind, txn |-> t, key |-> k, val |-> v]

Logged(kind, t, k, v) == wal' = Append(wal, Record(kind, t, k, v))

NoneWritten == [k \in Keys |-> NotFound]

DInit ==
  /\ Init
  /\ up = TRUE
  /\ opens = 0
  /\ wal = << >>
  /\ diskTree = {}
  /\ diskChain = [k \in Keys |-> << >>]
  /\ diskNext = 1
  /\ modified = [t \in Txns |-> << >>]
  /\ mine = [t \in Txns |-> NoneWritten]
  /\ truth = NoneWritten
  /\ everCommitted = [k \in Keys |-> {}]

-----------------------------------------------------------------------------
\* The calls and steps of a running session, with their effect on the files.

DBegin(t) ==
  /\ up
  /\ Begin(t)
  /\ modified' = [modified EXCEPT ![t] = << >>]
  /\ mine' = [mine EXCEPT ![t] = NoneWritten]
  /\ UNCHANGED <<up, opens, wal, diskTree, diskChain, diskNext, truth, everCommitted>>

DAcquireLock(t, k, v) ==
  /\ up
  /\ Len(wal) < MaxLog
  /\ v = Tombstone => "delete" \in Env
  /\ AcquireLock(t, k, v)
  /\ UNCHANGED <<diskVars, ghosts>>

DLinkNode(t) ==
  /\ LinkNode(t)
  /\ UNCHANGED <<diskVars, ghosts>>

\* The chain page is entered in the slot's modified_pages while there is room.
NoteModified(t, k) ==
  modified' = IF CanAppend(chain[k], ChainCap) /\ Len(modified[t]) < MaxModified
              THEN [modified EXCEPT ![t] = Append(@, k)]
              ELSE modified

NoteMine(t, k, v) ==
  mine' = IF CanAppend(chain[k], ChainCap) THEN [mine EXCEPT ![t][k] = v] ELSE mine

\* The UPDATE record is appended before the chain page is changed, and stays
\* when the append to the page then fails.
DApplySet(t) ==
  LET k == op[t].key  v == op[t].val
  IN  /\ ApplySet(t)
      /\ Logged("UPDATE", t, k, v)
      /\ NoteModified(t, k)
      /\ NoteMine(t, k, v)
      /\ UNCHANGED <<up, opens, diskTree, diskChain, diskNext, truth, everCommitted>>

DApplyDelete(t) ==
  LET k == op[t].key
  IN  /\ ApplyDelete(t)
      /\ IF k \in tree
         THEN /\ Logged("DELETE", t, k, Tombstone)
              /\ NoteModified(t, k)
              /\ NoteMine(t, k, Tombstone)
         ELSE UNCHANGED <<wal, modified, mine>>
      /\ UNCHANGED <<up, opens, diskTree, diskChain, diskNext, truth, everCommitted>>

DCommitLog(t) ==
  /\ CommitLog(t)
  /\ Logged("COMMIT", t, NotFound, NotFound)
  /\ truth' = [k \in Keys |-> IF mine[t][k] = NotFound THEN truth[k] ELSE mine[t][k]]
  /\ everCommitted' = [k \in Keys |-> everCommitted[k] \union ({mine[t][k]} \ {NotFound})]
  /\ UNCHANGED <<up, opens, diskTree, diskChain, diskNext, modified, mine>>

DCommitRelease(t) ==
  /\ CommitRelease(t)
  /\ UNCHANGED <<diskVars, ghosts>>

DCommitRemove(t) ==
  /\ CommitRemove(t)
  /\ UNCHANGED <<diskVars, ghosts>>

\* garry_pool_flush_page for the first page left in the list: the whole page is
\* written, the versions of other transactions with it.
DFlushPage(t) ==
  /\ pc[t] = "removed"
  /\ modified[t] # << >>
  /\ diskChain' = [diskChain EXCEPT ![Head(modified[t])] = chain[Head(modified[t])]]
  /\ modified' = [modified EXCEPT ![t] = Tail(@)]
  /\ UNCHANGED <<vars, up, opens, wal, diskTree, diskNext, ghosts>>

DCommitFlush(t) ==
  /\ modified[t] = << >>
  /\ CommitFlush(t)
  /\ UNCHANGED <<diskVars, ghosts>>

DRollbackRelease(t) ==
  /\ "rollback" \in Env
  /\ RollbackRelease(t)
  /\ Logged("ABORT", t, NotFound, NotFound)
  /\ UNCHANGED <<up, opens, diskTree, diskChain, diskNext, modified, ghosts>>

DRollbackMark(t) ==
  /\ RollbackMark(t)
  /\ modified' = [modified EXCEPT ![t] = << >>]
  /\ mine' = [mine EXCEPT ![t] = NoneWritten]
  /\ UNCHANGED <<up, opens, wal, diskTree, diskChain, diskNext, truth, everCommitted>>

\* ensure_loaded, garry_pool_allocate: a dirty victim is written back.
EvictTree ==
  /\ up
  /\ "evict" \in Env
  /\ diskTree' = tree
  /\ UNCHANGED <<vars, up, opens, wal, diskChain, diskNext, modified, ghosts>>

EvictChain(k) ==
  /\ up
  /\ "evict" \in Env
  /\ k \in tree
  /\ diskChain' = [diskChain EXCEPT ![k] = chain[k]]
  /\ UNCHANGED <<vars, up, opens, wal, diskTree, diskNext, modified, ghosts>>

-----------------------------------------------------------------------------
\* The end of a session: all that was in memory is gone.
MemoryGone ==
  /\ up' = FALSE
  /\ next_txid' = 1
  /\ active' = {}
  /\ rolledBack' = {}
  /\ locks' = {}
  /\ tree' = {}
  /\ chain' = [k \in Keys |-> << >>]
  /\ pc' = [t \in Txns |-> "none"]
  /\ op' = [t \in Txns |-> NoOp]
  /\ modified' = [t \in Txns |-> << >>]
  /\ mine' = [t \in Txns |-> NoneWritten]

\* Variant: the dirty chain pages are not flushed.
CloseForgetsChains ==
  /\ up
  /\ opens < MaxOpens
  /\ \A t \in Txns : pc[t] \in {"none", "idle"}
  /\ \/ "close" \in Env /\ \A t \in Txns : ~ IsActive(t)
     \/ "abandon" \in Env
  /\ diskTree' = tree
  /\ diskNext' = next_txid
  /\ MemoryGone
  /\ UNCHANGED <<opens, wal, diskChain, logged, truth, everCommitted>>

\* garry_storage_close, garry_engine_close: header, all dirty pages; the log
\* is synced and keeps its records.
Close ==
  /\ up
  /\ opens < MaxOpens
  /\ \A t \in Txns : pc[t] \in {"none", "idle"}
  /\ \/ "close" \in Env /\ \A t \in Txns : ~ IsActive(t)
     \/ "abandon" \in Env
  /\ diskTree' = tree
  /\ diskChain' = chain
  /\ diskNext' = next_txid
  /\ MemoryGone
  /\ UNCHANGED <<opens, wal, logged, truth, everCommitted>>

Crash ==
  /\ up
  /\ opens < MaxOpens
  /\ "crash" \in Env
  /\ MemoryGone
  /\ UNCHANGED <<opens, wal, diskTree, diskChain, diskNext, logged, truth, everCommitted>>

-----------------------------------------------------------------------------
(***************************************************************************)
(* garry_wal_recover.  First pass: the committed ids, and a next_txid past *)
(* all of them.  Second pass: the records of those ids in file order.      *)
(***************************************************************************)
CommittedIds == {wal[i].txn : i \in {j \in 1 .. Len(wal) : wal[j].kind = "COMMIT"}}

\* Variant: the id counter comes from the header alone.
RecoveredNextFromHeader == diskNext

RecoveredNext ==
  CHOOSE n \in {diskNext} \union {t + 1 : t \in CommittedIds} :
     \A m \in {diskNext} \union {t + 1 : t \in CommittedIds} : m <= n

\* A DELETE appends a tombstone to a key of the tree.
ReplayDelete(st, rec) ==
  IF rec.key \in st.tree /\ CanAppend(st.chain[rec.key], ChainCap)
  THEN [st EXCEPT !.chain[rec.key] = AppendVersion(@, rec.txn, Tombstone)]
  ELSE st

\* Variants: UPDATE records are not replayed; they replace a chain that exists.
ReplayUpdateNever(st, rec) == st

ReplayUpdateAnew(st, rec) ==
  [tree  |-> st.tree \union {rec.key},
   chain |-> [st.chain EXCEPT ![rec.key] = AppendVersion(<< >>, rec.txn, rec.val)]]

\* An UPDATE of a key of the tree is skipped; of another key, it gets a new
\* chain page with this one version.
ReplayUpdate(st, rec) ==
  IF rec.key \in st.tree
  THEN st
  ELSE [tree  |-> st.tree \union {rec.key},
        chain |-> [st.chain EXCEPT ![rec.key] = AppendVersion(<< >>, rec.txn, rec.val)]]

ReplayRecord(st, rec) ==
  IF rec.txn \notin CommittedIds THEN st
  ELSE IF rec.kind = "DELETE" THEN ReplayDelete(st, rec)
  ELSE IF rec.kind = "UPDATE" THEN ReplayUpdate(st, rec)
  ELSE st

\* The tree and the chains after the first n records.
ReplayedUpTo[n \in 0 .. Len(wal)] ==
  IF n = 0 THEN [tree |-> diskTree, chain |-> diskChain]
  ELSE ReplayRecord(ReplayedUpTo[n - 1], wal[n])

Replayed == ReplayedUpTo[Len(wal)]

\* garry_engine_open: an empty active list and lock table, the header, then
\* recovery.  A chain page allocated by recovery is not in the file yet.
Open ==
  /\ ~ up
  /\ up' = TRUE
  /\ opens' = opens + 1
  /\ next_txid' = RecoveredNext
  /\ tree' = Replayed.tree
  /\ chain' = [k \in Keys |-> IF k \in Replayed.tree THEN Replayed.chain[k] ELSE << >>]
  /\ diskChain' = [k \in Keys |-> IF k \in diskTree THEN diskChain[k] ELSE << >>]
  /\ UNCHANGED <<active, rolledBack, locks, logged, pc, op,
                 wal, diskTree, diskNext, modified, ghosts>>

-----------------------------------------------------------------------------
DStep(t) ==
  \/ DLinkNode(t)
  \/ DApplySet(t)
  \/ DApplyDelete(t)
  \/ DCommitRelease(t)
  \/ DCommitRemove(t)
  \/ DFlushPage(t)
  \/ DCommitFlush(t)
  \/ DRollbackMark(t)

DCall(t) ==
  \/ DBegin(t)
  \/ \E k \in Keys, v \in Values \union {Tombstone} : DAcquireLock(t, k, v)
  \/ DCommitLog(t)
  \/ DRollbackRelease(t)

DNext ==
  \/ \E t \in Txns : DCall(t) \/ DStep(t)
  \/ EvictTree
  \/ \E k \in Keys : EvictChain(k)
  \/ Close
  \/ Crash
  \/ Open

DSpec == DInit /\ [][DNext]_allVars

-----------------------------------------------------------------------------
\* What a transaction begun now would read.
Fresh(k) ==
  IF k \in tree THEN FindVisible(chain[k], next_txid, active) ELSE NotFound

Quiescent == up /\ \A t \in Txns : pc[t] \in {"none", "idle"}

\* A committed write survives every end of the session and every reopening:
\* between calls, each key reads as its last committed write.
CommittedSurvives ==
  Quiescent => \A k \in Keys :
     Fresh(k) = IF truth[k] = Tombstone THEN NotFound ELSE truth[k]

\* An id that appears in a COMMIT record of an earlier session is not given
\* out again (garry_wal_recover moves next_txid past all of them).
CommittedIdsNotReused ==
  up => \A t \in CommittedIds : t < next_txid

\* A key whose last committed write is a value is in the tree of every later
\* session, whichever of the tree and chain pages the crash left behind.
CommittedKeyKept ==
  Quiescent => \A k \in Keys : truth[k] \in Values => k \in tree

\* A chain page in the file is an earlier state of the page in memory: no
\* reopening drops or reorders versions that had reached the file.
DiskIsPrefix ==
  up => \A k \in tree :
     /\ Len(diskChain[k]) <= Len(chain[k])
     /\ \A i \in 1 .. Len(diskChain[k]) : diskChain[k][i] = chain[k][i]
=============================================================================
