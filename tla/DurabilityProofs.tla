-------------------------- MODULE DurabilityProofs --------------------------
(***************************************************************************)
(* Proofs about sessions and recovery, for every set of keys and values,   *)
(* every value of the limits and every number of sessions.                 *)
(***************************************************************************)
EXTENDS Durability, MvccEngineProofs

-----------------------------------------------------------------------------
(* Types *)

UpdateRec == [kind : {"UPDATE"}, txn : Txns, key : Keys, val : Values]
DeleteRec == [kind : {"DELETE"}, txn : Txns, key : Keys, val : {Tombstone}]
OutcomeRec == [kind : {"COMMIT", "ABORT"}, txn : Txns, key : {NotFound}, val : {NotFound}]

LogRecord == UpdateRec \union DeleteRec \union OutcomeRec

Written == Values \union {Tombstone}

FileType ==
  /\ wal \in Seq(LogRecord)
  /\ diskTree \subseteq Keys
  /\ diskChain \in [Keys -> Seq(Entry)]
  /\ diskNext \in Nat \ {0}

MemoryType ==
  /\ up \in BOOLEAN
  /\ modified \in [Txns -> Seq(Keys)]
  /\ mine \in [Txns -> [Keys -> Written \union {NotFound}]]
  /\ truth \in [Keys -> Written \union {NotFound}]
  /\ everCommitted \in [Keys -> SUBSET Written]

\* Without a session nobody is inside a call and nothing is in memory.
SessionDown ==
  ~ up => /\ active = {} /\ rolledBack = {} /\ locks = {}
          /\ pc = [t \in Txns |-> "none"]

DType == IType /\ FileType /\ MemoryType /\ SessionDown

\* A new database is well typed.
LEMMA DTypeInit == DInit => DType
<1> SUFFICES ASSUME DInit PROVE DType
  OBVIOUS
<1>1. IType
  BY TypeInit DEF DInit
<1>2. FileType
  BY DEF DInit, FileType
<1>3. MemoryType /\ SessionDown
  BY DEF DInit, MemoryType, SessionDown, NoneWritten
<1> QED
  BY <1>1, <1>2, <1>3 DEF DType

\* The tree and the chains recovery works on.
ReplayState == [tree : SUBSET Keys, chain : [Keys -> Seq(Entry)]]

\* The record of one write keeps the types of the tree and the chains.
LEMMA ReplayRecordType ==
  ASSUME NEW st \in ReplayState, NEW rec \in LogRecord
  PROVE  ReplayRecord(st, rec) \in ReplayState
<1>1. rec.txn \in Nat
  BY DEF LogRecord, UpdateRec, DeleteRec, OutcomeRec, Txns
<1>2. ASSUME rec.kind = "DELETE" PROVE ReplayDelete(st, rec) \in ReplayState
  <2>1. rec.key \in Keys /\ [txn |-> rec.txn, val |-> Tombstone] \in Entry
    BY <1>1, <1>2 DEF LogRecord, UpdateRec, DeleteRec, OutcomeRec, Entry
  <2>2. AppendVersion(st.chain[rec.key], rec.txn, Tombstone) \in Seq(Entry)
    BY <2>1 DEF ReplayState, AppendVersion
  <2> QED
    BY <2>1, <2>2 DEF ReplayDelete, ReplayState
<1>3. ASSUME rec.kind = "UPDATE" PROVE ReplayUpdate(st, rec) \in ReplayState
  <2>1. rec.key \in Keys /\ [txn |-> rec.txn, val |-> rec.val] \in Entry
    BY <1>1, <1>3 DEF LogRecord, UpdateRec, DeleteRec, OutcomeRec, Entry
  <2>2. AppendVersion(<< >>, rec.txn, rec.val) \in Seq(Entry)
    BY <2>1 DEF AppendVersion
  <2> QED
    BY <2>1, <2>2 DEF ReplayUpdate, ReplayState
<1> QED
  BY <1>2, <1>3 DEF ReplayRecord

\* The recursion of the second pass of garry_wal_recover, one record at a time.
LEMMA ReplayUnfold ==
  ASSUME FileType
  PROVE  /\ ReplayedUpTo \in [0 .. Len(wal) -> ReplayState]
         /\ ReplayedUpTo[0] = [tree |-> diskTree, chain |-> diskChain]
         /\ \A n \in 1 .. Len(wal) :
               ReplayedUpTo[n] = ReplayRecord(ReplayedUpTo[n - 1], wal[n])
<1> DEFINE N == Len(wal)
           X == ReplayState
           c == [tree |-> diskTree, chain |-> diskChain]
           D(x, n) == ReplayRecord(x, wal[n])
           step == [n \in 1 .. N |-> [x \in X |-> D(x, n)]]
           K == ReplayedUpTo
           Eq(g) == g = [n \in 0 .. N |-> IF n = 0 THEN c ELSE D(g[n - 1], n)]
<1>1. N \in Nat /\ c \in X /\ \A n \in 1 .. N, x \in X : D(x, n) \in X
  <2>1. N \in Nat /\ \A n \in 1 .. N : wal[n] \in LogRecord
    BY DEF FileType
  <2>2. c \in X
    BY DEF FileType, ReplayState
  <2> QED
    BY <2>1, <2>2, ReplayRecordType
<1>2. K = CHOOSE g : Eq(g)
  BY DEF ReplayedUpTo
<1> HIDE DEF N, X, D, K, c
<1>3. step \in StepsOn(N, X)
  BY <1>1 DEF StepsOn
<1>4. PICK g : Recursion(g, N, X, c, step)
  <2> HIDE DEF step
  <2> QED BY <1>1, <1>3, RecursionExists
<1>5. \A n \in 0 .. N : n # 0 => n \in 1 .. N /\ n - 1 \in 0 .. N
  BY <1>1
<1>6. Eq(g)
  BY <1>4, <1>5 DEF Recursion
<1>7. Eq(K)
  <2> HIDE DEF Eq
  <2> QED BY <1>2, <1>6
<1>8. K[0] = c /\ \A n \in 1 .. N : K[n] = D(K[n - 1], n)
  BY <1>1, <1>7
<1> DEFINE T == {n \in Nat : n <= N => K[n] \in X}
<1>9. 0 \in T
  BY <1>1, <1>8
<1>10. ASSUME NEW n \in Nat, n \in T PROVE n + 1 \in T
  BY <1>1, <1>8, <1>10
<1>11. Nat \subseteq T
  <2> HIDE DEF T
  <2> QED BY <1>9, <1>10, NatSetInduction
<1>12. K \in [0 .. N -> X]
  <2>1. \A n \in 0 .. N : K[n] \in X
    BY <1>1, <1>11
  <2> QED BY <1>7, <2>1
<1> QED
  BY <1>8, <1>12 DEF N, X, D, K, c

\* What recovery makes of the file is a tree and chains.
LEMMA ReplayedType == ASSUME FileType PROVE Replayed \in ReplayState
<1>1. Len(wal) \in 0 .. Len(wal)
  BY DEF FileType
<1> QED
  BY <1>1, ReplayUnfold DEF Replayed

\* The transactions with a COMMIT record are transactions.
LEMMA CommittedType ==
  ASSUME FileType
  PROVE  CommittedIds \subseteq Txns
<1>1. \A n \in 1 .. Len(wal) : wal[n] \in LogRecord
  BY DEF FileType
<1>2. \A rec \in LogRecord : rec.txn \in Txns
  BY DEF LogRecord, UpdateRec, DeleteRec, OutcomeRec
<1> QED
  BY <1>1, <1>2 DEF CommittedIds

\* The id counter after recovery is past the header's and past every id with a
\* COMMIT record, and is one of those.
LEMMA RecoveredNextIs ==
  ASSUME FileType
  PROVE  /\ RecoveredNext \in {diskNext} \union {t + 1 : t \in CommittedIds}
         /\ RecoveredNext \in Nat \ {0}
         /\ diskNext <= RecoveredNext
         /\ \A t \in CommittedIds : t < RecoveredNext
<1> DEFINE S == {diskNext} \union {t + 1 : t \in CommittedIds}
<1>1. \A t \in CommittedIds : t \in 1 .. MaxTxn
  BY CommittedType DEF Txns
<1>2. diskNext \in Nat \ {0} /\ MaxTxn \in Nat
  BY EngineAssumption DEF FileType
<1>3. S \in SUBSET Nat /\ S # {} /\ 0 \notin S
  BY <1>1, <1>2
<1>4. diskNext + MaxTxn + 1 \in Nat /\ \A x \in S : x <= diskNext + MaxTxn + 1
  BY <1>1, <1>2
<1>5. \E n \in S : \A m \in S : m <= n
  <2> HIDE DEF S
  <2> QED BY <1>3, <1>4, GreatestNat
<1>6. RecoveredNext \in S /\ \A m \in S : m <= RecoveredNext
  <2>1. RecoveredNext = CHOOSE n \in S : \A m \in S : m <= n
    BY DEF RecoveredNext
  <2> HIDE DEF S
  <2> QED BY <1>5, <2>1
<1>7. diskNext \in S /\ \A t \in CommittedIds : t + 1 \in S
  OBVIOUS
<1>8. RecoveredNext \in Nat \ {0}
  BY <1>3, <1>6
<1> QED
  BY <1>1, <1>2, <1>6, <1>7, <1>8

\* A call and the steps of a call are steps of the engine of a running session.
LEMMA SessionSteps ==
  ASSUME DType, NEW t \in Txns, DCall(t) \/ DStep(t)
  PROVE  [Next]_vars /\ up /\ up' = up
<1> USE DEF DType, SessionDown, MemoryType
<1>1. CASE DFlushPage(t)
  BY <1>1 DEF DFlushPage
<1>2. CASE DCall(t) \/ (DStep(t) /\ ~ DFlushPage(t))
  <2>1. Call(t) \/ Step(t)
    BY <1>2 DEF DCall, DStep, Call, Step, DBegin, DAcquireLock, DCommitLog, DRollbackRelease,
       DLinkNode, DApplySet, DApplyDelete, DCommitRelease, DCommitRemove, DCommitFlush,
       DRollbackMark
  <2>2. up' = up
    BY <1>2 DEF DCall, DStep, DBegin, DAcquireLock, DCommitLog, DRollbackRelease,
       DLinkNode, DApplySet, DApplyDelete, DCommitRelease, DCommitRemove, DCommitFlush,
       DRollbackMark, diskVars
  <2>3. up
    <3>1. CASE \/ DBegin(t)
               \/ \E k \in Keys, v \in Values \union {Tombstone} : DAcquireLock(t, k, v)
      BY <3>1 DEF DBegin, DAcquireLock
    <3>2. CASE DCommitLog(t) \/ DRollbackRelease(t)
      BY <3>2 DEF DCommitLog, DRollbackRelease, CommitLog, RollbackRelease
    <3>3. CASE DStep(t)
      BY <3>3 DEF DStep, DLinkNode, DApplySet, DApplyDelete, DCommitRelease, DCommitRemove,
         DFlushPage, DCommitFlush, DRollbackMark, LinkNode, ApplySet, ApplyDelete, CommitRelease,
         CommitRemove, CommitFlush, RollbackMark
    <3> QED
      BY <1>2, <3>1, <3>2, <3>3 DEF DCall
  <2> QED
    BY <2>1, <2>2, <2>3 DEF Next
<1> QED
  BY <1>1, <1>2

\* What a set or a delete knows of its key and value.
LEMMA OpInRange ==
  ASSUME DType, NEW t \in Txns, pc[t] = "apply"
  PROVE  op[t].key \in Keys /\ op[t].val \in Written
  BY DEF DType, IType, OpOK, Write, Written

\* A record at the end of the log.
LEMMA LogGrows ==
  ASSUME wal \in Seq(LogRecord), NEW rec \in LogRecord
  PROVE  /\ Append(wal, rec) \in Seq(LogRecord)
         /\ Len(Append(wal, rec)) = Len(wal) + 1
         /\ Append(wal, rec)[Len(wal) + 1] = rec
         /\ \A i \in 1 .. Len(wal) : Append(wal, rec)[i] = wal[i]
  OBVIOUS

\* The calls and steps of a session keep the types of the files and the slots.
LEMMA DTypeSession ==
  ASSUME DType, NEW t \in Txns, DCall(t) \/ DStep(t)
  PROVE  FileType' /\ MemoryType'
<1> USE DEF DType, FileType, MemoryType, diskVars, ghosts
<1>1. CASE DBegin(t)
  BY <1>1 DEF DBegin, NoneWritten
<1>2. ASSUME NEW k \in Keys, NEW v \in Values \union {Tombstone}, DAcquireLock(t, k, v)
      PROVE  FileType' /\ MemoryType'
  BY <1>2 DEF DAcquireLock
<1>3. CASE DLinkNode(t) \/ DCommitRelease(t) \/ DCommitRemove(t) \/ DCommitFlush(t)
  BY <1>3 DEF DLinkNode, DCommitRelease, DCommitRemove, DCommitFlush
<1>4. CASE DApplySet(t) \/ DApplyDelete(t)
  <2>1. pc[t] = "apply"
    BY <1>4 DEF DApplySet, DApplyDelete, ApplySet, ApplyDelete
  <2>2. op[t].key \in Keys /\ op[t].val \in Written
    BY <2>1, OpInRange
  <2>3. wal' \in Seq(LogRecord)
    <3>1. CASE DApplySet(t)
      <4>1. Record("UPDATE", t, op[t].key, op[t].val) \in LogRecord
        BY <2>2, <3>1 DEF DApplySet, ApplySet, Record, LogRecord, UpdateRec, Written
      <4> QED
        BY <3>1, <4>1 DEF DApplySet, Logged
    <3>2. CASE DApplyDelete(t)
      <4>1. Record("DELETE", t, op[t].key, Tombstone) \in LogRecord
        BY <2>2 DEF Record, LogRecord, DeleteRec
      <4>2. \/ wal' = Append(wal, Record("DELETE", t, op[t].key, Tombstone))
            \/ wal' = wal
        BY <3>2 DEF DApplyDelete, Logged
      <4>3. CASE wal' = wal
        BY <4>3
      <4>4. CASE wal' = Append(wal, Record("DELETE", t, op[t].key, Tombstone))
        BY <4>1, <4>4
      <4> QED
        BY <4>2, <4>3, <4>4
    <3> QED
      BY <1>4, <3>1, <3>2
  <2>4. modified' \in [Txns -> Seq(Keys)]
    <3>1. \/ modified' = modified
          \/ modified' = [modified EXCEPT ![t] = Append(@, op[t].key)]
      BY <1>4 DEF DApplySet, DApplyDelete, NoteModified
    <3>2. CASE modified' = modified
      BY <3>2
    <3>3. CASE modified' = [modified EXCEPT ![t] = Append(@, op[t].key)]
      BY <2>2, <3>3
    <3> QED
      BY <3>1, <3>2, <3>3
  <2>5. mine' \in [Txns -> [Keys -> Written \union {NotFound}]]
    <3>1. Tombstone \in Written
      BY DEF Written
    <3>2. \/ mine' = mine
          \/ mine' = [mine EXCEPT ![t][op[t].key] = op[t].val]
          \/ mine' = [mine EXCEPT ![t][op[t].key] = Tombstone]
      BY <1>4 DEF DApplySet, DApplyDelete, NoteMine
    <3>3. CASE mine' = mine
      BY <3>3
    <3>4. CASE mine' = [mine EXCEPT ![t][op[t].key] = op[t].val]
      BY <2>2, <3>4
    <3>5. CASE mine' = [mine EXCEPT ![t][op[t].key] = Tombstone]
      BY <2>2, <3>1, <3>5
    <3> QED
      BY <3>2, <3>3, <3>4, <3>5
  <2> QED
    BY <1>4, <2>3, <2>4, <2>5 DEF DApplySet, DApplyDelete
<1>5. CASE DCommitLog(t)
  <2>1. Record("COMMIT", t, NotFound, NotFound) \in LogRecord
    BY DEF Record, LogRecord, OutcomeRec
  <2>2. \A k \in Keys : mine[t][k] \in Written \union {NotFound}
    OBVIOUS
  <2>3. truth' \in [Keys -> Written \union {NotFound}]
    BY <1>5, <2>2 DEF DCommitLog
  <2>4. everCommitted' \in [Keys -> SUBSET Written]
    BY <1>5, <2>2 DEF DCommitLog
  <2> QED
    BY <1>5, <2>1, <2>3, <2>4 DEF DCommitLog, Logged
<1>6. CASE DFlushPage(t)
  <2>1. Head(modified[t]) \in Keys /\ Tail(modified[t]) \in Seq(Keys)
    BY <1>6 DEF DFlushPage
  <2>2. diskChain' \in [Keys -> Seq(Entry)]
    BY <1>6, <2>1 DEF DFlushPage, IType, TypeOK
  <2> QED
    BY <1>6, <2>1, <2>2 DEF DFlushPage
<1>7. CASE DRollbackRelease(t)
  <2>1. Record("ABORT", t, NotFound, NotFound) \in LogRecord
    BY DEF Record, LogRecord, OutcomeRec
  <2> QED
    BY <1>7, <2>1 DEF DRollbackRelease, Logged
<1>8. CASE DRollbackMark(t)
  BY <1>8 DEF DRollbackMark, NoneWritten
<1> QED
  BY <1>1, <1>2, <1>3, <1>4, <1>5, <1>6, <1>7, <1>8 DEF DCall, DStep

\* Losing the memory leaves a well-typed state without a session.
LEMMA MemoryGoneType ==
  ASSUME DType, MemoryGone, UNCHANGED <<logged, truth, everCommitted>>
  PROVE  IType' /\ MemoryType' /\ SessionDown'
<1>1. IType'
  <2>1. pc' \in [Txns -> PCs] /\ op' \in [Txns -> Write \union {NoOp}] /\ OpOK'
    BY DEF MemoryGone, OpOK, PCs
  <2>2. chain' \in [Keys -> Seq(Entry)]
    BY DEF MemoryGone
  <2> QED
    BY <2>1, <2>2 DEF MemoryGone, DType, IType, TypeOK
<1>2. modified' \in [Txns -> Seq(Keys)]
  BY DEF MemoryGone
<1>3. mine' \in [Txns -> [Keys -> Written \union {NotFound}]]
  BY DEF MemoryGone, NoneWritten
<1>4. MemoryType' /\ SessionDown'
  BY <1>2, <1>3 DEF MemoryGone, DType, MemoryType, SessionDown
<1> QED
  BY <1>1, <1>4

\* So does opening the database, and recovery with it.
LEMMA OpenType ==
  ASSUME DType, Open
  PROVE  DType'
<1> USE DEF DType
<1>1. Replayed.tree \subseteq Keys /\ Replayed.chain \in [Keys -> Seq(Entry)]
  BY ReplayedType DEF ReplayState
<1>2. RecoveredNext \in Nat \ {0}
  BY RecoveredNextIs
<1>3. chain' \in [Keys -> Seq(Entry)] /\ diskChain' \in [Keys -> Seq(Entry)]
  BY <1>1 DEF Open, FileType
<1>4. IType'
  BY <1>1, <1>2, <1>3 DEF Open, IType, TypeOK, OpOK
<1>5. FileType' /\ MemoryType' /\ SessionDown'
  BY <1>3 DEF Open, FileType, MemoryType, SessionDown, ghosts
<1> QED
  BY <1>4, <1>5

\* Every step of the sessions keeps the types.
LEMMA DTypeNext == DType /\ [DNext]_allVars => DType'
<1> SUFFICES ASSUME DType, [DNext]_allVars PROVE DType'
  OBVIOUS
<1>1. ASSUME NEW t \in Txns, DCall(t) \/ DStep(t) PROVE DType'
  <2>1. [Next]_vars /\ up /\ up' = up
    BY <1>1, SessionSteps
  <2>2. IType'
    BY <2>1, TypeNext DEF DType
  <2>3. FileType' /\ MemoryType'
    BY <1>1, DTypeSession
  <2> QED
    BY <2>1, <2>2, <2>3 DEF DType, SessionDown
<1>2. CASE EvictTree
  BY <1>2 DEF EvictTree, DType, IType, TypeOK, OpOK, FileType, MemoryType, SessionDown, vars, ghosts
<1>3. ASSUME NEW k \in Keys, EvictChain(k) PROVE DType'
  BY <1>3 DEF EvictChain, DType, IType, TypeOK, OpOK, FileType, MemoryType, SessionDown, vars, ghosts
<1>4. CASE Close
  <2>1. FileType'
    BY <1>4 DEF Close, DType, FileType, IType, TypeOK
  <2> QED
    BY <1>4, <2>1, MemoryGoneType DEF Close, DType
<1>5. CASE Crash
  <2>1. FileType'
    BY <1>5 DEF Crash, DType, FileType
  <2> QED
    BY <1>5, <2>1, MemoryGoneType DEF Crash, DType
<1>6. CASE Open
  BY <1>6, OpenType
<1>7. CASE UNCHANGED allVars
  BY <1>7 DEF allVars, vars, diskVars, ghosts, DType, IType, TypeOK, OpOK, FileType, MemoryType,
     SessionDown
<1> QED
  BY <1>1, <1>2, <1>3, <1>4, <1>5, <1>6, <1>7 DEF DNext

-----------------------------------------------------------------------------
(* What recovery keeps, whatever the end of the session left in the file *)

PrefixOf(a, b) == Len(a) <= Len(b) /\ \A i \in 1 .. Len(a) : a[i] = b[i]

\* Prefixes of chains: reflexive, transitive, kept by an append.
LEMMA PrefixFacts ==
  /\ \A a \in Seq(Entry) : PrefixOf(a, a)
  /\ \A a \in Seq(Entry) : PrefixOf(<< >>, a)
  /\ \A a, b, c \in Seq(Entry) : PrefixOf(a, b) /\ PrefixOf(b, c) => PrefixOf(a, c)
  /\ \A a \in Seq(Entry), e \in Entry : PrefixOf(a, Append(a, e))
<1>1. \A a \in Seq(Entry) : PrefixOf(a, a)
  BY DEF PrefixOf
<1>2. \A a \in Seq(Entry) : PrefixOf(<< >>, a)
  BY DEF PrefixOf
<1>3. ASSUME NEW a \in Seq(Entry), NEW b \in Seq(Entry), NEW c \in Seq(Entry),
             PrefixOf(a, b), PrefixOf(b, c)
      PROVE  PrefixOf(a, c)
  <2>1. Len(a) \in Nat /\ Len(b) \in Nat /\ Len(c) \in Nat
    OBVIOUS
  <2>2. \A i \in 1 .. Len(a) : i \in 1 .. Len(b)
    BY <1>3, <2>1 DEF PrefixOf
  <2> QED
    BY <1>3, <2>1, <2>2 DEF PrefixOf
<1>4. \A a \in Seq(Entry), e \in Entry : PrefixOf(a, Append(a, e))
  BY DEF PrefixOf
<1> QED
  BY <1>1, <1>2, <1>3, <1>4

\* One record of a committed transaction: keys stay in the tree, the chains of
\* its keys only grow, and the key of an UPDATE is in the tree afterwards.
LEMMA ReplayKeeps ==
  ASSUME NEW st \in ReplayState, NEW rec \in LogRecord
  PROVE  /\ st.tree \subseteq ReplayRecord(st, rec).tree
         /\ \A k \in st.tree : PrefixOf(st.chain[k], ReplayRecord(st, rec).chain[k])
         /\ rec.kind = "UPDATE" /\ rec.txn \in CommittedIds
               => rec.key \in ReplayRecord(st, rec).tree
<1>0. st.tree \subseteq Keys /\ st.chain \in [Keys -> Seq(Entry)]
  BY DEF ReplayState
<1>1. \A k \in Keys : PrefixOf(st.chain[k], st.chain[k])
  BY <1>0, PrefixFacts
<1>2. CASE rec.kind = "DELETE" /\ rec.txn \in CommittedIds
  <2>0. ReplayRecord(st, rec) = ReplayDelete(st, rec)
    BY <1>2 DEF ReplayRecord
  <2>1. CASE rec.key \in st.tree /\ CanAppend(st.chain[rec.key], ChainCap)
    <3>1. [txn |-> rec.txn, val |-> Tombstone] \in Entry
      BY <1>2 DEF LogRecord, UpdateRec, DeleteRec, OutcomeRec, Entry, Txns
    <3>2. PrefixOf(st.chain[rec.key], AppendVersion(st.chain[rec.key], rec.txn, Tombstone))
      BY <1>0, <2>1, <3>1, PrefixFacts DEF AppendVersion
    <3>3. /\ ReplayRecord(st, rec).tree = st.tree
          /\ ReplayRecord(st, rec).chain
               = [st.chain EXCEPT ![rec.key] = AppendVersion(@, rec.txn, Tombstone)]
      BY <2>0, <2>1 DEF ReplayDelete, ReplayState
    <3> QED
      BY <1>0, <1>1, <1>2, <3>2, <3>3
  <2>2. CASE ~ (rec.key \in st.tree /\ CanAppend(st.chain[rec.key], ChainCap))
    BY <1>0, <1>1, <1>2, <2>0, <2>2 DEF ReplayDelete
  <2> QED
    BY <2>1, <2>2
<1>3. CASE rec.kind = "UPDATE" /\ rec.txn \in CommittedIds
  <2>0. ReplayRecord(st, rec) = ReplayUpdate(st, rec)
    BY <1>3 DEF ReplayRecord
  <2>1. CASE rec.key \in st.tree
    BY <1>0, <1>1, <2>0, <2>1 DEF ReplayUpdate
  <2>2. CASE rec.key \notin st.tree
    BY <1>0, <1>1, <2>0, <2>2 DEF ReplayUpdate
  <2> QED
    BY <2>1, <2>2
<1>4. CASE rec.kind \notin {"DELETE", "UPDATE"} \/ rec.txn \notin CommittedIds
  BY <1>0, <1>1, <1>4 DEF ReplayRecord
<1> QED
  BY <1>2, <1>3, <1>4

\* The whole second pass does the same.
LEMMA ReplayedKeeps ==
  ASSUME FileType
  PROVE  /\ diskTree \subseteq Replayed.tree
         /\ \A k \in diskTree : PrefixOf(diskChain[k], Replayed.chain[k])
         /\ \A i \in 1 .. Len(wal) :
               wal[i].kind = "UPDATE" /\ wal[i].txn \in CommittedIds
                  => wal[i].key \in Replayed.tree
<1> DEFINE N == Len(wal)
           R == ReplayedUpTo
           P(n) == /\ diskTree \subseteq R[n].tree
                   /\ \A k \in diskTree : PrefixOf(diskChain[k], R[n].chain[k])
                   /\ \A i \in 1 .. n :
                         wal[i].kind = "UPDATE" /\ wal[i].txn \in CommittedIds
                            => wal[i].key \in R[n].tree
           T == {n \in Nat : n <= N => P(n)}
<1>1. /\ R \in [0 .. N -> ReplayState]
      /\ R[0] = [tree |-> diskTree, chain |-> diskChain]
      /\ \A n \in 1 .. N : R[n] = ReplayRecord(R[n - 1], wal[n])
  BY ReplayUnfold
<1>2. N \in Nat /\ \A n \in 1 .. N : wal[n] \in LogRecord
  BY DEF FileType
<1>3. diskTree \subseteq Keys /\ diskChain \in [Keys -> Seq(Entry)]
  BY DEF FileType
<1> HIDE DEF N, R
<1>4. P(0)
  BY <1>1, <1>3, PrefixFacts
<1>5. ASSUME NEW n \in Nat, n + 1 <= N, P(n) PROVE P(n + 1)
  <2>1. /\ n + 1 \in 1 .. N /\ n \in 0 .. N /\ n + 1 \in 0 .. N
        /\ R[n + 1] = ReplayRecord(R[n], wal[n + 1])
    BY <1>1, <1>2, <1>5
  <2>2. R[n] \in ReplayState /\ R[n + 1] \in ReplayState /\ wal[n + 1] \in LogRecord
    BY <1>1, <1>2, <2>1
  <2>3. /\ R[n].tree \subseteq R[n + 1].tree
        /\ \A k \in R[n].tree : PrefixOf(R[n].chain[k], R[n + 1].chain[k])
        /\ wal[n + 1].kind = "UPDATE" /\ wal[n + 1].txn \in CommittedIds
              => wal[n + 1].key \in R[n + 1].tree
    BY <2>1, <2>2, ReplayKeeps
  <2>4. ASSUME NEW k \in diskTree PROVE PrefixOf(diskChain[k], R[n + 1].chain[k])
    <3>1. /\ diskChain[k] \in Seq(Entry) /\ R[n].chain[k] \in Seq(Entry)
          /\ R[n + 1].chain[k] \in Seq(Entry)
      BY <1>3, <2>2 DEF ReplayState
    <3>2. PrefixOf(diskChain[k], R[n].chain[k]) /\ PrefixOf(R[n].chain[k], R[n + 1].chain[k])
      BY <1>5, <2>3
    <3> QED
      BY <3>1, <3>2, PrefixFacts
  <2>5. ASSUME NEW i \in 1 .. n + 1, wal[i].kind = "UPDATE", wal[i].txn \in CommittedIds
        PROVE  wal[i].key \in R[n + 1].tree
    <3>1. CASE i = n + 1
      BY <2>3, <2>5, <3>1
    <3>2. CASE i \in 1 .. n
      BY <1>5, <2>3, <2>5, <3>2
    <3> QED
      BY <3>1, <3>2
  <2> QED
    BY <1>5, <2>3, <2>4, <2>5
<1> HIDE DEF P
<1>6. 0 \in T /\ \A n \in Nat : n \in T => n + 1 \in T
  BY <1>2, <1>4, <1>5
<1>7. Nat \subseteq T
  <2> HIDE DEF T
  <2> QED BY <1>6, NatSetInduction
<1>8. P(N)
  BY <1>2, <1>7
<1> QED
  BY <1>8 DEF P, R, N, Replayed

-----------------------------------------------------------------------------
(* Ids are not reused once they are committed *)

\* The ids with a COMMIT record, as a function of the log.
CommittedIn(w) == {w[i].txn : i \in {j \in 1 .. Len(w) : w[j].kind = "COMMIT"}}

\* A record adds its id if it is a COMMIT.
LEMMA CommittedAppend ==
  ASSUME NEW w \in Seq(LogRecord), NEW rec \in LogRecord
  PROVE  CommittedIn(Append(w, rec))
           = IF rec.kind = "COMMIT" THEN CommittedIn(w) \union {rec.txn} ELSE CommittedIn(w)
<1> DEFINE r == Append(w, rec)
<1>1. /\ Len(w) \in Nat /\ Len(r) = Len(w) + 1 /\ r[Len(w) + 1] = rec
      /\ \A i \in 1 .. Len(w) : r[i] = w[i]
  OBVIOUS
<1> HIDE DEF r
<1>2. \A i : i \in 1 .. Len(r) <=> i \in 1 .. Len(w) \/ i = Len(w) + 1
  BY <1>1
<1>3. \A x : x \in CommittedIn(r)
             <=> x \in CommittedIn(w) \/ (rec.kind = "COMMIT" /\ x = rec.txn)
  BY <1>1, <1>2 DEF CommittedIn
<1> QED
  BY <1>3 DEF r

\* What a session does to the log: one record at most, of the caller, a COMMIT
\* only when it commits.
LEMMA LogSteps ==
  ASSUME DType, NEW t \in Txns, DCall(t) \/ DStep(t)
  PROVE  \/ wal' = wal /\ ~ DCommitLog(t)
         \/ \E rec \in LogRecord : /\ wal' = Append(wal, rec)
                                   /\ rec.txn = t
                                   /\ rec.kind = "COMMIT" <=> DCommitLog(t)
<1>0. ASSUME pc[t] = "apply" PROVE ~ DCommitLog(t)
  BY <1>0 DEF DCommitLog, CommitLog
<1>1. CASE DApplySet(t)
  <2>1. pc[t] = "apply" /\ op[t].val # Tombstone
    BY <1>1 DEF DApplySet, ApplySet
  <2>2. Record("UPDATE", t, op[t].key, op[t].val) \in LogRecord
    BY <2>1, OpInRange DEF Record, LogRecord, UpdateRec, Written
  <2>3. wal' = Append(wal, Record("UPDATE", t, op[t].key, op[t].val))
    BY <1>1 DEF DApplySet, Logged
  <2> QED
    BY <1>0, <2>1, <2>2, <2>3 DEF Record
<1>2. CASE DApplyDelete(t)
  <2>1. pc[t] = "apply"
    BY <1>2 DEF DApplyDelete, ApplyDelete
  <2>2. Record("DELETE", t, op[t].key, Tombstone) \in LogRecord
    BY <2>1, OpInRange DEF Record, LogRecord, DeleteRec
  <2>3. wal' = wal \/ wal' = Append(wal, Record("DELETE", t, op[t].key, Tombstone))
    BY <1>2 DEF DApplyDelete, Logged
  <2> QED
    BY <1>0, <2>1, <2>2, <2>3 DEF Record
<1>3. CASE DCommitLog(t)
  <2>1. Record("COMMIT", t, NotFound, NotFound) \in LogRecord
    BY DEF Record, LogRecord, OutcomeRec
  <2> QED
    BY <1>3, <2>1 DEF DCommitLog, Logged, Record
<1>4. CASE DRollbackRelease(t)
  <2>1. Record("ABORT", t, NotFound, NotFound) \in LogRecord
    BY DEF Record, LogRecord, OutcomeRec
  <2>2. wal' = Append(wal, Record("ABORT", t, NotFound, NotFound))
    BY <1>4 DEF DRollbackRelease, Logged
  <2>3. pc'[t] = "unwound"
    BY <1>4 DEF DRollbackRelease, RollbackRelease, DType, IType, TypeOK
  <2>4. ~ DCommitLog(t)
    BY <2>3 DEF DCommitLog, CommitLog, DType, IType, TypeOK
  <2> QED
    BY <2>1, <2>2, <2>4 DEF Record
<1>5. CASE ~ (DApplySet(t) \/ DApplyDelete(t) \/ DCommitLog(t) \/ DRollbackRelease(t))
  BY <1>5 DEF DCall, DStep, DBegin, DAcquireLock, DLinkNode, DCommitRelease, DCommitRemove,
     DFlushPage, DCommitFlush, DRollbackMark, diskVars
<1> QED
  BY <1>1, <1>2, <1>3, <1>4, <1>5

\* What it does to the committed ids.
LEMMA CommittedSteps ==
  ASSUME DType, NEW t \in Txns, DCall(t) \/ DStep(t)
  PROVE  CommittedIds' = IF DCommitLog(t) THEN CommittedIds \union {t} ELSE CommittedIds
<1>1. CommittedIds = CommittedIn(wal) /\ CommittedIds' = CommittedIn(wal')
  BY DEF CommittedIds, CommittedIn
<1>2. wal \in Seq(LogRecord)
  BY DEF DType, FileType
<1>3. CASE wal' = wal /\ ~ DCommitLog(t)
  BY <1>1, <1>3
<1>4. ASSUME NEW rec \in LogRecord, wal' = Append(wal, rec), rec.txn = t,
             rec.kind = "COMMIT" <=> DCommitLog(t)
      PROVE  CommittedIds' = IF DCommitLog(t) THEN CommittedIds \union {t} ELSE CommittedIds
  BY <1>1, <1>2, <1>4, CommittedAppend
<1> QED
  BY <1>3, <1>4, LogSteps

\* Open transactions have ids below the counter as well.
IIds == /\ DType
        /\ CommittedIdsNotReused
        /\ \A t \in active : t < next_txid

\* Holds initially.
LEMMA IdsInit == DInit => IIds
<1> SUFFICES ASSUME DInit PROVE IIds
  OBVIOUS
<1>1. CommittedIds = {}
  BY DEF DInit, CommittedIds
<1> QED
  BY <1>1, DTypeInit DEF DInit, Init, IIds, CommittedIdsNotReused

\* Every step keeps it: recovery moves the counter past all committed ids.
LEMMA IdsNext == IIds /\ [DNext]_allVars => IIds'
<1> SUFFICES ASSUME IIds, [DNext]_allVars PROVE IIds'
  OBVIOUS
<1>0. DType /\ DType'
  BY DTypeNext DEF IIds
<1> USE DEF IIds, CommittedIdsNotReused
<1>n. next_txid \in Nat /\ \A t \in Txns : t \in Nat
  BY <1>0, EngineAssumption DEF DType, IType, TypeOK, Txns
<1>a. active \subseteq Txns /\ CommittedIds \subseteq Txns
  BY <1>0, CommittedType DEF DType, IType, TypeOK
<1>1. ASSUME NEW t \in Txns, DCall(t) \/ DStep(t) PROVE IIds'
  <2>1. up /\ up' = up
    BY <1>0, <1>1, SessionSteps
  <2>2. CommittedIds' = IF DCommitLog(t) THEN CommittedIds \union {t} ELSE CommittedIds
    BY <1>0, <1>1, CommittedSteps
  <2>3. CASE DBegin(t)
    <3>1. next_txid' = next_txid + 1 /\ active' = active \union {t} /\ t = next_txid
      BY <2>3 DEF DBegin, Begin
    <3>2. ~ DCommitLog(t)
      BY <2>3, <3>1, <1>n DEF DCommitLog, CommitLog
    <3> QED
      BY <1>0, <1>n, <1>a, <2>1, <2>2, <3>1, <3>2
  <2>4. CASE DCommitLog(t)
    <3>1. next_txid' = next_txid /\ active' = active /\ t \in active
      BY <2>4 DEF DCommitLog, CommitLog, IsActive
    <3> QED
      BY <1>0, <2>1, <2>2, <2>4, <3>1
  <2>5. CASE ~ DBegin(t) /\ ~ DCommitLog(t)
    <3>1. next_txid' = next_txid /\ active' \subseteq active
      BY <1>1, <2>5 DEF DCall, DStep, DAcquireLock, DRollbackRelease, DLinkNode, DApplySet,
         DApplyDelete, DCommitRelease, DCommitRemove, DFlushPage, DCommitFlush, DRollbackMark,
         AcquireLock, RollbackRelease, LinkNode, ApplySet, ApplyDelete, CommitRelease,
         CommitRemove, CommitFlush, RollbackMark, vars
    <3> QED
      BY <1>0, <2>1, <2>2, <2>5, <3>1
  <2> QED
    BY <2>3, <2>4, <2>5
<1>2. ASSUME wal' = wal, ~ up' \/ (up' = up /\ next_txid' = next_txid),
             active' = {} \/ (active' = active /\ next_txid' = next_txid)
      PROVE  IIds'
  BY <1>0, <1>2 DEF CommittedIds
<1>3. CASE EvictTree \/ (\E k \in Keys : EvictChain(k)) \/ UNCHANGED allVars
  BY <1>2, <1>3 DEF EvictTree, EvictChain, allVars, diskVars, vars
<1>4. CASE Close \/ Crash
  BY <1>2, <1>4 DEF Close, Crash, MemoryGone
<1>5. CASE Open
  <2>1. CommittedIds' = CommittedIds
    BY <1>5 DEF Open, CommittedIds
  <2>2. next_txid' = RecoveredNext /\ active' = {}
    BY <1>0, <1>5 DEF Open, DType, SessionDown
  <2> QED
    BY <1>0, <2>1, <2>2, RecoveredNextIs DEF DType
<1> QED
  BY <1>1, <1>3, <1>4, <1>5 DEF DNext

\* Whatever happens to the sessions, an id with a COMMIT record is never given
\* to another transaction.
THEOREM IdsNotReused == DSpec => []CommittedIdsNotReused
<1>1. IIds => CommittedIdsNotReused
  BY DEF IIds
<1> QED
  BY IdsInit, IdsNext, <1>1, PTL DEF DSpec

-----------------------------------------------------------------------------
(* The file is never ahead of memory *)

\* While a session runs, every chain page of the file is an earlier state of
\* the page in memory, for the keys outside the tree too.
IPrefix == /\ DType
           /\ up => \A k \in Keys : PrefixOf(diskChain[k], chain[k])

\* In memory, a chain grows at its end or stays as it is.
LEMMA ChainsGrow ==
  ASSUME DType, NEW t \in Txns, DCall(t) \/ DStep(t), NEW k \in Keys
  PROVE  PrefixOf(chain[k], chain'[k])
<1>0. chain \in [Keys -> Seq(Entry)]
  BY DEF DType, IType, TypeOK
<1>1. CASE chain' = chain
  BY <1>0, <1>1, PrefixFacts
<1>2. CASE DApplySet(t) \/ DApplyDelete(t)
  <2>1. pc[t] = "apply"
    BY <1>2 DEF DApplySet, DApplyDelete, ApplySet, ApplyDelete
  <2>2. op[t].key \in Keys /\ op[t].val \in Values \union {Tombstone}
    BY <2>1, OpInRange DEF Written
  <2>3. chain' = chain \/ chain' = Appended(op[t].key, t, op[t].val)
    BY <1>2 DEF DApplySet, DApplyDelete, ApplySet, ApplyDelete
  <2>4. [txn |-> t, val |-> op[t].val] \in Entry
    BY <2>2 DEF Entry, Txns
  <2>5. Appended(op[t].key, t, op[t].val)[k] = chain[k]
        \/ Appended(op[t].key, t, op[t].val)[k] = Append(chain[k], [txn |-> t, val |-> op[t].val])
    BY <1>0, <2>2 DEF Appended, AppendVersion
  <2> QED
    BY <1>0, <1>1, <2>3, <2>4, <2>5, PrefixFacts
<1>3. CASE ~ (DApplySet(t) \/ DApplyDelete(t))
  <2>1. chain' = chain
    BY <1>3 DEF DCall, DStep, DBegin, DAcquireLock, DCommitLog, DRollbackRelease, DLinkNode,
       DCommitRelease, DCommitRemove, DFlushPage, DCommitFlush, DRollbackMark, Begin, AcquireLock,
       CommitLog, RollbackRelease, LinkNode, CommitRelease, CommitRemove, CommitFlush,
       RollbackMark, vars
  <2> QED
    BY <1>1, <2>1
<1> QED
  BY <1>2, <1>3

\* A session writes a chain page to the file as it is in memory, or not at all.
LEMMA FileChains ==
  ASSUME DType, NEW t \in Txns, DCall(t) \/ DStep(t), NEW k \in Keys
  PROVE  diskChain'[k] = diskChain[k] \/ diskChain'[k] = chain'[k]
<1>1. CASE DFlushPage(t)
  BY <1>1 DEF DFlushPage, DType, FileType, vars
<1>2. CASE ~ DFlushPage(t)
  BY <1>2 DEF DCall, DStep, DBegin, DAcquireLock, DCommitLog, DRollbackRelease, DLinkNode,
     DApplySet, DApplyDelete, DCommitRelease, DCommitRemove, DCommitFlush, DRollbackMark, diskVars
<1> QED
  BY <1>1, <1>2

\* Every step keeps the file behind memory: recovery starts from the chains of
\* the file and only appends to them.
LEMMA PrefixNext == IPrefix /\ [DNext]_allVars => IPrefix'
<1> SUFFICES ASSUME IPrefix, [DNext]_allVars PROVE IPrefix'
  OBVIOUS
<1>0. DType /\ DType'
  BY DTypeNext DEF IPrefix
<1> USE DEF IPrefix
<1>a. /\ \A k \in Keys : diskChain[k] \in Seq(Entry) /\ chain[k] \in Seq(Entry)
      /\ \A k \in Keys : diskChain'[k] \in Seq(Entry) /\ chain'[k] \in Seq(Entry)
  BY <1>0 DEF DType, IType, TypeOK, FileType
<1>1. ASSUME NEW t \in Txns, DCall(t) \/ DStep(t) PROVE IPrefix'
  <2>1. up
    BY <1>0, <1>1, SessionSteps
  <2>2. ASSUME NEW k \in Keys PROVE PrefixOf(diskChain'[k], chain'[k])
    <3>1. PrefixOf(diskChain[k], chain[k]) /\ PrefixOf(chain[k], chain'[k])
      BY <1>0, <1>1, <2>1, ChainsGrow
    <3>2. PrefixOf(diskChain[k], chain'[k])
      BY <1>a, <3>1, PrefixFacts
    <3>3. diskChain'[k] = diskChain[k] \/ diskChain'[k] = chain'[k]
      BY <1>0, <1>1, FileChains
    <3> QED
      BY <1>a, <3>2, <3>3, PrefixFacts
  <2> QED
    BY <1>0, <2>2
<1>2. CASE EvictTree \/ UNCHANGED allVars
  BY <1>0, <1>2 DEF EvictTree, allVars, diskVars, vars
<1>3. ASSUME NEW k \in Keys, EvictChain(k) PROVE IPrefix'
  <2>1. \A q \in Keys : diskChain'[q] = IF q = k THEN chain'[q] ELSE diskChain[q]
    BY <1>0, <1>3 DEF EvictChain, vars, DType, FileType
  <2> QED
    BY <1>0, <1>a, <1>3, <2>1, PrefixFacts DEF EvictChain, vars
<1>4. CASE Close \/ Crash
  BY <1>0, <1>4 DEF Close, Crash, MemoryGone
<1>5. CASE Open
  <2>1. ASSUME NEW k \in Keys PROVE PrefixOf(diskChain'[k], chain'[k])
    <3>1. CASE k \in diskTree
      <4>1. k \in Replayed.tree /\ PrefixOf(diskChain[k], Replayed.chain[k])
        BY <1>0, <3>1, ReplayedKeeps DEF DType
      <4> QED
        BY <1>5, <3>1, <4>1 DEF Open
    <3>2. CASE k \notin diskTree
      <4>1. diskChain'[k] = << >>
        BY <1>5, <3>2 DEF Open
      <4> QED
        BY <1>a, <4>1, PrefixFacts
    <3> QED
      BY <3>1, <3>2
  <2> QED
    BY <1>0, <2>1
<1> QED
  BY <1>1, <1>2, <1>3, <1>4, <1>5 DEF DNext

\* However a session ends, no reopening drops or reorders versions that had
\* reached the file.
THEOREM FileIsBehind == DSpec => []DiskIsPrefix
<1>1. DInit => IPrefix
  <2> SUFFICES ASSUME DInit PROVE IPrefix
    OBVIOUS
  <2>1. \A k \in Keys : diskChain[k] = << >> /\ chain[k] = << >>
    BY DEF DInit, Init
  <2>2. << >> \in Seq(Entry)
    OBVIOUS
  <2> QED
    BY <2>1, <2>2, DTypeInit, PrefixFacts DEF IPrefix
<1>2. IPrefix => DiskIsPrefix
  BY DEF IPrefix, DiskIsPrefix, PrefixOf, DType, IType, TypeOK
<1> QED
  BY <1>1, <1>2, PrefixNext, PTL DEF DSpec

-----------------------------------------------------------------------------
(* Committed keys are not lost *)

\* The log has an UPDATE of key k by one of the given transactions.
HasUpdate(k, ids) ==
  \E i \in 1 .. Len(wal) : wal[i].kind = "UPDATE" /\ wal[i].key = k /\ wal[i].txn \in ids

\* A key somebody gave a value is in the tree of the session, and its UPDATE
\* record is in the log before that.
IKeys ==
  /\ DType
  /\ \A k \in Keys : truth[k] \in Values => HasUpdate(k, CommittedIds)
  /\ \A t \in Txns, k \in Keys : mine[t][k] \in Values => HasUpdate(k, {t})
  /\ up => \A k \in Keys : /\ truth[k] \in Values => k \in tree
                           /\ \A t \in Txns : mine[t][k] \in Values => k \in tree
  /\ ~ up => \A t \in Txns, k \in Keys : mine[t][k] = NotFound

\* Records of the log stay.
LEMMA UpdatesStay ==
  ASSUME DType, NEW t \in Txns, DCall(t) \/ DStep(t), NEW k, NEW ids, NEW more,
         HasUpdate(k, ids), ids \subseteq more
  PROVE  \E i \in 1 .. Len(wal') :
            wal'[i].kind = "UPDATE" /\ wal'[i].key = k /\ wal'[i].txn \in more
<1>1. PICK i \in 1 .. Len(wal) :
         wal[i].kind = "UPDATE" /\ wal[i].key = k /\ wal[i].txn \in ids
  BY DEF HasUpdate
<1>2. wal \in Seq(LogRecord)
  BY DEF DType, FileType
<1>3. CASE wal' = wal
  BY <1>1, <1>3
<1>4. ASSUME NEW rec \in LogRecord, wal' = Append(wal, rec)
      PROVE  i \in 1 .. Len(wal') /\ wal'[i] = wal[i]
  BY <1>2, <1>4, LogGrows
<1> QED
  BY <1>1, <1>3, <1>4, LogSteps

\* What a session does to the writes of its transactions: a set or a delete
\* notes its key, beginning and rolling back forget them all.
LEMMA MineSteps ==
  ASSUME DType, NEW t \in Txns, DCall(t) \/ DStep(t), NEW u \in Txns, NEW k \in Keys,
         mine'[u][k] \in Values
  PROVE  \/ mine[u][k] = mine'[u][k]
         \/ DApplySet(t) /\ u = t /\ k = op[t].key
<1>0. mine \in [Txns -> [Keys -> Written \union {NotFound}]]
  BY DEF DType, MemoryType
<1>1. CASE DApplySet(t)
  BY <1>0, <1>1 DEF DApplySet, NoteMine
<1>2. CASE DApplyDelete(t)
  BY <1>0, <1>2, ValuesAssumption DEF DApplyDelete, NoteMine
<1>3. CASE DBegin(t) \/ DRollbackMark(t)
  BY <1>0, <1>3, ValuesAssumption DEF DBegin, DRollbackMark, NoneWritten
<1>4. CASE ~ (DApplySet(t) \/ DApplyDelete(t) \/ DBegin(t) \/ DRollbackMark(t))
  BY <1>4 DEF DCall, DStep, DAcquireLock, DCommitLog, DRollbackRelease, DLinkNode,
     DCommitRelease, DCommitRemove, DFlushPage, DCommitFlush, ghosts
<1> QED
  BY <1>1, <1>2, <1>3, <1>4

\* Every step of a session keeps it.
LEMMA KeysSession ==
  ASSUME IKeys, DType', NEW t \in Txns, DCall(t) \/ DStep(t)
  PROVE  IKeys'
<1>0. DType /\ up /\ up' = up
  BY SessionSteps DEF IKeys
<1>1. CommittedIds' = IF DCommitLog(t) THEN CommittedIds \union {t} ELSE CommittedIds
  BY <1>0, CommittedSteps
<1>2. tree \subseteq tree'
  BY DEF DCall, DStep, DBegin, DAcquireLock, DCommitLog, DRollbackRelease, DLinkNode, DApplySet,
     DApplyDelete, DCommitRelease, DCommitRemove, DFlushPage, DCommitFlush, DRollbackMark, Begin,
     AcquireLock, CommitLog, RollbackRelease, LinkNode, ApplySet, ApplyDelete, CommitRelease,
     CommitRemove, CommitFlush, RollbackMark, vars
<1>3. ASSUME NEW u \in Txns, NEW k \in Keys, mine'[u][k] \in Values
      PROVE  HasUpdate(k, {u})' /\ k \in tree'
  <2>1. CASE mine[u][k] = mine'[u][k]
    <3>1. HasUpdate(k, {u}) /\ k \in tree
      BY <1>0, <1>3, <2>1 DEF IKeys
    <3> QED
      BY <1>0, <1>2, <3>1, UpdatesStay DEF HasUpdate
  <2>2. CASE DApplySet(t) /\ u = t /\ k = op[t].key
    <3>1. k \in tree'
      BY <2>2 DEF DApplySet, ApplySet
    <3>2. pc[t] = "apply" /\ op[t].val # Tombstone
      BY <2>2 DEF DApplySet, ApplySet
    <3>3. Record("UPDATE", t, k, op[t].val) \in LogRecord
      BY <1>0, <2>2, <3>2, OpInRange DEF Record, LogRecord, UpdateRec, Written
    <3>4. wal' = Append(wal, Record("UPDATE", t, k, op[t].val)) /\ wal \in Seq(LogRecord)
      BY <1>0, <2>2 DEF DApplySet, Logged, DType, FileType
    <3>5. /\ Len(wal) + 1 \in 1 .. Len(wal')
          /\ wal'[Len(wal) + 1] = Record("UPDATE", t, k, op[t].val)
      BY <3>3, <3>4, LogGrows
    <3> QED
      BY <2>2, <3>1, <3>5 DEF HasUpdate, Record
  <2> QED
    BY <1>0, <1>3, <2>1, <2>2, MineSteps
<1>4. ASSUME NEW k \in Keys, truth'[k] \in Values
      PROVE  HasUpdate(k, CommittedIds)' /\ k \in tree'
  <2>1. CASE truth'[k] = truth[k]
    <3>1. HasUpdate(k, CommittedIds) /\ k \in tree
      BY <1>0, <1>4, <2>1 DEF IKeys
    <3>2. CommittedIds \subseteq CommittedIds'
      BY <1>1
    <3>3. \E i \in 1 .. Len(wal') :
            wal'[i].kind = "UPDATE" /\ wal'[i].key = k /\ wal'[i].txn \in CommittedIds'
      BY <1>0, <3>1, <3>2, UpdatesStay
    <3> QED
      BY <1>2, <3>1, <3>3 DEF HasUpdate
  <2>2. CASE truth'[k] # truth[k]
    <3>1. DCommitLog(t)
      BY <2>2 DEF DCall, DStep, DBegin, DAcquireLock, DCommitLog, DRollbackRelease, DLinkNode,
         DApplySet, DApplyDelete, DCommitRelease, DCommitRemove, DFlushPage, DCommitFlush,
         DRollbackMark, ghosts
    <3>2. mine[t][k] \in Values
      BY <1>4, <2>2, <3>1 DEF DCommitLog
    <3>3. HasUpdate(k, {t}) /\ k \in tree /\ {t} \subseteq CommittedIds'
      BY <1>0, <1>1, <3>1, <3>2 DEF IKeys
    <3>4. \E i \in 1 .. Len(wal') :
            wal'[i].kind = "UPDATE" /\ wal'[i].key = k /\ wal'[i].txn \in CommittedIds'
      BY <1>0, <3>3, UpdatesStay
    <3> QED
      BY <1>2, <3>3, <3>4 DEF HasUpdate
  <2> QED
    BY <2>1, <2>2
<1> QED
  BY <1>0, <1>3, <1>4 DEF IKeys

\* So do the end of a session and a reopening.
LEMMA KeysNext == IKeys /\ [DNext]_allVars => IKeys'
<1> SUFFICES ASSUME IKeys, [DNext]_allVars PROVE IKeys'
  OBVIOUS
<1>0. DType /\ DType'
  BY DTypeNext DEF IKeys
<1>1. ASSUME NEW t \in Txns, DCall(t) \/ DStep(t) PROVE IKeys'
  BY <1>0, <1>1, KeysSession
<1>2. ASSUME wal' = wal
      PROVE  CommittedIds' = CommittedIds /\ \A k, ids : HasUpdate(k, ids)' <=> HasUpdate(k, ids)
  BY <1>2 DEF CommittedIds, HasUpdate
<1>3. CASE EvictTree \/ (\E k \in Keys : EvictChain(k)) \/ UNCHANGED allVars
  <2>1. wal' = wal /\ up' = up /\ tree' = tree /\ truth' = truth /\ mine' = mine
    BY <1>3 DEF EvictTree, EvictChain, allVars, diskVars, ghosts, vars
  <2> QED
    BY <1>0, <2>1 DEF IKeys, HasUpdate, CommittedIds
<1>4. CASE Close \/ Crash
  <2>1. /\ wal' = wal /\ ~ up' /\ truth' = truth
        /\ \A t \in Txns, k \in Keys : mine'[t][k] = NotFound
    BY <1>4 DEF Close, Crash, MemoryGone, NoneWritten
  <2> QED
    BY <1>0, <2>1, ValuesAssumption DEF IKeys, HasUpdate, CommittedIds
<1>5. CASE Open
  <2>1. wal' = wal /\ truth' = truth /\ mine' = mine /\ tree' = Replayed.tree
    BY <1>5 DEF Open, ghosts
  <2>2. ASSUME NEW k, NEW ids, ids \subseteq CommittedIds, HasUpdate(k, ids)
        PROVE  k \in tree'
    BY <1>0, <2>1, <2>2, ReplayedKeeps DEF HasUpdate, DType
  <2>3. ~ up /\ up'
    BY <1>5 DEF Open
  <2>4. /\ \A t \in Txns, k \in Keys : mine'[t][k] \notin Values
        /\ \A k \in Keys : truth'[k] \in Values => HasUpdate(k, CommittedIds) /\ k \in tree'
    BY <2>1, <2>2, <2>3, ValuesAssumption DEF IKeys
  <2> QED
    BY <1>0, <1>2, <2>1, <2>3, <2>4 DEF IKeys
<1> QED
  BY <1>1, <1>3, <1>4, <1>5 DEF DNext

\* However a session ends, a key whose last committed write is a value is in
\* the tree of every later session.
THEOREM KeysKept == DSpec => []CommittedKeyKept
<1>1. DInit => IKeys
  <2> SUFFICES ASSUME DInit PROVE IKeys
    OBVIOUS
  <2>1. /\ \A t \in Txns, k \in Keys : mine[t][k] = NotFound
        /\ \A k \in Keys : truth[k] = NotFound
    BY DEF DInit, NoneWritten
  <2> QED
    BY <2>1, DTypeInit, ValuesAssumption DEF IKeys
<1>2. IKeys => CommittedKeyKept
  BY DEF IKeys, CommittedKeyKept, Quiescent
<1> QED
  BY <1>1, <1>2, KeysNext, PTL DEF DSpec

-----------------------------------------------------------------------------
(***************************************************************************)
(* Sessions that end with a clean close and neither delete nor roll back:  *)
(* every committed write survives.  While a session runs, the truth about  *)
(* a key is what the last logged transaction wrote in its chain, and what  *)
(* an open transaction wrote is its own last entry; all of them write      *)
(* behind the logged ones, so a commit turns the one into the other.  At   *)
(* the close nobody is open, so the file has only logged entries and all   *)
(* ids below the counter are logged; recovery then finds every key of the  *)
(* log in the tree and changes nothing.                                    *)
(***************************************************************************)
CleanEnv == Env \subseteq {"close", "evict"}

NoDeletes == \A i \in 1 .. Len(wal) : wal[i].kind # "DELETE"

UpdatesIn(S) == \A i \in 1 .. Len(wal) : wal[i].kind = "UPDATE" => wal[i].key \in S

TruthIn(ch) == \A k \in Keys : LastBy(ch[k], logged, truth[k])

MineIn(ch) == \A t \in Txns \ logged, k \in Keys : LastBy(ch[k], {t}, mine[t][k])

\* Nobody rolls back or deletes.
OnlySets ==
  /\ rolledBack = {}
  /\ \A t \in Txns : pc[t] # "unwound"
  /\ \A t \in Txns : pc[t] \in {"link", "apply"} => op[t].val # Tombstone

Running ==
  /\ ILock /\ ChainInTree /\ OnlySets
  /\ UpdatesIn(tree)
  /\ TruthIn(chain) /\ MineIn(chain)

Stopped ==
  /\ \A t \in Txns : t < diskNext <=> t \in logged
  /\ \A k \in Keys : \A i \in 1 .. Len(diskChain[k]) : diskChain[k][i].txn \in logged
  /\ \A k \in Keys : diskChain[k] # << >> => k \in diskTree
  /\ UpdatesIn(diskTree)
  /\ TruthIn(diskChain)
  /\ \A t \in Txns, k \in Keys : mine[t][k] = NotFound

IClean ==
  /\ DType /\ NoDeletes
  /\ CommittedIds \subseteq logged
  /\ \A k \in Keys : truth[k] \in everCommitted[k] \union {NotFound}
  /\ up => Running
  /\ ~ up => Stopped

\* Where every key of the log is in the tree, recovery leaves the file's state
\* as it is.
LEMMA CleanReplay ==
  ASSUME FileType, NoDeletes, UpdatesIn(diskTree)
  PROVE  Replayed = [tree |-> diskTree, chain |-> diskChain]
<1> DEFINE N == Len(wal)
           R == ReplayedUpTo
           c == [tree |-> diskTree, chain |-> diskChain]
           T == {n \in Nat : n <= N => R[n] = c}
<1>1. /\ R[0] = c
      /\ \A n \in 1 .. N : R[n] = ReplayRecord(R[n - 1], wal[n])
  BY ReplayUnfold
<1>2. N \in Nat
  BY DEF FileType
<1>3. \A n \in 1 .. N : ReplayRecord(c, wal[n]) = c
  BY DEF ReplayRecord, ReplayUpdate, NoDeletes, UpdatesIn
<1> HIDE DEF N, R, c
<1>4. 0 \in T
  BY <1>1
<1>5. ASSUME NEW n \in Nat, n \in T PROVE n + 1 \in T
  BY <1>1, <1>2, <1>3, <1>5
<1>6. Nat \subseteq T
  <2> HIDE DEF T
  <2> QED BY <1>4, <1>5, NatSetInduction
<1> QED
  BY <1>2, <1>6 DEF Replayed, N, R, c

\* Nobody rolls back or deletes in such a session.
LEMMA OnlySetsNext ==
  ASSUME CleanEnv, DType, OnlySets, NEW t \in Txns, DCall(t) \/ DStep(t)
  PROVE  OnlySets' /\ ~ DApplyDelete(t) /\ ~ DRollbackRelease(t) /\ ~ DRollbackMark(t)
<1>0. pc \in [Txns -> PCs] /\ op \in [Txns -> Write \union {NoOp}]
  BY DEF DType, IType, TypeOK
<1>1. ~ DApplyDelete(t) /\ ~ DRollbackRelease(t) /\ ~ DRollbackMark(t)
  BY DEF DApplyDelete, ApplyDelete, DRollbackRelease, DRollbackMark, RollbackMark, OnlySets,
     CleanEnv
<1>2. rolledBack' = {}
  BY <1>1 DEF OnlySets, DCall, DStep, DBegin, DAcquireLock, DCommitLog, DLinkNode, DApplySet,
     DCommitRelease, DCommitRemove, DFlushPage, DCommitFlush, Begin, AcquireLock, CommitLog,
     LinkNode, ApplySet, CommitRelease, CommitRemove, CommitFlush, vars
<1>3. CASE \E k \in Keys, v \in Values \union {Tombstone} : DAcquireLock(t, k, v)
  <2>1. PICK k \in Keys, v \in Values \union {Tombstone} : DAcquireLock(t, k, v)
    BY <1>3
  <2>2. v # Tombstone
    BY <2>1 DEF DAcquireLock, CleanEnv
  <2>3. /\ op'[t].val = v /\ pc'[t] # "unwound"
        /\ \A u \in Txns \ {t} : op'[u] = op[u] /\ pc'[u] = pc[u]
    BY <1>0, <2>1 DEF DAcquireLock, AcquireLock
  <2> QED
    BY <1>1, <1>2, <2>2, <2>3 DEF OnlySets
<1>4. CASE DLinkNode(t)
  BY <1>0, <1>1, <1>2, <1>4 DEF DLinkNode, LinkNode, OnlySets
<1>5. CASE DApplySet(t)
  BY <1>0, <1>1, <1>2, <1>5 DEF DApplySet, ApplySet, OnlySets
<1>6. CASE DBegin(t) \/ DCommitLog(t) \/ DCommitRelease(t) \/ DCommitRemove(t) \/ DCommitFlush(t)
  <2>1. /\ op' = op /\ pc'[t] \notin {"link", "apply", "unwound"}
        /\ \A u \in Txns \ {t} : pc'[u] = pc[u]
    BY <1>0, <1>6 DEF DBegin, DCommitLog, DCommitRelease, DCommitRemove, DCommitFlush, Begin,
       CommitLog, CommitRelease, CommitRemove, CommitFlush
  <2> QED
    BY <1>1, <1>2, <2>1 DEF OnlySets
<1>7. CASE DFlushPage(t)
  BY <1>1, <1>2, <1>7 DEF DFlushPage, vars, OnlySets
<1> QED
  BY <1>1, <1>3, <1>4, <1>5, <1>6, <1>7 DEF DCall, DStep

\* The records of such a session: sets of keys that are in the tree by then.
LEMMA CleanLog ==
  ASSUME CleanEnv, IClean, NEW t \in Txns, DCall(t) \/ DStep(t)
  PROVE  NoDeletes' /\ UpdatesIn(tree)'
<1>0. DType /\ up /\ Running /\ NoDeletes
  BY SessionSteps DEF IClean
<1>1. wal \in Seq(LogRecord) /\ Len(wal) \in Nat
  BY <1>0 DEF DType, FileType
<1>2. ~ DApplyDelete(t)
  BY <1>0, OnlySetsNext DEF Running
<1>3. tree \subseteq tree'
  BY DEF DCall, DStep, DBegin, DAcquireLock, DCommitLog, DRollbackRelease, DLinkNode, DApplySet,
     DApplyDelete, DCommitRelease, DCommitRemove, DFlushPage, DCommitFlush, DRollbackMark, Begin,
     AcquireLock, CommitLog, RollbackRelease, LinkNode, ApplySet, ApplyDelete, CommitRelease,
     CommitRemove, CommitFlush, RollbackMark, vars
<1>4. ASSUME NEW rec \in LogRecord, wal' = Append(wal, rec), rec.kind # "DELETE",
             rec.kind = "UPDATE" => rec.key \in tree'
      PROVE  NoDeletes' /\ UpdatesIn(tree)'
  <2>1. /\ \A i \in 1 .. Len(wal') : i \in 1 .. Len(wal) \/ i = Len(wal) + 1
        /\ wal'[Len(wal) + 1] = rec
        /\ \A i \in 1 .. Len(wal) : wal'[i] = wal[i]
    BY <1>1, <1>4, LogGrows
  <2> QED
    BY <1>0, <1>3, <1>4, <2>1 DEF NoDeletes, UpdatesIn, Running
<1>5. CASE DApplySet(t)
  <2>1. pc[t] = "apply" /\ op[t].val # Tombstone
    BY <1>5 DEF DApplySet, ApplySet
  <2>2. Record("UPDATE", t, op[t].key, op[t].val) \in LogRecord
    BY <1>0, <2>1, OpInRange DEF Record, LogRecord, UpdateRec, Written
  <2>3. wal' = Append(wal, Record("UPDATE", t, op[t].key, op[t].val)) /\ op[t].key \in tree'
    BY <1>5 DEF DApplySet, ApplySet, Logged
  <2> QED
    BY <1>4, <2>2, <2>3 DEF Record
<1>6. CASE DCommitLog(t) \/ DRollbackRelease(t)
  <2>1. /\ Record("COMMIT", t, NotFound, NotFound) \in LogRecord
        /\ Record("ABORT", t, NotFound, NotFound) \in LogRecord
    BY DEF Record, LogRecord, OutcomeRec
  <2>2. \/ wal' = Append(wal, Record("COMMIT", t, NotFound, NotFound))
        \/ wal' = Append(wal, Record("ABORT", t, NotFound, NotFound))
    BY <1>6 DEF DCommitLog, DRollbackRelease, Logged
  <2> QED
    BY <1>4, <2>1, <2>2 DEF Record
<1>7. CASE ~ (DApplySet(t) \/ DCommitLog(t) \/ DRollbackRelease(t))
  <2>1. wal' = wal
    BY <1>2, <1>7 DEF DCall, DStep, DBegin, DAcquireLock, DLinkNode, DCommitRelease,
       DCommitRemove, DFlushPage, DCommitFlush, DRollbackMark, diskVars
  <2> QED
    BY <1>0, <1>3, <2>1 DEF NoDeletes, UpdatesIn, Running
<1> QED
  BY <1>5, <1>6, <1>7

\* Truth and the open transactions' writes follow the chains through every step
\* of a session.
LEMMA CleanTruth ==
  ASSUME CleanEnv, IClean, NEW t \in Txns, DCall(t) \/ DStep(t)
  PROVE  /\ TruthIn(chain)' /\ MineIn(chain)'
         /\ \A k \in Keys : truth'[k] \in everCommitted'[k] \union {NotFound}
<1>0. DType /\ up /\ Running
  BY SessionSteps DEF IClean
<1>t. \A k \in Keys : truth[k] \in everCommitted[k] \union {NotFound}
  BY DEF IClean
<1>1. /\ chain \in [Keys -> Seq(Entry)]
      /\ mine \in [Txns -> [Keys -> Written \union {NotFound}]]
      /\ \A k \in Keys : chain[k] \in Seq(Entry)
  BY <1>0 DEF DType, IType, TypeOK, MemoryType
<1>2. Phases /\ WritersBegun /\ NoDirtyWrite
  BY <1>0 DEF Running, ILock, IRead
<1>3. TruthIn(chain) /\ MineIn(chain) /\ OnlySets
  BY <1>0 DEF Running
<1>4. ASSUME UNCHANGED <<chain, logged, truth, mine, everCommitted>>
      PROVE  /\ TruthIn(chain)' /\ MineIn(chain)'
             /\ \A k \in Keys : truth'[k] \in everCommitted'[k] \union {NotFound}
  BY <1>t, <1>3, <1>4 DEF TruthIn, MineIn
<1>5. CASE DBegin(t)
  <2>1. /\ t = next_txid
        /\ UNCHANGED <<chain, logged, truth, everCommitted>>
        /\ mine' = [mine EXCEPT ![t] = NoneWritten]
    BY <1>5 DEF DBegin, Begin
  <2>2. ASSUME NEW k \in Keys PROVE LastBy(chain[k], {t}, NotFound)
    BY <1>2, <2>1 DEF WritersBegun, LastBy, NoneOf, Txns
  <2>3. \A k \in Keys : mine'[t][k] = NotFound /\ \A u \in Txns \ {t} : mine'[u][k] = mine[u][k]
    BY <1>1, <2>1 DEF NoneWritten
  <2>4. MineIn(chain)'
    BY <1>3, <2>1, <2>2, <2>3 DEF MineIn
  <2> QED
    BY <1>t, <1>3, <2>1, <2>4 DEF TruthIn
<1>6. CASE DApplySet(t)
  <2> DEFINE k == op[t].key
             v == op[t].val
             e == [txn |-> t, val |-> v]
  <2>1. /\ pc[t] = "apply" /\ chain' = Appended(k, t, v)
        /\ UNCHANGED <<logged, truth, everCommitted>>
        /\ mine' = IF CanAppend(chain[k], ChainCap) THEN [mine EXCEPT ![t][k] = v] ELSE mine
    BY <1>6 DEF DApplySet, ApplySet, NoteMine
  <2>2. k \in Keys /\ v \in Values \union {Tombstone}
    BY <1>0, <2>1, OpInRange DEF Written
  <2>3. t \notin logged
    BY <1>2, <2>1 DEF Phases, IsActive
  <2>4. e \in Entry /\ e.txn = t /\ e.val = v
    BY <2>2 DEF Entry, Txns
  <2>5. CASE ~ CanAppend(chain[k], ChainCap)
    BY <1>4, <2>1, <2>5 DEF Appended
  <2>6. CASE CanAppend(chain[k], ChainCap)
    <3>1. \A q \in Keys : chain'[q] = IF q = k THEN Append(chain[q], e) ELSE chain[q]
      BY <1>1, <2>1, <2>6 DEF Appended, AppendVersion
    <3>2. \A u \in Txns, q \in Keys :
             mine'[u][q] = IF u = t /\ q = k THEN v ELSE mine[u][q]
      BY <1>1, <2>1, <2>2, <2>6
    <3> HIDE DEF k, v, e
    <3>3. ASSUME NEW Q, NEW x, LastBy(chain[k], Q, x)
          PROVE  LastBy(chain'[k], Q, IF t \in Q THEN v ELSE x)
      BY <1>1, <2>2, <2>4, <3>1, <3>3, LastAppend
    <3>4. TruthIn(chain)'
      BY <1>3, <2>1, <2>3, <3>1, <3>3 DEF TruthIn
    <3>5. MineIn(chain)'
      <4> SUFFICES ASSUME NEW u \in Txns \ logged, NEW q \in Keys
                   PROVE  LastBy(chain'[q], {u}, mine'[u][q])
        BY <2>1 DEF MineIn
      <4>1. LastBy(chain[q], {u}, mine[u][q])
        BY <1>3 DEF MineIn
      <4>2. CASE q # k
        BY <3>1, <3>2, <4>1, <4>2
      <4>3. CASE q = k
        <5>1. LastBy(chain'[k], {u}, IF t \in {u} THEN v ELSE mine[u][k])
          BY <3>3, <4>1, <4>3
        <5> QED
          BY <3>2, <4>3, <5>1
      <4> QED
        BY <4>2, <4>3
    <3> QED
      BY <1>t, <2>1, <3>4, <3>5
  <2> QED
    BY <2>5, <2>6
<1>7. CASE DCommitLog(t)
  <2>1. /\ UNCHANGED <<chain, mine>> /\ logged' = logged \union {t}
        /\ pc[t] = "idle" /\ IsActive(t)
        /\ \A k \in Keys : truth'[k] = IF mine[t][k] = NotFound THEN truth[k] ELSE mine[t][k]
        /\ \A k \in Keys : everCommitted'[k] = everCommitted[k] \union ({mine[t][k]} \ {NotFound})
    BY <1>7 DEF DCommitLog, CommitLog
  <2>2. t \notin logged /\ ~ Settled(t)
    BY <1>2, <2>1 DEF Phases, IsActive, Settled
  <2>3. ASSUME NEW k \in Keys PROVE LastBy(chain[k], logged \union {t}, truth'[k])
    <3>1. AllBefore(chain[k], logged, t)
      BY <1>2, <2>2 DEF AllBefore, NoDirtyWrite
    <3>2. LastBy(chain[k], logged, truth[k]) /\ LastBy(chain[k], {t}, mine[t][k])
      BY <1>3, <2>2 DEF TruthIn, MineIn
    <3>3. LastBy(chain[k], logged \union {t}, IF mine[t][k] = NotFound THEN truth[k] ELSE mine[t][k])
      BY <1>1, <3>1, <3>2, LastJoin
    <3> QED
      BY <2>1, <3>3
  <2>4. TruthIn(chain)'
    BY <2>1, <2>3 DEF TruthIn
  <2>5. MineIn(chain)'
    BY <1>3, <2>1 DEF MineIn
  <2>6. \A k \in Keys : truth'[k] \in everCommitted'[k] \union {NotFound}
    BY <1>t, <2>1
  <2> QED
    BY <2>4, <2>5, <2>6
<1>8. CASE ~ (DBegin(t) \/ DApplySet(t) \/ DCommitLog(t))
  <2>1. ~ DApplyDelete(t) /\ ~ DRollbackRelease(t) /\ ~ DRollbackMark(t)
    BY <1>0, <1>3, OnlySetsNext
  <2>2. UNCHANGED <<chain, logged, truth, mine, everCommitted>>
    BY <1>8, <2>1 DEF DCall, DStep, DAcquireLock, DLinkNode, DCommitRelease, DCommitRemove,
       DFlushPage, DCommitFlush, AcquireLock, LinkNode, CommitRelease, CommitRemove, CommitFlush,
       vars, ghosts
  <2> QED
    BY <1>4, <2>2
<1> QED
  BY <1>5, <1>6, <1>7, <1>8

\* Every step of a session keeps the invariant.
LEMMA CleanSession ==
  ASSUME EngineMutex, CleanEnv, IClean, DType', NEW t \in Txns, DCall(t) \/ DStep(t)
  PROVE  IClean'
<1>0. DType /\ up /\ up' = up /\ [Next]_vars /\ Running
  BY SessionSteps DEF IClean
<1>1. ILock' /\ ChainInTree'
  BY <1>0, LockNext, TreeNext DEF Running
<1>2. OnlySets'
  BY <1>0, OnlySetsNext DEF Running
<1>3. CommittedIds' \subseteq logged'
  <2>1. CommittedIds' = IF DCommitLog(t) THEN CommittedIds \union {t} ELSE CommittedIds
    BY <1>0, CommittedSteps
  <2>2. logged \subseteq logged' /\ (DCommitLog(t) => t \in logged')
    BY DEF DCall, DStep, DBegin, DAcquireLock, DCommitLog, DRollbackRelease, DLinkNode, DApplySet,
       DApplyDelete, DCommitRelease, DCommitRemove, DFlushPage, DCommitFlush, DRollbackMark, Begin,
       AcquireLock, CommitLog, RollbackRelease, LinkNode, ApplySet, ApplyDelete, CommitRelease,
       CommitRemove, CommitFlush, RollbackMark, vars
  <2> QED
    BY <2>1, <2>2 DEF IClean
<1> QED
  BY <1>0, <1>1, <1>2, <1>3, CleanLog, CleanTruth DEF IClean, Running

\* A clean close leaves nothing but logged transactions behind.
LEMMA CleanClose ==
  ASSUME CleanEnv, IClean, DType', Close
  PROVE  IClean'
<1>0. up /\ Running /\ ~ up'
  BY DEF IClean, Close, MemoryGone
<1>1. active = {}
  <2>1. \A t \in Txns : ~ IsActive(t)
    BY DEF Close, CleanEnv
  <2>2. active \subseteq Txns /\ rolledBack = {}
    BY <1>0 DEF Running, OnlySets, ILock, IRead, IType, TypeOK
  <2> QED
    BY <2>1, <2>2 DEF IsActive
<1>2. /\ wal' = wal /\ logged' = logged /\ truth' = truth /\ everCommitted' = everCommitted
      /\ diskTree' = tree /\ diskChain' = chain /\ diskNext' = next_txid
      /\ \A t \in Txns, k \in Keys : mine'[t][k] = NotFound
  BY DEF Close, MemoryGone, NoneWritten
<1>3. \A t \in Txns : t < next_txid <=> t \in logged
  BY <1>0, <1>1 DEF Running, ILock, IRead, Phases
<1>4. \A k \in Keys : \A i \in 1 .. Len(chain[k]) : chain[k][i].txn \in logged
  BY <1>0, <1>3 DEF Running, ILock, IRead, WritersBegun
<1>5. Stopped'
  BY <1>0, <1>2, <1>3, <1>4 DEF Stopped, Running, ChainInTree, UpdatesIn, TruthIn
<1> QED
  BY <1>0, <1>2, <1>5 DEF IClean, NoDeletes, CommittedIds

\* Recovery gives the next session the state the last one closed with.
LEMMA CleanOpen ==
  ASSUME IClean, DType', Open
  PROVE  IClean'
<1>0. /\ DType /\ ~ up /\ Stopped /\ NoDeletes /\ up'
      /\ CommittedIds \subseteq logged
  BY DEF IClean, Open
<1>1. FileType
  BY <1>0 DEF DType
<1>2. Replayed = [tree |-> diskTree, chain |-> diskChain]
  BY <1>0, <1>1, CleanReplay DEF Stopped
<1>3. RecoveredNext = diskNext
  <2>1. \A t \in CommittedIds : t \in Nat /\ t < diskNext
    <3>1. CommittedIds \subseteq Txns
      BY <1>1, CommittedType
    <3> QED
      BY <1>0, <3>1 DEF Stopped, Txns
  <2>2. diskNext \in Nat
    BY <1>1 DEF FileType
  <2> QED
    BY <1>1, <2>1, <2>2, RecoveredNextIs
<1>4. chain' = diskChain
  <2>1. chain' = [k \in Keys |-> IF k \in diskTree THEN diskChain[k] ELSE << >>]
    BY <1>2 DEF Open
  <2>2. diskChain \in [Keys -> Seq(Entry)]
    BY <1>1 DEF FileType
  <2>3. \A k \in Keys : k \notin diskTree => diskChain[k] = << >>
    BY <1>0 DEF Stopped
  <2> QED
    BY <2>1, <2>2, <2>3
<1>5. /\ wal' = wal /\ logged' = logged /\ truth' = truth /\ everCommitted' = everCommitted
      /\ mine' = mine /\ next_txid' = diskNext /\ tree' = diskTree
      /\ active' = {} /\ rolledBack' = {} /\ locks' = {} /\ pc' = [t \in Txns |-> "none"]
  BY <1>0, <1>2, <1>3 DEF Open, ghosts, DType, SessionDown
<1>6. \A k \in Keys : \A i \in 1 .. Len(chain'[k]) :
         chain'[k][i].txn \in logged' /\ chain'[k][i].txn \in Txns /\ chain'[k][i].txn < next_txid'
  <2>1. logged \subseteq Txns
    BY <1>0 DEF DType, IType, TypeOK
  <2> QED
    BY <1>0, <1>4, <1>5, <2>1 DEF Stopped
<1>7. IRead'
  <2>1. Phases'
    <3>1. \A t \in Txns : t < next_txid' <=> t \in logged'
      BY <1>0, <1>5 DEF Stopped
    <3> QED
      BY <1>5, <3>1 DEF Phases, IsActive
  <2>2. WritersBegun'
    BY <1>6 DEF WritersBegun
  <2> QED
    BY <2>1, <2>2 DEF IRead, DType
<1>8. NoLockLeak' /\ LinkerAlone' /\ WriterHolds' /\ ExclusiveLocks'
  BY <1>5 DEF NoLockLeak, LinkerAlone, WriterHolds, ExclusiveLocks
<1>9. UnsettledHolds' /\ NoDirtyWrite'
  BY <1>6 DEF UnsettledHolds, NoDirtyWrite, Settled
<1>10. ChainInTree' /\ OnlySets' /\ UpdatesIn(tree)' /\ TruthIn(chain)'
  BY <1>0, <1>4, <1>5 DEF Stopped, ChainInTree, OnlySets, UpdatesIn, TruthIn
<1>11. MineIn(chain)'
  BY <1>0, <1>5, <1>6 DEF Stopped, MineIn, LastBy, NoneOf
<1>12. Running'
  BY <1>7, <1>8, <1>9, <1>10, <1>11 DEF Running, ILock
<1> QED
  BY <1>0, <1>5, <1>12 DEF IClean, NoDeletes, CommittedIds

\* The invariant of clean sessions is inductive.
LEMMA CleanNext == ASSUME EngineMutex, CleanEnv, IClean, [DNext]_allVars PROVE IClean'
<1>0. DType'
  BY DTypeNext DEF IClean
<1>1. ASSUME NEW t \in Txns, DCall(t) \/ DStep(t) PROVE IClean'
  BY <1>0, <1>1, CleanSession
<1>2. CASE EvictTree \/ (\E k \in Keys : EvictChain(k)) \/ UNCHANGED allVars
  <2>1. CASE up
    <3>1. /\ up' = up /\ wal' = wal /\ truth' = truth /\ mine' = mine
          /\ everCommitted' = everCommitted /\ UNCHANGED vars
      BY <1>2 DEF EvictTree, EvictChain, allVars, diskVars, ghosts
    <3>2. Running
      BY <2>1 DEF IClean
    <3>3. ILock' /\ ChainInTree'
      BY <3>1, <3>2, LockNext, TreeNext DEF Running
    <3>4. OnlySets' /\ UpdatesIn(tree)' /\ TruthIn(chain)' /\ MineIn(chain)'
      BY <3>1, <3>2 DEF Running, OnlySets, UpdatesIn, TruthIn, MineIn, vars
    <3>5. NoDeletes' /\ CommittedIds' \subseteq logged'
      BY <3>1 DEF IClean, NoDeletes, CommittedIds, vars
    <3> QED
      BY <1>0, <2>1, <3>1, <3>3, <3>4, <3>5 DEF IClean, Running
  <2>2. CASE ~ up
    <3>1. UNCHANGED allVars
      BY <1>2, <2>2 DEF EvictTree, EvictChain
    <3>2. Stopped'
      BY <2>2, <3>1 DEF IClean, Stopped, UpdatesIn, TruthIn, allVars, vars, diskVars, ghosts
    <3> QED
      BY <1>0, <2>2, <3>1, <3>2 DEF IClean, NoDeletes, CommittedIds, allVars, vars, diskVars, ghosts
  <2> QED
    BY <2>1, <2>2
<1>3. CASE Close
  BY <1>0, <1>3, CleanClose
<1>4. CASE Crash
  BY <1>4 DEF Crash, CleanEnv
<1>5. CASE Open
  BY <1>0, <1>5, CleanOpen
<1> QED
  BY <1>1, <1>2, <1>3, <1>4, <1>5 DEF DNext

\* It holds for a new database.
LEMMA CleanInit == DInit => IClean
<1> SUFFICES ASSUME DInit PROVE IClean
  OBVIOUS
<1>1. DType /\ ILock /\ up
  BY DTypeInit, LockInit DEF DInit
<1>2. /\ wal = << >> /\ logged = {} /\ rolledBack = {} /\ pc = [t \in Txns |-> "none"]
      /\ \A k \in Keys : chain[k] = << >> /\ truth[k] = NotFound
      /\ \A t \in Txns, k \in Keys : mine[t][k] = NotFound
  BY DEF DInit, Init, NoneWritten
<1>3. TruthIn(chain) /\ MineIn(chain)
  BY <1>2 DEF TruthIn, MineIn, LastBy, NoneOf
<1>4. Running
  BY <1>1, <1>2, <1>3 DEF Running, ChainInTree, OnlySets, UpdatesIn
<1> QED
  BY <1>1, <1>2, <1>4 DEF IClean, NoDeletes, CommittedIds

\* Between calls, a new transaction reads the truth.
LEMMA CleanReads ==
  ASSUME IClean, Quiescent, NEW k \in Keys
  PROVE  Fresh(k) = IF truth[k] = Tombstone THEN NotFound ELSE truth[k]
<1>1. Running /\ \A t \in Txns : pc[t] \in {"none", "idle"}
  BY DEF IClean, Quiescent
<1>2. chain[k] \in Seq(Entry) /\ Phases /\ WritersBegun /\ next_txid \in Nat
  BY <1>1 DEF Running, ILock, IRead, IType, TypeOK
<1>3. LastBy(chain[k], logged, truth[k])
  BY <1>1 DEF Running, TruthIn
<1>4. \A i \in 1 .. Len(chain[k]) :
         VisibleTo(chain[k][i], next_txid, active) <=> chain[k][i].txn \in logged
  <2> SUFFICES ASSUME NEW i \in 1 .. Len(chain[k])
               PROVE  VisibleTo(chain[k][i], next_txid, active) <=> chain[k][i].txn \in logged
    OBVIOUS
  <2> DEFINE w == chain[k][i].txn
  <2>1. w \in Txns /\ w < next_txid /\ w \in Nat
    BY <1>2 DEF WritersBegun, Txns
  <2>2. w \in active <=> w \notin logged
    BY <1>1, <1>2, <2>1 DEF Phases
  <2> HIDE DEF w
  <2>3. w <= next_txid /\ w # next_txid
    BY <1>2, <2>1
  <2> QED
    BY <2>2, <2>3 DEF VisibleTo, w
<1>5. FindVisible(chain[k], next_txid, active) = IF truth[k] = Tombstone THEN NotFound ELSE truth[k]
  BY <1>2, <1>3, <1>4, FindsLast
<1>6. CASE k \notin tree
  <2>1. chain[k] = << >>
    BY <1>1, <1>6 DEF Running, ChainInTree
  <2>2. truth[k] = NotFound
    BY <1>3, <2>1 DEF LastBy
  <2> QED
    BY <1>6, <2>2 DEF Fresh
<1> QED
  BY <1>5, <1>6 DEF Fresh

\* If lock calls are serialised and every session ends with a clean close,
\* without deletes and rollbacks, every committed write is read back in every
\* later session, however pages were evicted in between.
THEOREM CommitsSurvive ==
  ASSUME EngineMutex, CleanEnv PROVE DSpec => []CommittedSurvives
<1>1. IClean /\ [DNext]_allVars => IClean'
  BY CleanNext
<1>2. IClean => CommittedSurvives
  BY CleanReads DEF CommittedSurvives
<1> QED
  BY CleanInit, <1>1, <1>2, PTL DEF DSpec
=============================================================================
