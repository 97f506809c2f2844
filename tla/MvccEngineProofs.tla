-------------------------- MODULE MvccEngineProofs --------------------------
(***************************************************************************)
(* Proofs about MvccEngine for every set of keys and values and for every  *)
(* value of the limits.                                                    *)
(***************************************************************************)
EXTENDS MvccEngine, FiniteSetTheorems, WellFoundedInduction, TLAPS

-----------------------------------------------------------------------------
(***************************************************************************)
(* Induction and recursion over the naturals, in the first-order form the  *)
(* provers can use: a set of numbers takes the place of the predicate.     *)
(***************************************************************************)

\* Induction over the naturals for a set of numbers.
LEMMA NatSetInduction ==
  ASSUME NEW T, 0 \in T, \A n \in Nat : n \in T => n + 1 \in T
  PROVE  Nat \subseteq T
<1> DEFINE B == Nat \ T
<1> SUFFICES ASSUME B # {} PROVE FALSE
  OBVIOUS
<1>1. B \in SUBSET Nat
  OBVIOUS
<1>2. PICK x \in B : \A y \in B : ~ (<<y, x>> \in OpToRel(<, Nat))
  BY <1>1, NatLessThanWellFounded, WFMin
<1>3. x \in Nat /\ x # 0 /\ x - 1 \in Nat
  OBVIOUS
<1>4. \A y \in B : ~ (y < x)
  BY <1>2 DEF OpToRel
<1>5. x - 1 \in T
  BY <1>3, <1>4
<1> QED
  BY <1>3, <1>5

\* Every set of naturals that is not empty and has a bound has a greatest
\* element.
LEMMA GreatestNat ==
  ASSUME NEW S \in SUBSET Nat, S # {}, NEW B \in Nat, \A x \in S : x <= B
  PROVE  \E x \in S : \A y \in S : y <= x
<1> DEFINE T == {B - x : x \in S}
<1>0. \A x \in S : x \in Nat /\ B - x \in Nat
  OBVIOUS
<1>1. T \in SUBSET Nat /\ T # {}
  BY <1>0
<1>2. PICK d \in T : \A c \in T : ~ (<<c, d>> \in OpToRel(<, Nat))
  BY <1>1, NatLessThanWellFounded, WFMin
<1>3. PICK x \in S : d = B - x
  BY <1>2
<1>4. \A c \in T : ~ (c < d)
  BY <1>1, <1>2 DEF OpToRel
<1>5. \A y \in S : B - y \in T
  OBVIOUS
<1>6. \A y \in S : ~ (B - y < B - x)
  BY <1>3, <1>4, <1>5
<1>7. \A y \in S : y <= x
  <2> HIDE DEF T
  <2> QED BY <1>0, <1>6
<1> QED
  BY <1>7

\* g is defined by recursion: it starts with c and applies one step after the
\* other.
StepsOn(N, X) == [1 .. N -> [X -> X]]

Recursion(g, N, X, c, step) ==
  /\ g \in [0 .. N -> X]
  /\ g[0] = c
  /\ \A n \in 1 .. N : g[n] = step[n][g[n - 1]]

\* A function over 0 .. N that is defined by recursion exists.
LEMMA RecursionExists ==
  ASSUME NEW N \in Nat, NEW X, NEW c \in X, NEW step \in StepsOn(N, X)
  PROVE  \E g : Recursion(g, N, X, c, step)
<1> USE DEF StepsOn
<1> DEFINE Sol(m, g) == /\ g \in [0 .. m -> X]
                        /\ g[0] = c
                        /\ \A n \in 1 .. m : g[n] = step[n][g[n - 1]]
           T == {m \in Nat : m <= N => \E g : Sol(m, g)}
<1>1. 0 \in T
  <2>1. Sol(0, [n \in 0 .. 0 |-> c])
    OBVIOUS
  <2> QED BY <2>1
<1>2. ASSUME NEW m \in Nat, m \in T PROVE m + 1 \in T
  <2> SUFFICES ASSUME m + 1 <= N PROVE \E g : Sol(m + 1, g)
    OBVIOUS
  <2>1. PICK g : Sol(m, g)
    BY <1>2
  <2> DEFINE h == [n \in 0 .. m + 1 |-> IF n <= m THEN g[n] ELSE step[m + 1][g[m]]]
  <2>2. step[m + 1][g[m]] \in X
    BY <2>1
  <2>3. h \in [0 .. m + 1 -> X] /\ h[0] = c
    BY <2>1, <2>2
  <2>4. ASSUME NEW n \in 1 .. m + 1 PROVE h[n] = step[n][h[n - 1]]
    <3>1. CASE n = m + 1
      BY <3>1
    <3>2. CASE n \in 1 .. m
      <4>1. h[n] = g[n] /\ h[n - 1] = g[n - 1]
        BY <3>2
      <4> QED BY <2>1, <3>2, <4>1
    <3> QED BY <3>1, <3>2
  <2> QED
    BY <2>3, <2>4
<1>3. N \in T
  BY <1>1, <1>2, NatSetInduction
<1> QED
  BY <1>3 DEF Recursion

-----------------------------------------------------------------------------
(* Version chains: what a set of writers wrote last *)

\* The newest of the first n entries of s that one of Q wrote is e.
NewestOf(s, n, Q, e) ==
  \E i \in 1 .. n : /\ s[i] = e /\ e.txn \in Q
                    /\ \A j \in i + 1 .. n : s[j].txn \notin Q

\* None of Q wrote one of the first n entries of s.
NoneOf(s, n, Q) == \A i \in 1 .. n : s[i].txn \notin Q

\* In a chain, the entries of some writers are absent or have a newest.
LEMMA NewestExists ==
  ASSUME NEW s \in Seq(Entry), NEW Q
  PROVE  NoneOf(s, Len(s), Q) \/ \E e : NewestOf(s, Len(s), Q, e)
<1> DEFINE N == Len(s)
           P(n) == NoneOf(s, n, Q) \/ \E e : NewestOf(s, n, Q, e)
           T == {n \in Nat : n <= N => P(n)}
<1>0. N \in Nat
  OBVIOUS
<1> HIDE DEF N
<1>1. P(0)
  BY DEF NoneOf
<1>2. ASSUME NEW n \in Nat, n + 1 <= N, P(n) PROVE P(n + 1)
  <2>1. CASE s[n + 1].txn \in Q
    <3>1. NewestOf(s, n + 1, Q, s[n + 1])
      BY <2>1 DEF NewestOf
    <3> QED
      BY <3>1
  <2>2. CASE s[n + 1].txn \notin Q
    <3>1. NoneOf(s, n, Q) => NoneOf(s, n + 1, Q)
      BY <2>2 DEF NoneOf
    <3>2. ASSUME NEW e, NewestOf(s, n, Q, e) PROVE NewestOf(s, n + 1, Q, e)
      <4>1. PICK i \in 1 .. n : /\ s[i] = e /\ e.txn \in Q
                                /\ \A j \in i + 1 .. n : s[j].txn \notin Q
        BY <3>2 DEF NewestOf
      <4>2. i \in 1 .. n + 1 /\ \A j \in i + 1 .. n + 1 : s[j].txn \notin Q
        BY <2>2, <4>1
      <4> QED
        BY <4>1, <4>2 DEF NewestOf
    <3> QED
      BY <1>2, <3>1, <3>2
  <2> QED
    BY <2>1, <2>2
<1> HIDE DEF P
<1>3. 0 \in T /\ \A n \in Nat : n \in T => n + 1 \in T
  BY <1>0, <1>1, <1>2
<1>4. Nat \subseteq T
  <2> HIDE DEF T
  <2> QED BY <1>3, NatSetInduction
<1>5. P(N)
  BY <1>0, <1>4
<1> QED
  BY <1>5 DEF P, N

\* The newest of a set of slots is the only one with no other behind it.
LEMMA NewestIs ==
  ASSUME NEW S \in SUBSET Nat, NEW i \in S, \A j \in S : j <= i
  PROVE  Newest(S) = i /\ (CHOOSE n \in S : \A j \in S : j <= n) = i
<1>1. \A n \in S : (\A j \in S : j <= n) => n = i
  OBVIOUS
<1> QED
  BY <1>1 DEF Newest

\* What a reader finds, from the writers Q that are visible to it.
LEMMA FindsNewest ==
  ASSUME NEW s \in Seq(Entry), NEW t, NEW A, NEW Q,
         \A i \in 1 .. Len(s) : VisibleTo(s[i], t, A) <=> s[i].txn \in Q
  PROVE  /\ NoneOf(s, Len(s), Q) => FindVisible(s, t, A) = NotFound
         /\ \A e : NewestOf(s, Len(s), Q, e)
                  => FindVisible(s, t, A) = IF e.val = Tombstone THEN NotFound ELSE e.val
<1> DEFINE S == VisibleAt(s, t, A)
<1>1. S = {i \in 1 .. Len(s) : s[i].txn \in Q}
  BY DEF VisibleAt
<1>2. ASSUME NoneOf(s, Len(s), Q) PROVE FindVisible(s, t, A) = NotFound
  BY <1>1, <1>2 DEF NoneOf, FindVisible
<1>3. ASSUME NEW e, NewestOf(s, Len(s), Q, e)
      PROVE  FindVisible(s, t, A) = IF e.val = Tombstone THEN NotFound ELSE e.val
  <2>1. PICK i \in 1 .. Len(s) : /\ s[i] = e /\ e.txn \in Q
                                 /\ \A j \in i + 1 .. Len(s) : s[j].txn \notin Q
    BY <1>3 DEF NewestOf
  <2>2. S \in SUBSET Nat /\ i \in S /\ \A j \in S : j <= i
    BY <1>1, <2>1
  <2>3. Newest(S) = i
    BY <2>2, NewestIs
  <2> QED
    BY <2>1, <2>2, <2>3 DEF FindVisible
<1> QED
  BY <1>2, <1>3

\* Where nobody else's entry follows one of the reader, its own last write is
\* what it finds.
LEMMA FindsOwn ==
  ASSUME NEW s \in Seq(Entry), NEW t \in Nat, NEW A, NEW e,
         \A i, j \in 1 .. Len(s) : i < j /\ s[i].txn = t => s[j].txn = t,
         NewestOf(s, Len(s), {t}, e)
  PROVE  FindVisible(s, t, A) = IF e.val = Tombstone THEN NotFound ELSE e.val
<1> DEFINE S == VisibleAt(s, t, A)
<1>1. PICK i \in 1 .. Len(s) : /\ s[i] = e /\ e.txn \in {t}
                               /\ \A j \in i + 1 .. Len(s) : s[j].txn \notin {t}
  BY DEF NewestOf
<1>2. i = Len(s)
  <2>1. Len(s) \in Nat /\ Len(s) \in 1 .. Len(s)
    BY <1>1
  <2> QED
    BY <1>1, <2>1
<1>3. S \in SUBSET Nat /\ i \in S /\ \A j \in S : j <= i
  BY <1>1, <1>2 DEF VisibleAt, VisibleTo
<1>4. Newest(S) = i
  BY <1>3, NewestIs
<1> QED
  BY <1>1, <1>3, <1>4 DEF FindVisible

\* No entry of the writers W is behind one of t.
AllBefore(s, W, t) ==
  \A i, j \in 1 .. Len(s) : i < j /\ s[i].txn = t => s[j].txn \notin W

\* The last of the writers Q to write in s wrote v, or v is NotFound and none
\* of them wrote.
LastBy(s, Q, v) ==
  \/ NoneOf(s, Len(s), Q) /\ v = NotFound
  \/ \E i \in 1 .. Len(s) : /\ s[i].txn \in Q /\ s[i].val = v
                            /\ \A j \in i + 1 .. Len(s) : s[j].txn \notin Q

\* An entry at the end of the chain is the last one of its writer.
LEMMA LastAppend ==
  ASSUME NEW s \in Seq(Entry), NEW e \in Entry, NEW Q, NEW v, LastBy(s, Q, v)
  PROVE  LastBy(Append(s, e), Q, IF e.txn \in Q THEN e.val ELSE v)
<1> DEFINE r == Append(s, e)
           n == Len(s)
<1>1. /\ n \in Nat /\ Len(r) = n + 1 /\ r[n + 1] = e
      /\ \A i \in 1 .. n : r[i] = s[i]
  OBVIOUS
<1> HIDE DEF r
<1>2. CASE e.txn \in Q
  <2>1. n + 1 \in 1 .. Len(r) /\ \A j \in (n + 1) + 1 .. Len(r) : FALSE
    BY <1>1
  <2> QED
    BY <1>1, <1>2, <2>1 DEF LastBy, r
<1>3. CASE e.txn \notin Q
  <2>1. CASE NoneOf(s, n, Q) /\ v = NotFound
    <3>1. \A i \in 1 .. Len(r) : i \in 1 .. n \/ i = n + 1
      BY <1>1
    <3>2. NoneOf(r, Len(r), Q)
      BY <1>1, <1>3, <2>1, <3>1 DEF NoneOf
    <3> QED
      BY <1>3, <2>1, <3>2 DEF LastBy, r
  <2>2. ASSUME NEW i \in 1 .. n, s[i].txn \in Q, s[i].val = v,
               \A j \in i + 1 .. n : s[j].txn \notin Q
        PROVE  LastBy(r, Q, v)
    <3>1. i \in 1 .. Len(r) /\ r[i] = s[i]
      BY <1>1
    <3>2. \A j \in i + 1 .. Len(r) : j = n + 1 \/ (j \in i + 1 .. n /\ j \in 1 .. n)
      BY <1>1, <2>2
    <3>3. \A j \in i + 1 .. Len(r) : r[j].txn \notin Q
      BY <1>1, <1>3, <2>2, <3>2
    <3> QED
      BY <2>2, <3>1, <3>3 DEF LastBy
  <2> QED
    BY <1>3, <2>1, <2>2 DEF LastBy, r
<1> QED
  BY <1>2, <1>3

\* If all entries of t are behind those of W, the last of W and t is t's, if it
\* has one.
LEMMA LastJoin ==
  ASSUME NEW s \in Seq(Entry), NEW W, NEW t, AllBefore(s, W, t),
         NEW v, NEW w, LastBy(s, W, v), LastBy(s, {t}, w)
  PROVE  LastBy(s, W \union {t}, IF w = NotFound THEN v ELSE w)
<1>0. Len(s) \in Nat /\ \A i \in 1 .. Len(s) : s[i].val # NotFound
  <2>1. \A i \in 1 .. Len(s) : s[i] \in Entry
    OBVIOUS
  <2>2. \A x \in Entry : x.val \in Values \union {Tombstone}
    BY DEF Entry
  <2> QED
    BY <2>1, <2>2, ValuesAssumption
<1>1. CASE w = NotFound
  <2>1. \A i \in 1 .. Len(s) : s[i].txn # t
    BY <1>0, <1>1 DEF LastBy, NoneOf
  <2>2. CASE NoneOf(s, Len(s), W) /\ v = NotFound
    BY <1>1, <2>1, <2>2 DEF LastBy, NoneOf
  <2>3. ASSUME NEW i \in 1 .. Len(s), s[i].txn \in W, s[i].val = v,
               \A j \in i + 1 .. Len(s) : s[j].txn \notin W
        PROVE  LastBy(s, W \union {t}, v)
    <3>1. \A j \in i + 1 .. Len(s) : j \in 1 .. Len(s)
      BY <1>0
    <3>2. \A j \in i + 1 .. Len(s) : s[j].txn \notin W \union {t}
      BY <2>1, <2>3, <3>1
    <3> QED
      BY <2>3, <3>2 DEF LastBy
  <2> QED
    BY <1>1, <2>2, <2>3 DEF LastBy
<1>2. CASE w # NotFound
  <2>1. PICK i \in 1 .. Len(s) : /\ s[i].txn \in {t} /\ s[i].val = w
                                 /\ \A j \in i + 1 .. Len(s) : s[j].txn \notin {t}
    BY <1>2 DEF LastBy
  <2>2. \A j \in i + 1 .. Len(s) : j \in 1 .. Len(s) /\ i < j
    BY <1>0
  <2>3. \A j \in i + 1 .. Len(s) : s[j].txn \notin W \union {t}
    BY <2>1, <2>2 DEF AllBefore
  <2> QED
    BY <1>2, <2>1, <2>3 DEF LastBy
<1> QED
  BY <1>1, <1>2

\* A reader to whom exactly the entries of Q are visible finds what the last of
\* them wrote.
LEMMA FindsLast ==
  ASSUME NEW s \in Seq(Entry), NEW t, NEW A, NEW Q, NEW v, LastBy(s, Q, v),
         \A i \in 1 .. Len(s) : VisibleTo(s[i], t, A) <=> s[i].txn \in Q
  PROVE  FindVisible(s, t, A) = IF v = Tombstone THEN NotFound ELSE v
<1>1. CASE NoneOf(s, Len(s), Q) /\ v = NotFound
  BY <1>1, FindsNewest, ValuesAssumption
<1>2. ASSUME NEW i \in 1 .. Len(s), s[i].txn \in Q, s[i].val = v,
             \A j \in i + 1 .. Len(s) : s[j].txn \notin Q
      PROVE  FindVisible(s, t, A) = IF v = Tombstone THEN NotFound ELSE v
  <2>1. NewestOf(s, Len(s), Q, s[i])
    BY <1>2 DEF NewestOf
  <2>2. \A e : NewestOf(s, Len(s), Q, e)
               => FindVisible(s, t, A) = IF e.val = Tombstone THEN NotFound ELSE e.val
    BY FindsNewest
  <2> QED
    BY <1>2, <2>1, <2>2
<1> QED
  BY <1>1, <1>2 DEF LastBy

-----------------------------------------------------------------------------
(* Types *)

\* A thread that is inside a write has its key and value at hand.
OpOK == \A t \in Txns : pc[t] \in {"link", "apply"} => op[t] \in Write

IType == TypeOK /\ OpOK

\* The initial state is well typed.
LEMMA TypeInit == Init => IType
  BY EngineAssumption DEF Init, IType, TypeOK, OpOK, PCs, Txns, Entry

\* The chains after an append are chains (garry_chain_page_append).
LEMMA AppendedType ==
  ASSUME chain \in [Keys -> Seq(Entry)],
         NEW k \in Keys, NEW t \in Txns, NEW v \in Values \union {Tombstone}
  PROVE  Appended(k, t, v) \in [Keys -> Seq(Entry)]
<1>1. [txn |-> t, val |-> v] \in Entry
  BY EngineAssumption DEF Entry, Txns
<1>2. AppendVersion(chain[k], t, v) \in Seq(Entry)
  BY <1>1 DEF AppendVersion
<1> QED
  BY <1>2 DEF Appended

\* Every step keeps the types.
LEMMA TypeNext == IType /\ [Next]_vars => IType'
<1> SUFFICES ASSUME IType, [Next]_vars PROVE IType'
  OBVIOUS
<1> USE EngineAssumption DEF IType, TypeOK, OpOK
<1>1. ASSUME NEW t \in Txns, Begin(t) PROVE IType'
  BY <1>1 DEF Begin, PCs, Txns
<1>2. ASSUME NEW t \in Txns, NEW k \in Keys, NEW v \in Values \union {Tombstone},
             AcquireLock(t, k, v)
      PROVE  IType'
  <2>1. [key |-> k, val |-> v] \in Write
    BY DEF Write
  <2>2. locks' \subseteq [txn : Txns, key : Keys, mode : {"EXCLUSIVE"}]
    BY <1>2 DEF AcquireLock
  <2>3. pc' \in [Txns -> PCs]
    BY <1>2 DEF AcquireLock, PCs
  <2>4. op' \in [Txns -> Write \union {NoOp}] /\ OpOK'
    BY <1>2, <2>1 DEF AcquireLock
  <2> QED
    BY <1>2, <2>2, <2>3, <2>4 DEF AcquireLock
<1>3. ASSUME NEW t \in Txns, LinkNode(t) PROVE IType'
  BY <1>3 DEF LinkNode, AfterGrant, LockNode, PCs, Write
<1>4. ASSUME NEW t \in Txns, ApplySet(t) PROVE IType'
  <2>1. op[t].key \in Keys /\ op[t].val \in Values \union {Tombstone}
    BY <1>4 DEF ApplySet, Write
  <2>2. chain' \in [Keys -> Seq(Entry)]
    BY <1>4, <2>1, AppendedType DEF ApplySet
  <2> QED
    BY <1>4, <2>1, <2>2 DEF ApplySet, PCs
<1>5. ASSUME NEW t \in Txns, ApplyDelete(t) PROVE IType'
  <2>1. op[t].key \in Keys
    BY <1>5 DEF ApplyDelete, Write
  <2>2. chain' \in [Keys -> Seq(Entry)]
    BY <1>5, <2>1, AppendedType DEF ApplyDelete
  <2> QED
    BY <1>5, <2>2 DEF ApplyDelete, PCs
<1>6. ASSUME NEW t \in Txns, CommitLog(t) PROVE IType'
  BY <1>6 DEF CommitLog, PCs
<1>7. ASSUME NEW t \in Txns, CommitRelease(t) PROVE IType'
  BY <1>7 DEF CommitRelease, ReleaseAll, PCs
<1>8. ASSUME NEW t \in Txns, CommitRemove(t) PROVE IType'
  BY <1>8 DEF CommitRemove, PCs
<1>9. ASSUME NEW t \in Txns, CommitFlush(t) PROVE IType'
  BY <1>9 DEF CommitFlush, ReleaseAll, PCs
<1>10. ASSUME NEW t \in Txns, RollbackRelease(t) PROVE IType'
  BY <1>10 DEF RollbackRelease, ReleaseAll, PCs
<1>11. ASSUME NEW t \in Txns, RollbackMark(t) PROVE IType'
  BY <1>11 DEF RollbackMark, ReleaseAll, PCs
<1>12. CASE UNCHANGED vars
  BY <1>12 DEF vars
<1> QED
  BY <1>1, <1>2, <1>3, <1>4, <1>5, <1>6, <1>7, <1>8, <1>9, <1>10, <1>11, <1>12
     DEF Next, Call, Step

\* TypeOK holds in every reachable state.
THEOREM TypeCorrect == Spec => []TypeOK
<1>1. IType => TypeOK
  BY DEF IType
<1> QED
  BY TypeInit, TypeNext, <1>1, PTL DEF Spec

-----------------------------------------------------------------------------
(* Reads: nothing is visible before its COMMIT record is synced *)

\* Where a thread is agrees with what the slot list and the log say of its
\* transaction.  The last conjunct is the heart of it: a transaction that is
\* gone from the active list has its COMMIT record in the log.
Phases ==
  \A t \in Txns :
     /\ t \in active \union logged => t < next_txid
     /\ t >= next_txid => pc[t] = "none"
     /\ pc[t] \in {"link", "apply", "logged", "released", "unwound"} => IsActive(t)
     /\ pc[t] \in {"logged", "released"} => t \in logged
     /\ t \in logged /\ t \in active => pc[t] \in {"logged", "released"}
     /\ t < next_txid /\ t \notin active => t \in logged

\* Only transactions that have begun have versions in the chains.
WritersBegun ==
  \A k \in Keys : \A i \in 1 .. Len(chain[k]) :
     chain[k][i].txn \in Txns /\ chain[k][i].txn < next_txid

IRead == IType /\ Phases /\ WritersBegun

\* The invariant behind NoDirtyRead holds initially.
LEMMA ReadInit == Init => IRead
  BY TypeInit, EngineAssumption DEF Init, IRead, IType, TypeOK, Phases, WritersBegun, Txns, IsActive

\* What an append does to a chain: the old entries stay, one is new.
LEMMA AppendedEntries ==
  ASSUME chain \in [Keys -> Seq(Entry)],
         NEW k \in Keys, NEW t \in Txns, NEW v \in Values \union {Tombstone},
         NEW q \in Keys, NEW i \in 1 .. Len(Appended(k, t, v)[q])
  PROVE  \/ i \in 1 .. Len(chain[q]) /\ Appended(k, t, v)[q][i] = chain[q][i]
         \/ q = k /\ i = Len(chain[q]) + 1 /\ Appended(k, t, v)[q][i].txn = t
<1>1. [txn |-> t, val |-> v] \in Entry
  BY EngineAssumption DEF Entry, Txns
<1> QED
  BY <1>1 DEF Appended, AppendVersion

\* Every step keeps it: phases agree with the list and the log, and only
\* transactions that began have written.
LEMMA ReadNext == IRead /\ [Next]_vars => IRead'
<1> SUFFICES ASSUME IRead, [Next]_vars PROVE IRead'
  OBVIOUS
<1>0. IType'
  BY TypeNext DEF IRead
<1> USE EngineAssumption DEF IRead, IType, TypeOK, Phases, IsActive
<1>1. ASSUME NEW t \in Txns, Begin(t) PROVE Phases' /\ WritersBegun'
  <2>1. \A u \in Txns : u \in Nat
    BY DEF Txns
  <2>2. Phases'
    BY <1>1, <2>1 DEF Begin
  <2>3. WritersBegun'
    <3>1. \A u \in Txns : u < next_txid => u < next_txid'
      BY <1>1, <2>1 DEF Begin
    <3>2. chain' = chain
      BY <1>1 DEF Begin
    <3> QED
      BY <3>1, <3>2 DEF WritersBegun
  <2> QED
    BY <2>2, <2>3
<1>2. ASSUME NEW t \in Txns, NEW k \in Keys, NEW v \in Values \union {Tombstone},
             AcquireLock(t, k, v)
      PROVE  Phases' /\ WritersBegun'
  <2>1. Phases'
    BY <1>2 DEF AcquireLock
  <2>2. WritersBegun'
    BY <1>2 DEF AcquireLock, WritersBegun
  <2> QED
    BY <2>1, <2>2
<1>3. ASSUME NEW t \in Txns, LinkNode(t) PROVE Phases' /\ WritersBegun'
  BY <1>3 DEF LinkNode, WritersBegun
<1>4. ASSUME NEW t \in Txns, ApplySet(t) \/ ApplyDelete(t) PROVE Phases' /\ WritersBegun'
  <2>1. Phases'
    BY <1>4 DEF ApplySet, ApplyDelete
  <2>2. op[t].key \in Keys /\ op[t].val \in Values \union {Tombstone} /\ t < next_txid
    BY <1>4 DEF ApplySet, ApplyDelete, OpOK, Write
  <2>3. CASE chain' = chain
    BY <1>4, <2>3 DEF ApplySet, ApplyDelete, WritersBegun
  <2>4. CASE chain' # chain
    <3>1. chain' = Appended(op[t].key, t, op[t].val)
      BY <1>4, <2>4 DEF ApplySet, ApplyDelete
    <3>2. ASSUME NEW q \in Keys, NEW i \in 1 .. Len(chain'[q])
          PROVE  chain'[q][i].txn \in Txns /\ chain'[q][i].txn < next_txid
      <4>1. \/ i \in 1 .. Len(chain[q]) /\ chain'[q][i] = chain[q][i]
            \/ q = op[t].key /\ i = Len(chain[q]) + 1 /\ chain'[q][i].txn = t
        BY <2>2, <3>1, <3>2, AppendedEntries
      <4> QED
        BY <2>2, <4>1 DEF WritersBegun
    <3> QED
      BY <1>4, <2>1, <3>2 DEF ApplySet, ApplyDelete, WritersBegun
  <2> QED
    BY <2>1, <2>3, <2>4
<1>5. ASSUME NEW t \in Txns, CommitLog(t) PROVE Phases' /\ WritersBegun'
  BY <1>5 DEF CommitLog, WritersBegun
<1>6. ASSUME NEW t \in Txns, CommitRelease(t) PROVE Phases' /\ WritersBegun'
  BY <1>6 DEF CommitRelease, WritersBegun
<1>7. ASSUME NEW t \in Txns, CommitRemove(t) PROVE Phases' /\ WritersBegun'
  BY <1>7 DEF CommitRemove, WritersBegun
<1>8. ASSUME NEW t \in Txns, CommitFlush(t) PROVE Phases' /\ WritersBegun'
  BY <1>8 DEF CommitFlush, WritersBegun
<1>9. ASSUME NEW t \in Txns, RollbackRelease(t) PROVE Phases' /\ WritersBegun'
  BY <1>9 DEF RollbackRelease, WritersBegun
<1>10. ASSUME NEW t \in Txns, RollbackMark(t) PROVE Phases' /\ WritersBegun'
  BY <1>10 DEF RollbackMark, WritersBegun
<1>11. CASE UNCHANGED vars
  BY <1>0, <1>11 DEF vars, WritersBegun
<1> QED
  BY <1>0, <1>1, <1>2, <1>3, <1>4, <1>5, <1>6, <1>7, <1>8, <1>9, <1>10, <1>11
     DEF Next, Call, Step

\* What the invariant says of a visible version: its creator left the list by
\* a commit.
LEMMA ReadIsDurable == IRead => NoDirtyRead
<1> SUFFICES ASSUME IRead PROVE NoDirtyRead
  OBVIOUS
<1> SUFFICES ASSUME NEW t \in Txns, NEW k \in Keys, IsActive(t),
                    NEW i \in VisibleAt(chain[k], t, active)
             PROVE  LET w == chain[k][i].txn
                    IN  w = t \/ (w \in logged /\ w \notin rolledBack)
  BY DEF NoDirtyRead
<1>1. /\ chain[k][i].txn \in Txns
      /\ chain[k][i].txn < next_txid
      /\ chain[k][i].txn = t \/ chain[k][i].txn \notin active
  BY DEF VisibleAt, VisibleTo, IRead, WritersBegun
<1> QED
  BY <1>1 DEF IRead, Phases, IType, TypeOK

\* What a transaction can read is its own or durably committed, whether or not
\* the callers serialise their use of the lock table.
THEOREM ReadsDurable == Spec => []NoDirtyRead
  BY ReadInit, ReadNext, ReadIsDurable, PTL DEF Spec

-----------------------------------------------------------------------------
(* Locks: released on every path, and at most one writer at a time per key *)

\* A step that ends or suspends a transaction's claim also drops its nodes.
LEMMA LeakNext == IRead /\ NoLockLeak /\ [Next]_vars => NoLockLeak'
<1> SUFFICES ASSUME IRead, NoLockLeak, [Next]_vars PROVE NoLockLeak'
  OBVIOUS
<1> USE DEF IRead, IType, TypeOK, Phases, NoLockLeak, IsActive
<1>1. ASSUME NEW t \in Txns, Begin(t) PROVE NoLockLeak'
  BY <1>1 DEF Begin
<1>2. ASSUME NEW t \in Txns, NEW k \in Keys, NEW v \in Values \union {Tombstone},
             AcquireLock(t, k, v)
      PROVE  NoLockLeak'
  BY <1>2 DEF AcquireLock
<1>3. ASSUME NEW t \in Txns, LinkNode(t) PROVE NoLockLeak'
  BY <1>3 DEF LinkNode, AfterGrant, LockNode
<1>4. ASSUME NEW t \in Txns, ApplySet(t) \/ ApplyDelete(t) PROVE NoLockLeak'
  BY <1>4 DEF ApplySet, ApplyDelete
<1>5. ASSUME NEW t \in Txns, CommitLog(t) PROVE NoLockLeak'
  BY <1>5 DEF CommitLog
<1>6. ASSUME NEW t \in Txns, CommitRelease(t) PROVE NoLockLeak'
  BY <1>6 DEF CommitRelease, ReleaseAll
<1>7. ASSUME NEW t \in Txns, CommitRemove(t) PROVE NoLockLeak'
  BY <1>7 DEF CommitRemove
<1>8. ASSUME NEW t \in Txns, CommitFlush(t) PROVE NoLockLeak'
  BY <1>8 DEF CommitFlush, ReleaseAll
<1>9. ASSUME NEW t \in Txns, RollbackRelease(t) PROVE NoLockLeak'
  BY <1>9 DEF RollbackRelease, ReleaseAll
<1>10. ASSUME NEW t \in Txns, RollbackMark(t) PROVE NoLockLeak'
  BY <1>10 DEF RollbackMark, ReleaseAll
<1>11. CASE UNCHANGED vars
  BY <1>11 DEF vars
<1> QED
  BY <1>1, <1>2, <1>3, <1>4, <1>5, <1>6, <1>7, <1>8, <1>9, <1>10, <1>11
     DEF Next, Call, Step

\* If lock calls are serialised, every path that ends a transaction releases its
\* key locks (garry_storage_commit, garry_storage_rollback).
THEOREM LocksReleased == ASSUME EngineMutex PROVE Spec => []NoLockLeak
<1>1. Init => NoLockLeak
  BY DEF Init, NoLockLeak
<1>2. IRead /\ [Next]_vars => IRead'
  BY ReadNext
<1> QED
  BY ReadInit, <1>1, <1>2, LeakNext, PTL DEF Spec

(***************************************************************************)
(* With serialised lock calls, a thread about to link its node is the only *)
(* one and finds no node for the key; one about to append holds the key,   *)
(* so does every transaction with an unsettled version; the key has only   *)
(* one holder, so the appended version never follows an unsettled one of   *)
(* another transaction.                                                    *)
(***************************************************************************)
LinkerAlone ==
  \A t \in Txns : pc[t] = "link" =>
     /\ \A u \in Txns \ {t} : pc[u] # "link"
     /\ \A n \in locks : n.key # op[t].key

WriterHolds == \A t \in Txns : pc[t] = "apply" => LockHeld(locks, t, op[t].key)

UnsettledHolds ==
  \A k \in Keys : \A i \in 1 .. Len(chain[k]) :
     ~ Settled(chain[k][i].txn) => LockHeld(locks, chain[k][i].txn, k)

ILock == /\ IRead /\ NoLockLeak /\ LinkerAlone /\ WriterHolds /\ ExclusiveLocks
         /\ UnsettledHolds /\ NoDirtyWrite

\* The invariant behind NoDirtyWrite holds initially.
LEMMA LockInit == Init => ILock
  BY ReadInit DEF Init, ILock, IRead, IType, TypeOK, NoLockLeak, LinkerAlone, WriterHolds,
     ExclusiveLocks, UnsettledHolds, NoDirtyWrite

\* A settled transaction stays settled.
LEMMA SettledStays ==
  ASSUME IRead, [Next]_vars, NEW u \in Txns, Settled(u)
  PROVE  Settled(u)'
<1> USE DEF IRead, IType, TypeOK, Phases, IsActive, Settled
<1>1. ASSUME NEW t \in Txns, Begin(t) PROVE Settled(u)'
  BY <1>1 DEF Begin, Txns
<1>2. ASSUME NEW t \in Txns, NEW k \in Keys, NEW v \in Values \union {Tombstone},
             AcquireLock(t, k, v)
      PROVE  Settled(u)'
  BY <1>2 DEF AcquireLock
<1>3. ASSUME NEW t \in Txns, LinkNode(t) \/ ApplySet(t) \/ ApplyDelete(t) PROVE Settled(u)'
  BY <1>3 DEF LinkNode, ApplySet, ApplyDelete
<1>4. ASSUME NEW t \in Txns, CommitLog(t) \/ CommitRelease(t) PROVE Settled(u)'
  BY <1>4 DEF CommitLog, CommitRelease
<1>5. ASSUME NEW t \in Txns, CommitRemove(t) \/ CommitFlush(t) PROVE Settled(u)'
  BY <1>5 DEF CommitRemove, CommitFlush
<1>6. ASSUME NEW t \in Txns, RollbackRelease(t) \/ RollbackMark(t) PROVE Settled(u)'
  BY <1>6 DEF RollbackRelease, RollbackMark
<1>7. CASE UNCHANGED vars
  BY <1>7 DEF vars
<1> QED
  BY <1>1, <1>2, <1>3, <1>4, <1>5, <1>6, <1>7 DEF Next, Call, Step

\* The holders of the lock table after each step: an exclusive grant.
LEMMA ExclusiveNext ==
  ASSUME ILock, [Next]_vars, EngineMutex
  PROVE  LinkerAlone' /\ WriterHolds' /\ ExclusiveLocks'
<1> USE DEF ILock, IRead, IType, TypeOK, LinkerAlone, WriterHolds, ExclusiveLocks, LockHeld
<1>1. ASSUME NEW t \in Txns, Begin(t) PROVE LinkerAlone' /\ WriterHolds' /\ ExclusiveLocks'
  BY <1>1 DEF Begin
<1>2. ASSUME NEW t \in Txns, NEW k \in Keys, NEW v \in Values \union {Tombstone},
             AcquireLock(t, k, v)
      PROVE  LinkerAlone' /\ WriterHolds' /\ ExclusiveLocks'
  <2>1. /\ locks' = locks /\ pc'[t] = (IF LockHeld(locks, t, k) THEN "apply" ELSE "link")
        /\ op'[t].key = k
        /\ \A u \in Txns : pc[u] # "link"
        /\ \A u \in Txns \ {t} : op'[u] = op[u] /\ pc'[u] = pc[u]
    BY <1>2 DEF AcquireLock
  <2>2. WriterHolds' /\ ExclusiveLocks'
    BY <2>1
  <2>3. ASSUME ~ LockHeld(locks, t, k)
        PROVE  \A n \in locks : n.key # k
    BY <1>2, <2>3 DEF AcquireLock, AcquireOk, HasConflict
  <2>4. LinkerAlone'
    BY <2>1, <2>3
  <2> QED
    BY <2>2, <2>4
<1>3. ASSUME NEW t \in Txns, ApplySet(t) \/ ApplyDelete(t)
      PROVE  LinkerAlone' /\ WriterHolds' /\ ExclusiveLocks'
  BY <1>3 DEF ApplySet, ApplyDelete
<1>4. ASSUME NEW t \in Txns, CommitLog(t) \/ CommitRemove(t)
      PROVE  LinkerAlone' /\ WriterHolds' /\ ExclusiveLocks'
  <2>1. /\ locks' = locks /\ op' = op /\ pc'[t] \notin {"link", "apply"}
        /\ \A u \in Txns \ {t} : pc'[u] = pc[u]
    BY <1>4 DEF CommitLog, CommitRemove
  <2> QED
    BY <2>1
<1>5. ASSUME NEW t \in Txns,
             CommitRelease(t) \/ CommitFlush(t) \/ RollbackRelease(t) \/ RollbackMark(t)
      PROVE  LinkerAlone' /\ WriterHolds' /\ ExclusiveLocks'
  <2>1. /\ locks' \subseteq locks /\ \A n \in locks : n.txn # t => n \in locks'
        /\ op' = op /\ pc[t] # "apply" /\ pc'[t] \notin {"link", "apply"}
        /\ \A u \in Txns \ {t} : pc'[u] = pc[u]
    BY <1>5 DEF CommitRelease, CommitFlush, RollbackRelease, RollbackMark, ReleaseAll
  <2>2. LinkerAlone'
    BY <2>1
  <2>3. WriterHolds'
    BY <2>1
  <2> QED
    BY <2>1, <2>2, <2>3
<1>6. ASSUME NEW t \in Txns, LinkNode(t)
      PROVE  LinkerAlone' /\ WriterHolds' /\ ExclusiveLocks'
  <2> DEFINE node == LockNode(t, op[t].key, "EXCLUSIVE")
  <2>1. node.txn = t /\ node.key = op[t].key
    BY DEF LockNode
  <2>2. /\ pc[t] = "link" /\ pc'[t] = "apply" /\ op' = op
        /\ \A u \in Txns \ {t} : pc'[u] = pc[u]
    BY <1>6 DEF LinkNode
  <2>3. locks' = locks \union {node}
    BY <1>6, <2>2 DEF LinkNode, AfterGrant
  <2> HIDE DEF node
  <2>4. LinkerAlone'
    BY <2>2
  <2>5. WriterHolds'
    BY <2>1, <2>2, <2>3
  <2>6. ExclusiveLocks'
    BY <2>1, <2>2, <2>3
  <2> QED
    BY <2>4, <2>5, <2>6
<1>7. CASE UNCHANGED vars
  BY <1>7 DEF vars
<1> QED
  BY <1>1, <1>2, <1>3, <1>4, <1>5, <1>6, <1>7 DEF Next, Call, Step

\* The locks a step takes away belong to a transaction that is settled then.
LEMMA HolderKeeps ==
  ASSUME ILock, [Next]_vars, NEW u \in Txns, NEW k \in Keys,
         LockHeld(locks, u, k), ~ Settled(u)'
  PROVE  LockHeld(locks', u, k)
<1> USE DEF ILock, IRead, IType, TypeOK, LockHeld
<1>1. ASSUME NEW t \in Txns, Begin(t) \/ ApplySet(t) \/ ApplyDelete(t) \/ CommitLog(t)
                              \/ CommitRemove(t)
      PROVE  LockHeld(locks', u, k)
  BY <1>1 DEF Begin, ApplySet, ApplyDelete, CommitLog, CommitRemove
<1>2. ASSUME NEW t \in Txns, NEW q \in Keys, NEW v \in Values \union {Tombstone},
             AcquireLock(t, q, v)
      PROVE  LockHeld(locks', u, k)
  BY <1>2 DEF AcquireLock
<1>3. ASSUME NEW t \in Txns, LinkNode(t) PROVE LockHeld(locks', u, k)
  BY <1>3 DEF LinkNode, AfterGrant
<1>4. ASSUME NEW t \in Txns, CommitRelease(t) \/ RollbackRelease(t)
      PROVE  LockHeld(locks', u, k)
  <2>1. Settled(t)'
    BY <1>4 DEF CommitRelease, RollbackRelease, Settled, Phases
  <2> QED
    BY <1>4, <2>1 DEF CommitRelease, RollbackRelease, ReleaseAll
<1>5. ASSUME NEW t \in Txns, CommitFlush(t) \/ RollbackMark(t)
      PROVE  LockHeld(locks', u, k)
  BY <1>5 DEF CommitFlush, RollbackMark, ReleaseAll, NoLockLeak
<1>6. CASE UNCHANGED vars
  BY <1>6 DEF vars
<1> QED
  BY <1>1, <1>2, <1>3, <1>4, <1>5, <1>6 DEF Next, Call, Step

\* A step either leaves the chains alone or is one append by a lock holder.
LEMMA ChainSteps ==
  ASSUME ILock, [Next]_vars
  PROVE  \/ chain' = chain
         \/ \E t \in Txns : /\ pc[t] = "apply"
                            /\ op[t].key \in Keys
                            /\ op[t].val \in Values \union {Tombstone}
                            /\ chain' = Appended(op[t].key, t, op[t].val)
                            /\ locks' = locks
<1> USE DEF ILock, IRead, IType, TypeOK
<1>1. ASSUME NEW t \in Txns, ApplySet(t) \/ ApplyDelete(t), chain' # chain
      PROVE  /\ pc[t] = "apply"
             /\ op[t].key \in Keys
             /\ op[t].val \in Values \union {Tombstone}
             /\ chain' = Appended(op[t].key, t, op[t].val)
             /\ locks' = locks
  BY <1>1 DEF ApplySet, ApplyDelete, OpOK, Write
<1>2. ASSUME NEW t \in Txns,
             \/ Begin(t) \/ LinkNode(t) \/ CommitLog(t) \/ CommitRelease(t)
             \/ CommitRemove(t) \/ CommitFlush(t) \/ RollbackRelease(t) \/ RollbackMark(t)
             \/ \E k \in Keys, v \in Values \union {Tombstone} : AcquireLock(t, k, v)
      PROVE  chain' = chain
  BY <1>2 DEF Begin, LinkNode, CommitLog, CommitRelease, CommitRemove, CommitFlush,
              RollbackRelease, RollbackMark, AcquireLock
<1>3. CASE UNCHANGED vars
  BY <1>3 DEF vars
<1> QED
  BY <1>1, <1>2, <1>3 DEF Next, Call, Step

\* Only the holder of a key's lock appends to its chain, so the versions below
\* the new one are its own or settled.
LEMMA ChainNext ==
  ASSUME ILock, [Next]_vars
  PROVE  UnsettledHolds' /\ NoDirtyWrite'
<1> USE DEF ILock, IRead, IType, TypeOK
<1> DEFINE Later(u) == u \in logged' \/ u \in rolledBack' \/ pc'[u] = "unwound"
<1>1. \A k \in Keys : \A i \in 1 .. Len(chain[k]) : chain[k][i].txn \in Txns
  BY DEF WritersBegun
<1>2. \A u \in Txns : Settled(u) => Later(u)
  BY SettledStays DEF Settled
<1>3. \A u \in Txns, k \in Keys : LockHeld(locks, u, k) /\ ~ Later(u) => LockHeld(locks', u, k)
  BY HolderKeeps DEF Settled
<1>4. SUFFICES
        /\ \A k \in Keys : \A i \in 1 .. Len(chain'[k]) :
              Later(chain'[k][i].txn) \/ LockHeld(locks', chain'[k][i].txn, k)
        /\ \A k \in Keys : \A i, j \in 1 .. Len(chain'[k]) :
              (i < j /\ chain'[k][i].txn # chain'[k][j].txn) => Later(chain'[k][i].txn)
  BY DEF UnsettledHolds, NoDirtyWrite, Settled
<1> HIDE DEF Later
<1>5. CASE chain' = chain
  BY <1>1, <1>2, <1>3, <1>5 DEF UnsettledHolds, NoDirtyWrite
<1>6. ASSUME NEW t \in Txns, pc[t] = "apply", op[t].key \in Keys,
             op[t].val \in Values \union {Tombstone},
             chain' = Appended(op[t].key, t, op[t].val), locks' = locks,
             NEW q \in Keys, NEW i \in 1 .. Len(chain'[q])
      PROVE  /\ Later(chain'[q][i].txn) \/ LockHeld(locks', chain'[q][i].txn, q)
             /\ \A j \in 1 .. Len(chain'[q]) :
                  (i < j /\ chain'[q][i].txn # chain'[q][j].txn) => Later(chain'[q][i].txn)
  <2>1. ASSUME NEW n \in 1 .. Len(chain'[q])
        PROVE  \/ n \in 1 .. Len(chain[q]) /\ chain'[q][n] = chain[q][n]
               \/ q = op[t].key /\ n = Len(chain[q]) + 1 /\ chain'[q][n].txn = t
    BY <1>6, <2>1, AppendedEntries
  <2>2. LockHeld(locks, t, op[t].key)
    BY <1>6 DEF WriterHolds
  <2>3. Later(chain'[q][i].txn) \/ LockHeld(locks', chain'[q][i].txn, q)
    BY <1>1, <1>2, <1>6, <2>1, <2>2 DEF UnsettledHolds
  <2>4. ASSUME NEW j \in 1 .. Len(chain'[q]), i < j, chain'[q][i].txn # chain'[q][j].txn
        PROVE  Later(chain'[q][i].txn)
    <3>1. i \in 1 .. Len(chain[q]) /\ chain'[q][i] = chain[q][i] /\ chain[q][i].txn \in Txns
      <4>1. Len(chain[q]) \in Nat
        OBVIOUS
      <4>2. j <= Len(chain[q]) + 1
        BY <2>1, <4>1
      <4>3. i # Len(chain[q]) + 1
        BY <2>4, <4>1, <4>2
      <4> QED
        BY <1>1, <2>1, <4>3
    <3>2. CASE j \in 1 .. Len(chain[q]) /\ chain'[q][j] = chain[q][j]
      BY <1>2, <2>4, <3>1, <3>2 DEF NoDirtyWrite
    <3>3. CASE q = op[t].key /\ chain'[q][j].txn = t
      <4>1. Settled(chain[q][i].txn)
        BY <2>2, <2>4, <3>1, <3>3 DEF UnsettledHolds, ExclusiveLocks, LockHeld
      <4> QED
        BY <1>2, <3>1, <4>1
    <3> QED
      BY <2>1, <3>2, <3>3
  <2> QED
    BY <2>3, <2>4
<1> QED
  BY <1>5, <1>6, ChainSteps

\* With serialised lock calls the whole invariant is inductive.
LEMMA LockNext == ASSUME EngineMutex, ILock, [Next]_vars PROVE ILock'
  BY ReadNext, LeakNext, ExclusiveNext, ChainNext DEF ILock

\* If lock calls are serialised, no key has two lock holders.
THEOREM LocksExclusive == ASSUME EngineMutex PROVE Spec => []ExclusiveLocks
<1>1. ILock /\ [Next]_vars => ILock'
  BY LockNext
<1>2. ILock => ExclusiveLocks
  BY DEF ILock
<1> QED
  BY LockInit, <1>1, <1>2, PTL DEF Spec

\* If lock calls are serialised, nobody writes over an uncommitted version.
THEOREM WritesSettled == ASSUME EngineMutex PROVE Spec => []NoDirtyWrite
<1>1. ILock /\ [Next]_vars => ILock'
  BY LockNext
<1>2. ILock => NoDirtyWrite
  BY DEF ILock
<1> QED
  BY LockInit, <1>1, <1>2, PTL DEF Spec

-----------------------------------------------------------------------------
(* The chains and the tree *)

\* A key has a chain page only through its descriptor in the B-tree.
ChainInTree == \A k \in Keys : chain[k] # << >> => k \in tree

\* A write enters the key in the tree before it appends, a delete appends only
\* to a key of the tree.
LEMMA TreeNext == ILock /\ ChainInTree /\ [Next]_vars => ChainInTree'
<1> SUFFICES ASSUME ILock, ChainInTree, [Next]_vars PROVE ChainInTree'
  OBVIOUS
<1> USE DEF ILock, IRead, IType, TypeOK, ChainInTree
<1>1. ASSUME NEW t \in Txns, ApplySet(t) PROVE ChainInTree'
  BY <1>1 DEF ApplySet, Appended, OpOK, Write
<1>2. ASSUME NEW t \in Txns, ApplyDelete(t) PROVE ChainInTree'
  BY <1>2 DEF ApplyDelete, Appended, OpOK, Write
<1>3. ASSUME NEW t \in Txns,
             \/ Begin(t) \/ LinkNode(t) \/ CommitLog(t) \/ CommitRelease(t)
             \/ CommitRemove(t) \/ CommitFlush(t) \/ RollbackRelease(t) \/ RollbackMark(t)
             \/ \E k \in Keys, v \in Values \union {Tombstone} : AcquireLock(t, k, v)
      PROVE  chain' = chain /\ tree' = tree
  BY <1>3 DEF Begin, LinkNode, CommitLog, CommitRelease, CommitRemove, CommitFlush,
              RollbackRelease, RollbackMark, AcquireLock
<1>4. CASE UNCHANGED vars
  BY <1>4 DEF vars
<1> QED
  BY <1>1, <1>2, <1>3, <1>4 DEF Next, Call, Step

-----------------------------------------------------------------------------
(* Slots: the arrays of the active list never overflow *)

\* Sets of transactions are finite, and smaller sets have no larger size.
LEMMA TxnSets ==
  ASSUME NEW S, S \subseteq Txns
  PROVE  /\ IsFiniteSet(S)
         /\ Cardinality(S) \in Nat
         /\ \A T \in SUBSET S : Cardinality(T) <= Cardinality(S)
<1>1. IsFiniteSet(Txns)
  BY EngineAssumption, FS_Interval DEF Txns
<1>2. IsFiniteSet(S)
  BY <1>1, FS_Subset
<1> QED
  BY <1>2, FS_Subset, FS_CardinalityType

\* Only garry_mvcc_begin adds a slot, after it has checked both limits.
LEMMA SlotsNext == IType /\ SlotLimits /\ [Next]_vars => SlotLimits'
<1> SUFFICES ASSUME IType, SlotLimits, [Next]_vars PROVE SlotLimits'
  OBVIOUS
<1> USE EngineAssumption DEF IType, TypeOK, SlotLimits
<1>0. ASSUME NEW S, NEW T, S \subseteq Txns, T \subseteq S PROVE Cardinality(T) <= Cardinality(S)
  BY <1>0, TxnSets
<1>1. ASSUME NEW t \in Txns, Begin(t) PROVE SlotLimits'
  <2>1. ASSUME NEW S, S \subseteq Txns, NEW n \in Nat, Cardinality(S) < n
        PROVE  Cardinality(S \union {t}) <= n
    <3>1. IsFiniteSet(S) /\ Cardinality(S) \in Nat
      BY <2>1, TxnSets
    <3>2. Cardinality(S \union {t}) = IF t \in S THEN Cardinality(S) ELSE Cardinality(S) + 1
      BY <3>1, FS_AddElement
    <3> QED
      BY <2>1, <3>1, <3>2
  <2>2. Cardinality(active \union {t}) <= list_cap
    BY <1>1, <2>1 DEF Begin, BeginAllowed
  <2>3. Cardinality((active \ rolledBack) \union {t}) <= max_txns
    BY <1>1, <2>1 DEF Begin, BeginAllowed
  <2>4. Cardinality((active \union {t}) \ rolledBack)
          <= Cardinality((active \ rolledBack) \union {t})
    BY <1>0
  <2>5. /\ Cardinality((active \union {t}) \ rolledBack) \in Nat
        /\ Cardinality((active \ rolledBack) \union {t}) \in Nat
    BY TxnSets
  <2> QED
    BY <1>1, <2>2, <2>3, <2>4, <2>5 DEF Begin
<1>2. ASSUME NEW t \in Txns, CommitRemove(t) \/ RollbackMark(t) PROVE SlotLimits'
  <2>1. active' \subseteq active /\ active' \ rolledBack' \subseteq active \ rolledBack
    BY <1>2 DEF CommitRemove, RollbackMark
  <2>2. /\ Cardinality(active') <= Cardinality(active)
        /\ Cardinality(active' \ rolledBack') <= Cardinality(active \ rolledBack)
    <3>1. active \subseteq Txns /\ active \ rolledBack \subseteq Txns
      OBVIOUS
    <3> QED
      BY <1>0, <2>1, <3>1
  <2>3. /\ Cardinality(active') \in Nat /\ Cardinality(active) \in Nat
        /\ Cardinality(active' \ rolledBack') \in Nat
        /\ Cardinality(active \ rolledBack) \in Nat
    BY <2>1, TxnSets
  <2> QED
    BY <2>2, <2>3
<1>3. ASSUME active' = active, rolledBack' = rolledBack PROVE SlotLimits'
  BY <1>3
<1>4. ASSUME NEW t \in Txns,
             \/ LinkNode(t) \/ ApplySet(t) \/ ApplyDelete(t) \/ CommitLog(t)
             \/ CommitRelease(t) \/ CommitFlush(t) \/ RollbackRelease(t)
             \/ \E k \in Keys, v \in Values \union {Tombstone} : AcquireLock(t, k, v)
      PROVE  active' = active /\ rolledBack' = rolledBack
  BY <1>4 DEF LinkNode, ApplySet, ApplyDelete, CommitLog, CommitRelease, CommitFlush,
              RollbackRelease, AcquireLock
<1>5. CASE UNCHANGED vars
  BY <1>3, <1>5 DEF vars
<1> QED
  BY <1>1, <1>2, <1>3, <1>4, <1>5 DEF Next, Call, Step

\* However many transactions are rolled back, garry_mvcc_begin never writes
\* past the end of the slot arrays.
THEOREM SlotsBounded == Spec => []SlotLimits
<1>1. Init => SlotLimits
  <2>1. Cardinality({}) = 0
    BY FS_EmptySet
  <2> QED
    BY <2>1, EngineAssumption DEF Init, SlotLimits
<1> QED
  BY TypeInit, TypeNext, SlotsNext, <1>1, PTL DEF Spec
=============================================================================
