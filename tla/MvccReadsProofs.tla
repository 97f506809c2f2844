-------------------------- MODULE MvccReadsProofs --------------------------
(***************************************************************************)
(* What the readers of the engine see, for every set of keys and values    *)
(* and every value of the limits.  The engine implements the abstract      *)
(* store (its safety part) and answers reads as the store does, if the     *)
(* callers serialise their lock calls; and garbage collection leaves the   *)
(* reads of open transactions as they were.                                *)
(***************************************************************************)
EXTENDS MvccRefinement, MvccGC, MvccEngineProofs

-----------------------------------------------------------------------------
(* The versions of some writers in a chain *)

\* The recursion of VersionsUpTo, one entry at a time.
LEMMA KeptUnfold ==
  ASSUME NEW s \in Seq(Entry), NEW W
  PROVE  LET K == VersionsUpTo(s, W)
         IN  /\ K \in [0 .. Len(s) -> Seq(Entry)]
             /\ K[0] = << >>
             /\ \A n \in 1 .. Len(s) :
                   K[n] = IF s[n].txn \in W THEN Append(K[n - 1], s[n]) ELSE K[n - 1]
<1> DEFINE N == Len(s)
           X == Seq(Entry)
           D(x, n) == IF s[n].txn \in W THEN Append(x, s[n]) ELSE x
           step == [n \in 1 .. N |-> [x \in X |-> D(x, n)]]
           K == VersionsUpTo(s, W)
           Eq(g) == g = [n \in 0 .. N |-> IF n = 0 THEN << >> ELSE D(g[n - 1], n)]
<1>1. N \in Nat /\ << >> \in X /\ \A n \in 1 .. N, x \in X : D(x, n) \in X
  OBVIOUS
<1>2. K = CHOOSE Kept : Eq(Kept)
  BY DEF VersionsUpTo
<1> HIDE DEF N, X, D, K
<1>3. step \in StepsOn(N, X)
  BY <1>1 DEF StepsOn
<1>4. PICK g : Recursion(g, N, X, << >>, step)
  <2> HIDE DEF step
  <2> QED BY <1>1, <1>3, RecursionExists
<1>5. \A n \in 0 .. N : n # 0 => n \in 1 .. N /\ n - 1 \in 0 .. N
  BY <1>1
<1>6. \A n \in 1 .. N : n - 1 \in 0 .. N
  BY <1>1
<1>7. Eq(g)
  BY <1>4, <1>5 DEF Recursion
<1>8. Eq(K)
  <2> HIDE DEF Eq
  <2> QED BY <1>2, <1>7
<1>9. K[0] = << >> /\ \A n \in 1 .. N : K[n] = D(K[n - 1], n)
  BY <1>1, <1>8
<1> DEFINE T == {n \in Nat : n <= N => K[n] \in X}
<1>10. 0 \in T
  BY <1>1, <1>9
<1>11. ASSUME NEW n \in Nat, n \in T PROVE n + 1 \in T
  BY <1>1, <1>9, <1>11
<1>12. Nat \subseteq T
  <2> HIDE DEF T
  <2> QED BY <1>10, <1>11, NatSetInduction
<1>13. K \in [0 .. N -> X]
  <2>1. \A n \in 0 .. N : K[n] \in X
    BY <1>1, <1>12
  <2> QED BY <1>8, <2>1
<1> QED
  BY <1>9, <1>13 DEF N, X, D, K

\* An empty chain has no versions.
LEMMA VersionsOfNone == ASSUME NEW W PROVE VersionsBy(<< >>, W) = << >>
<1>1. << >> \in Seq(Entry) /\ Len(<< >>) = 0
  OBVIOUS
<1> QED
  BY <1>1, KeptUnfold DEF VersionsBy

\* The versions of some writers are a sequence of entries.
LEMMA VersionsType ==
  ASSUME NEW s \in Seq(Entry), NEW W
  PROVE  VersionsBy(s, W) \in Seq(Entry)
<1>1. Len(s) \in 0 .. Len(s)
  OBVIOUS
<1> QED
  BY <1>1, KeptUnfold DEF VersionsBy

\* The first m entries of s and r are the same, and of the same writers.
AgreeUpTo(m, s, W, r, V) ==
  /\ m <= Len(s) /\ m <= Len(r)
  /\ \A i \in 1 .. m : s[i] = r[i] /\ (s[i].txn \in W <=> s[i].txn \in V)

\* Two prefixes that agree keep the same versions.
LEMMA KeptAgrees ==
  ASSUME NEW s \in Seq(Entry), NEW r \in Seq(Entry), NEW W, NEW V,
         NEW m \in Nat, AgreeUpTo(m, s, W, r, V)
  PROVE  VersionsUpTo(s, W)[m] = VersionsUpTo(r, V)[m]
<1> DEFINE K == VersionsUpTo(s, W)
           L == VersionsUpTo(r, V)
           T == {n \in Nat : n <= m => K[n] = L[n]}
<1> USE DEF AgreeUpTo
<1>1. /\ K[0] = << >>
      /\ \A n \in 1 .. Len(s) : K[n] = IF s[n].txn \in W THEN Append(K[n - 1], s[n]) ELSE K[n - 1]
  BY KeptUnfold
<1>2. /\ L[0] = << >>
      /\ \A n \in 1 .. Len(r) : L[n] = IF r[n].txn \in V THEN Append(L[n - 1], r[n]) ELSE L[n - 1]
  BY KeptUnfold
<1> HIDE DEF K, L
<1>3. 0 \in T
  BY <1>1, <1>2
<1>4. ASSUME NEW n \in Nat, n \in T PROVE n + 1 \in T
  <2> SUFFICES ASSUME n + 1 <= m PROVE K[n + 1] = L[n + 1]
    OBVIOUS
  <2>1. n + 1 \in 1 .. Len(s) /\ n + 1 \in 1 .. Len(r) /\ n + 1 \in 1 .. m /\ (n + 1) - 1 = n
    OBVIOUS
  <2>2. K[n] = L[n]
    BY <1>4
  <2> QED
    BY <1>1, <1>2, <2>1, <2>2
<1>5. Nat \subseteq T
  <2> HIDE DEF T
  <2> QED BY <1>3, <1>4, NatSetInduction
<1> QED
  BY <1>5 DEF K, L

\* An entry at the end of the chain is kept at the end or not at all.
LEMMA VersionsAppend ==
  ASSUME NEW s \in Seq(Entry), NEW e \in Entry, NEW W
  PROVE  VersionsBy(Append(s, e), W)
           = IF e.txn \in W THEN Append(VersionsBy(s, W), e) ELSE VersionsBy(s, W)
<1> DEFINE r == Append(s, e)
           n == Len(s)
<1>1. /\ r \in Seq(Entry) /\ Len(r) = n + 1 /\ n \in Nat /\ r[n + 1] = e
      /\ \A i \in 1 .. n : r[i] = s[i]
  OBVIOUS
<1>2. n + 1 \in 1 .. Len(r) /\ (n + 1) - 1 = n
  BY <1>1
<1> HIDE DEF r, n
<1>3. VersionsUpTo(r, W)[n + 1] = IF e.txn \in W THEN Append(VersionsUpTo(r, W)[n], e)
                                                ELSE VersionsUpTo(r, W)[n]
  BY <1>1, <1>2, KeptUnfold
<1>4. VersionsUpTo(r, W)[n] = VersionsUpTo(s, W)[n]
  <2>1. AgreeUpTo(n, r, W, s, W)
    BY <1>1 DEF AgreeUpTo, n
  <2> QED
    BY <1>1, <2>1, KeptAgrees
<1> QED
  BY <1>1, <1>3, <1>4 DEF VersionsBy, n, r

\* Writers that agree on the entries of a chain have the same versions in it.
LEMMA VersionsSame ==
  ASSUME NEW s \in Seq(Entry), NEW W, NEW V,
         \A i \in 1 .. Len(s) : s[i].txn \in W <=> s[i].txn \in V
  PROVE  VersionsBy(s, W) = VersionsBy(s, V)
<1>1. Len(s) \in Nat /\ AgreeUpTo(Len(s), s, W, s, V)
  BY DEF AgreeUpTo
<1>2. VersionsUpTo(s, W)[Len(s)] = VersionsUpTo(s, V)[Len(s)]
  BY <1>1, KeptAgrees
<1> QED
  BY <1>2 DEF VersionsBy

\* Writers without an entry have no versions.
LEMMA KeptEmpty ==
  ASSUME NEW s \in Seq(Entry), NEW W,
         NEW m \in Nat, m <= Len(s), \A i \in 1 .. m : s[i].txn \notin W
  PROVE  VersionsUpTo(s, W)[m] = << >>
<1> DEFINE K == VersionsUpTo(s, W)
           T == {n \in Nat : n <= m => K[n] = << >>}
<1>1. /\ K[0] = << >>
      /\ \A n \in 1 .. Len(s) : K[n] = IF s[n].txn \in W THEN Append(K[n - 1], s[n]) ELSE K[n - 1]
  BY KeptUnfold
<1> HIDE DEF K
<1>2. 0 \in T
  BY <1>1
<1>3. ASSUME NEW n \in Nat, n \in T PROVE n + 1 \in T
  BY <1>1, <1>3
<1>4. Nat \subseteq T
  <2> HIDE DEF T
  <2> QED BY <1>2, <1>3, NatSetInduction
<1> QED
  BY <1>4 DEF K

\* The versions of a writer whose entries are behind those of the others come
\* after theirs: what makes a commit an append to the committed history.
LEMMA VersionsJoin ==
  ASSUME NEW s \in Seq(Entry), NEW W, NEW t, t \notin W, AllBefore(s, W, t)
  PROVE  VersionsBy(s, W \union {t}) = VersionsBy(s, W) \o VersionsBy(s, {t})
<1> DEFINE N == Len(s)
           J == VersionsUpTo(s, W \union {t})
           K == VersionsUpTo(s, W)
           L == VersionsUpTo(s, {t})
           P(n) == J[n] = K[n] \o L[n]
           T == {n \in Nat : n <= N => P(n)}
<1>0. N \in Nat
  OBVIOUS
<1>1. /\ J[0] = << >>
      /\ \A n \in 1 .. N :
            J[n] = IF s[n].txn \in W \union {t} THEN Append(J[n - 1], s[n]) ELSE J[n - 1]
  BY KeptUnfold
<1>2. /\ K \in [0 .. N -> Seq(Entry)]
      /\ K[0] = << >>
      /\ \A n \in 1 .. N : K[n] = IF s[n].txn \in W THEN Append(K[n - 1], s[n]) ELSE K[n - 1]
  BY KeptUnfold
<1>3. /\ L \in [0 .. N -> Seq(Entry)]
      /\ L[0] = << >>
      /\ \A n \in 1 .. N : L[n] = IF s[n].txn \in {t} THEN Append(L[n - 1], s[n]) ELSE L[n - 1]
  BY KeptUnfold
<1>4. ASSUME NEW n \in 1 .. N, s[n].txn \in W PROVE L[n - 1] = << >>
  <2>1. n - 1 \in Nat /\ n - 1 <= N /\ \A i \in 1 .. n - 1 : i \in 1 .. N /\ i < n
    BY <1>0
  <2>2. \A i \in 1 .. n - 1 : s[i].txn \notin {t}
    BY <1>4, <2>1 DEF AllBefore
  <2> QED
    BY <2>1, <2>2, KeptEmpty
<1>a. \A n \in 1 .. N : s[n] \in Entry
  OBVIOUS
<1> HIDE DEF J, K, L, N
<1>p. P(0)
  BY <1>1, <1>2, <1>3
<1> HIDE DEF P
<1>5. 0 \in T
  BY <1>0, <1>p
<1>6. ASSUME NEW n \in Nat, n \in T PROVE n + 1 \in T
  <2> SUFFICES ASSUME n + 1 <= N PROVE P(n + 1)
    OBVIOUS
  <2>0. P(n)
    BY <1>0, <1>6
  <2> USE DEF P
  <2> HIDE DEF T
  <2>1. n + 1 \in 1 .. N /\ (n + 1) - 1 = n /\ n \in 0 .. N
    BY <1>0
  <2>2. J[n] = K[n] \o L[n] /\ K[n] \in Seq(Entry) /\ L[n] \in Seq(Entry) /\ s[n + 1] \in Entry
    BY <1>a, <1>2, <1>3, <2>0, <2>1
  <2>3. CASE s[n + 1].txn = t
    <3>1. J[n + 1] = Append(K[n] \o L[n], s[n + 1]) /\ K[n + 1] = K[n]
          /\ L[n + 1] = Append(L[n], s[n + 1])
      BY <1>1, <1>2, <1>3, <2>1, <2>2, <2>3
    <3>2. \A a, b \in Seq(Entry), e \in Entry : Append(a \o b, e) = a \o Append(b, e)
      OBVIOUS
    <3> QED
      <4>1. Append(K[n] \o L[n], s[n + 1]) = K[n] \o Append(L[n], s[n + 1])
        BY <2>2, <3>2
      <4> QED
        BY <3>1, <4>1
  <2>4. CASE s[n + 1].txn \in W
    <3>1. L[n] = << >> /\ L[n + 1] = << >>
      BY <1>3, <1>4, <2>1, <2>4
    <3>2. J[n + 1] = Append(K[n] \o << >>, s[n + 1]) /\ K[n + 1] = Append(K[n], s[n + 1])
      BY <1>1, <1>2, <2>1, <2>2, <2>4, <3>1
    <3>3. \A a \in Seq(Entry) : a \o << >> = a
      OBVIOUS
    <3>4. Append(K[n], s[n + 1]) \in Seq(Entry)
      BY <2>2
    <3> QED
      BY <2>2, <3>1, <3>2, <3>3, <3>4
  <2>5. CASE s[n + 1].txn \notin W \union {t}
    BY <1>1, <1>2, <1>3, <2>1, <2>2, <2>5
  <2> QED
    BY <2>3, <2>4, <2>5
<1>7. Nat \subseteq T
  <2> HIDE DEF T
  <2> QED BY <1>5, <1>6, NatSetInduction
<1>8. P(N)
  BY <1>0, <1>7
<1> QED
  BY <1>8 DEF VersionsBy, P, J, K, L, N

\* All versions kept are of the given writers.
LEMMA KeptWriters ==
  ASSUME NEW s \in Seq(Entry), NEW W
  PROVE  \A j \in 1 .. Len(VersionsBy(s, W)) : VersionsBy(s, W)[j].txn \in W
<1> DEFINE N == Len(s)
           K == VersionsUpTo(s, W)
           P(n) == \A j \in 1 .. Len(K[n]) : K[n][j].txn \in W
           T == {n \in Nat : n <= N => P(n)}
<1>0. N \in Nat /\ \A n \in 1 .. N : s[n] \in Entry
  OBVIOUS
<1>1. /\ K \in [0 .. N -> Seq(Entry)]
      /\ K[0] = << >>
      /\ \A n \in 1 .. N : K[n] = IF s[n].txn \in W THEN Append(K[n - 1], s[n]) ELSE K[n - 1]
  BY KeptUnfold
<1> HIDE DEF K, N
<1>2. P(0)
  BY <1>1
<1>3. ASSUME NEW n \in Nat, n + 1 <= N, P(n) PROVE P(n + 1)
  <2>1. n + 1 \in 1 .. N /\ (n + 1) - 1 = n /\ K[n] \in Seq(Entry) /\ s[n + 1] \in Entry
    BY <1>0, <1>1, <1>3
  <2>2. CASE s[n + 1].txn \in W
    <3>1. K[n + 1] = Append(K[n], s[n + 1])
      BY <1>1, <2>1, <2>2
    <3>2. \A j \in 1 .. Len(K[n + 1]) :
             \/ j \in 1 .. Len(K[n]) /\ K[n + 1][j] = K[n][j]
             \/ K[n + 1][j] = s[n + 1]
      BY <2>1, <3>1
    <3> QED
      BY <1>3, <2>2, <3>2
  <2>3. CASE s[n + 1].txn \notin W
    BY <1>1, <1>3, <2>1, <2>3
  <2> QED
    BY <2>2, <2>3
<1> HIDE DEF P
<1>4. 0 \in T /\ \A n \in Nat : n \in T => n + 1 \in T
  BY <1>0, <1>2, <1>3
<1>5. Nat \subseteq T
  <2> HIDE DEF T
  <2> QED BY <1>4, NatSetInduction
<1>6. P(N)
  BY <1>0, <1>5
<1> QED
  BY <1>6 DEF VersionsBy, P, K, N

\* What some of the writers wrote last is found in the versions kept as in
\* the chain.
LEMMA VersionsNewest ==
  ASSUME NEW s \in Seq(Entry), NEW W, NEW Q, Q \subseteq W
  PROVE  LET V == VersionsBy(s, W)
         IN  /\ NoneOf(s, Len(s), Q) => NoneOf(V, Len(V), Q)
             /\ \A e : NewestOf(s, Len(s), Q, e) => NewestOf(V, Len(V), Q, e)
<1> DEFINE N == Len(s)
           K == VersionsUpTo(s, W)
           P(n) == /\ NoneOf(s, n, Q) => NoneOf(K[n], Len(K[n]), Q)
                   /\ \A e : NewestOf(s, n, Q, e) => NewestOf(K[n], Len(K[n]), Q, e)
           T == {n \in Nat : n <= N => P(n)}
<1>0. N \in Nat /\ \A n \in 1 .. N : s[n] \in Entry
  OBVIOUS
<1>1. /\ K \in [0 .. N -> Seq(Entry)]
      /\ K[0] = << >>
      /\ \A n \in 1 .. N : K[n] = IF s[n].txn \in W THEN Append(K[n - 1], s[n]) ELSE K[n - 1]
  BY KeptUnfold
<1> HIDE DEF K, N
<1>2. P(0)
  BY <1>1 DEF NoneOf, NewestOf
<1>3. ASSUME NEW n \in Nat, n + 1 <= N, P(n) PROVE P(n + 1)
  <2>1. n + 1 \in 1 .. N /\ (n + 1) - 1 = n /\ K[n] \in Seq(Entry) /\ s[n + 1] \in Entry
        /\ Len(K[n]) \in Nat
    BY <1>0, <1>1, <1>3
  <2>2. CASE s[n + 1].txn \in W
    <3>1. K[n + 1] = Append(K[n], s[n + 1])
      BY <1>1, <2>1, <2>2
    <3>2. /\ Len(K[n + 1]) = Len(K[n]) + 1
          /\ K[n + 1][Len(K[n]) + 1] = s[n + 1]
          /\ \A j \in 1 .. Len(K[n]) : K[n + 1][j] = K[n][j]
      BY <2>1, <3>1
    <3>3. NoneOf(s, n + 1, Q) => NoneOf(K[n + 1], Len(K[n + 1]), Q)
      <4> SUFFICES ASSUME NoneOf(s, n + 1, Q) PROVE NoneOf(K[n + 1], Len(K[n + 1]), Q)
        OBVIOUS
      <4>1. NoneOf(K[n], Len(K[n]), Q) /\ s[n + 1].txn \notin Q
        BY <1>3 DEF NoneOf
      <4> QED
        <5>1. \A j \in 1 .. Len(K[n + 1]) : j \in 1 .. Len(K[n]) \/ j = Len(K[n]) + 1
          BY <2>1, <3>2
        <5> QED
          BY <3>2, <4>1, <5>1 DEF NoneOf
    <3>4. ASSUME NEW e, NewestOf(s, n + 1, Q, e) PROVE NewestOf(K[n + 1], Len(K[n + 1]), Q, e)
      <4>1. CASE s[n + 1].txn \in Q
        <5>1. e = s[n + 1]
          BY <3>4, <4>1 DEF NewestOf
        <5>2. Len(K[n]) + 1 \in 1 .. Len(K[n + 1])
          BY <2>1, <3>2
        <5> QED
          <6>1. \A j \in (Len(K[n]) + 1) + 1 .. Len(K[n + 1]) : FALSE
            BY <2>1, <3>2
          <6> QED
            BY <3>2, <4>1, <5>1, <5>2, <6>1 DEF NewestOf
      <4>2. CASE s[n + 1].txn \notin Q
        <5>1. NewestOf(s, n, Q, e)
          BY <3>4, <4>2 DEF NewestOf
        <5>2. PICK i \in 1 .. Len(K[n]) : /\ K[n][i] = e /\ e.txn \in Q
                    /\ \A j \in i + 1 .. Len(K[n]) : K[n][j].txn \notin Q
          BY <1>3, <5>1 DEF NewestOf
        <5>3. i \in 1 .. Len(K[n + 1]) /\ K[n + 1][i] = e
          BY <2>1, <3>2, <5>2
        <5>4. \A j \in i + 1 .. Len(K[n + 1]) : K[n + 1][j].txn \notin Q
          <6>1. \A j \in i + 1 .. Len(K[n + 1]) :
                   \/ j \in i + 1 .. Len(K[n]) /\ j \in 1 .. Len(K[n])
                   \/ j = Len(K[n]) + 1
            BY <2>1, <3>2, <5>2
          <6> QED
            BY <3>2, <4>2, <5>2, <6>1
        <5> QED
          BY <5>2, <5>3, <5>4 DEF NewestOf
      <4> QED
        BY <4>1, <4>2
    <3> QED
      BY <3>3, <3>4
  <2>3. CASE s[n + 1].txn \notin W
    <3>1. K[n + 1] = K[n] /\ s[n + 1].txn \notin Q
      BY <1>1, <2>1, <2>3
    <3>2. NoneOf(s, n + 1, Q) => NoneOf(s, n, Q)
      BY DEF NoneOf
    <3>3. ASSUME NEW e, NewestOf(s, n + 1, Q, e) PROVE NewestOf(s, n, Q, e)
      BY <3>1, <3>3 DEF NewestOf
    <3> QED
      BY <1>3, <3>1, <3>2, <3>3
  <2> QED
    BY <2>2, <2>3
<1> HIDE DEF P
<1>4. 0 \in T /\ \A n \in Nat : n \in T => n + 1 \in T
  BY <1>0, <1>2, <1>3
<1>5. Nat \subseteq T
  <2> HIDE DEF T
  <2> QED BY <1>4, NatSetInduction
<1>6. P(N)
  BY <1>0, <1>5
<1> QED
  BY <1>6 DEF VersionsBy, P, K, N

-----------------------------------------------------------------------------
(* The refinement, step by step *)

\* What the mapping makes of a key's chain.
HistOf(k) == VersionsBy(chain[k], logged)

PendingOf(t, k) == IF StatusOf(t) = "open" THEN VersionsBy(chain[k], {t}) ELSE << >>

\* A transaction that has no version in a chain has nothing pending there.
LEMMA NothingPending ==
  ASSUME NEW s \in Seq(Entry), NEW t, \A i \in 1 .. Len(s) : s[i].txn # t
  PROVE  VersionsBy(s, {t}) = << >>
<1>1. Len(s) \in Nat /\ \A i \in 1 .. Len(s) : s[i].txn \notin {t}
  OBVIOUS
<1> QED
  BY <1>1, KeptEmpty DEF VersionsBy

\* An empty engine is an empty store.
LEMMA StoreInit == Init => Store!Init
<1> SUFFICES ASSUME Init PROVE Store!Init
  OBVIOUS
<1>1. \A t \in Txns : StatusOf(t) = "new"
  BY EngineAssumption DEF Init, StatusOf, Txns
<1>2. \A k \in Keys : HistOf(k) = << >>
  BY VersionsOfNone DEF Init, HistOf
<1> QED
  BY <1>1, <1>2 DEF Store!Init, Store!NoWrites, HistOf

\* A step that changes no status, no chain and not the log is invisible.
LEMMA StoreStutters ==
  ASSUME UNCHANGED <<chain, logged>>, \A t \in Txns : StatusOf(t)' = StatusOf(t)
  PROVE  UNCHANGED Store!storeVars
  BY DEF Store!storeVars

\* garry_mvcc_begin opens a transaction that has nothing pending.
LEMMA BeginStep ==
  ASSUME ILock, NEW t \in Txns, Begin(t)
  PROVE  Store!Begin(t)
<1> USE DEF ILock, IRead, IType, TypeOK
<1>1. \A u \in Txns : u \in Int
  BY EngineAssumption DEF Txns
<1>2. StatusOf(t) = "new" /\ StatusOf(t)' = "open"
  BY <1>1 DEF Begin, StatusOf, Phases
<1>3. \A u \in Txns \ {t} : StatusOf(u)' = StatusOf(u)
  BY <1>1 DEF Begin, StatusOf
<1>4. \A k \in Keys : VersionsBy(chain[k], {t}) = << >>
  <2> SUFFICES ASSUME NEW k \in Keys PROVE VersionsBy(chain[k], {t}) = << >>
    OBVIOUS
  <2>1. \A i \in 1 .. Len(chain[k]) : chain[k][i].txn # t
    BY <1>1 DEF Begin, WritersBegun
  <2> QED
    BY <2>1, NothingPending
<1>5. chain' = chain /\ logged' = logged
  BY DEF Begin
<1> QED
  BY <1>2, <1>3, <1>4, <1>5 DEF Store!Begin

\* The versions a write leaves in the chains: the writer's last, and no other.
LEMMA AppendedVersions ==
  ASSUME chain \in [Keys -> Seq(Entry)],
         NEW k \in Keys, NEW t \in Txns, NEW v \in Values \union {Tombstone},
         CanAppend(chain[k], ChainCap), NEW q \in Keys, NEW W
  PROVE  VersionsBy(Appended(k, t, v)[q], W)
           = IF q = k /\ t \in W THEN Append(VersionsBy(chain[q], W), [txn |-> t, val |-> v])
                                 ELSE VersionsBy(chain[q], W)
<1> DEFINE e == [txn |-> t, val |-> v]
<1>1. e \in Entry /\ e.txn = t
  BY EngineAssumption DEF Entry, Txns
<1>2. Appended(k, t, v)[q] = IF q = k THEN Append(chain[q], e) ELSE chain[q]
  BY DEF Appended, AppendVersion
<1> HIDE DEF e
<1>3. chain[q] \in Seq(Entry)
  OBVIOUS
<1>4. VersionsBy(Append(chain[q], e), W)
        = IF t \in W THEN Append(VersionsBy(chain[q], W), e) ELSE VersionsBy(chain[q], W)
  BY <1>1, <1>3, VersionsAppend
<1> QED
  BY <1>2, <1>4 DEF e

\* An append to a chain page is a write of the store: the key's lock keeps all
\* other open transactions from having one pending on it.
LEMMA PutStep ==
  ASSUME ILock, NEW t \in Txns, ApplySet(t) \/ ApplyDelete(t)
  PROVE  \/ \E k \in Keys, v \in Values \union {Tombstone} : Store!Put(t, k, v)
         \/ UNCHANGED Store!storeVars
<1> USE DEF ILock, IRead, IType, TypeOK
<1> DEFINE k == op[t].key
           v == op[t].val
<1>1. /\ pc[t] = "apply" /\ k \in Keys /\ v \in Values \union {Tombstone}
      /\ logged' = logged
      /\ chain' = chain \/ chain' = Appended(k, t, v)
  BY DEF ApplySet, ApplyDelete, OpOK, Write
<1>2. \A u \in Txns : StatusOf(u)' = StatusOf(u)
  BY DEF ApplySet, ApplyDelete, StatusOf
<1>3. StatusOf(t) = "open" /\ t \notin logged
  BY <1>1 DEF StatusOf, Phases, IsActive
<1>4. CASE chain' = chain
  BY <1>1, <1>2, <1>4, StoreStutters
<1>5. CASE chain' # chain
  <2>1. CanAppend(chain[k], ChainCap) /\ chain' = Appended(k, t, v)
    BY <1>1, <1>5 DEF Appended
  <2>2. ASSUME NEW u \in Txns \ {t} PROVE PendingOf(u, k) = << >>
    <3>1. ASSUME StatusOf(u) = "open", NEW i \in 1 .. Len(chain[k]) PROVE chain[k][i].txn # u
      <4>1. ~ Settled(u)
        BY <3>1 DEF StatusOf, Settled
      <4>2. LockHeld(locks, t, k)
        BY <1>1 DEF WriterHolds
      <4> QED
        <5> SUFFICES ASSUME chain[k][i].txn = u PROVE FALSE
          OBVIOUS
        <5>1. LockHeld(locks, u, k)
          BY <1>1, <3>1, <4>1 DEF UnsettledHolds
        <5> HIDE DEF k
        <5> QED
          BY <4>2, <5>1 DEF ExclusiveLocks, LockHeld
    <3>2. chain[k] \in Seq(Entry)
      BY <1>1
    <3>3. StatusOf(u) = "open" => VersionsBy(chain[k], {u}) = << >>
      BY <3>1, <3>2, NothingPending
    <3> QED
      BY <3>3 DEF PendingOf
  <2> HIDE DEF k, v
  <2>3. \A q \in Keys : \A W : VersionsBy(chain'[q], W)
           = IF q = k /\ t \in W THEN Append(VersionsBy(chain[q], W), [txn |-> t, val |-> v])
                                 ELSE VersionsBy(chain[q], W)
    BY <1>1, <2>1, AppendedVersions
  <2>4. \A q \in Keys : VersionsBy(chain'[q], logged') = VersionsBy(chain[q], logged)
    BY <1>1, <1>3, <2>3
  <2>5. \A q \in Keys, u \in Txns : VersionsBy(chain'[q], {u})
           = IF q = k /\ u = t THEN Append(VersionsBy(chain[q], {t}), [txn |-> t, val |-> v])
                               ELSE VersionsBy(chain[q], {u})
    BY <2>3
  <2>6. ASSUME NEW u \in Txns, NEW q \in Keys
        PROVE  PendingOf(u, q)' = IF q = k /\ u = t
                                  THEN Append(PendingOf(u, q), [txn |-> t, val |-> v])
                                  ELSE PendingOf(u, q)
    BY <1>2, <1>3, <2>5 DEF PendingOf
  <2>7. Store!Put(t, k, v)
    <3>1. [u \in Txns |-> [q \in Keys |-> PendingOf(u, q)']]
             = [[u \in Txns |-> [q \in Keys |-> PendingOf(u, q)]]
                  EXCEPT ![t][k] = Append(@, [txn |-> t, val |-> v])]
      <4> DEFINE A == [u \in Txns |-> [q \in Keys |-> PendingOf(u, q)]]
                 B == [u \in Txns |-> [q \in Keys |-> PendingOf(u, q)']]
                 e == [txn |-> t, val |-> v]
      <4>1. B = [u \in Txns |-> IF u = t THEN [A[t] EXCEPT ![k] = Append(@, e)] ELSE A[u]]
        <5> HIDE DEF e
        <5>1. B[t] = [A[t] EXCEPT ![k] = Append(@, e)]
          BY <1>1, <2>6 DEF e
        <5>2. \A u \in Txns \ {t} : B[u] = A[u]
          BY <2>6
        <5> QED
          BY <5>1, <5>2
      <4> QED
        BY <4>1
    <3> QED
      BY <1>1, <1>2, <1>3, <2>2, <2>4, <3>1 DEF Store!Put, PendingOf
  <2> QED
    BY <1>1, <2>7
<1> QED
  BY <1>4, <1>5

\* Syncing the COMMIT record is the commit: no version of a committed
\* transaction is behind one of this one, so all of its writes go to the end
\* of the histories at once.
LEMMA CommitStep ==
  ASSUME ILock, NEW t \in Txns, CommitLog(t)
  PROVE  Store!Commit(t)
<1> USE DEF ILock, IRead, IType, TypeOK
<1>1. /\ chain' = chain /\ logged' = logged \union {t}
      /\ StatusOf(t) = "open" /\ StatusOf(t)' = "committed"
      /\ t \notin logged /\ ~ Settled(t)
  BY DEF CommitLog, StatusOf, Settled, Phases, IsActive
<1>2. \A u \in Txns \ {t} : StatusOf(u)' = StatusOf(u)
  BY DEF CommitLog, StatusOf
<1>3. ASSUME NEW k \in Keys
      PROVE  VersionsBy(chain'[k], logged') = VersionsBy(chain[k], logged) \o PendingOf(t, k)
  <2>1. AllBefore(chain[k], logged, t)
    BY <1>1 DEF AllBefore, NoDirtyWrite
  <2>2. chain[k] \in Seq(Entry)
    OBVIOUS
  <2> QED
    BY <1>1, <2>1, <2>2, VersionsJoin DEF PendingOf
<1>4. ASSUME NEW u \in Txns, NEW k \in Keys
      PROVE  PendingOf(u, k)' = IF u = t THEN << >> ELSE PendingOf(u, k)
  BY <1>1, <1>2 DEF PendingOf
<1> QED
  BY <1>1, <1>2, <1>3, <1>4 DEF Store!Commit, Store!NoWrites, PendingOf

\* Removing the slot publishes a committed transaction.
LEMMA PublishStep ==
  ASSUME ILock, NEW t \in Txns, CommitRemove(t)
  PROVE  Store!Publish(t)
<1> USE DEF ILock, IRead, IType, TypeOK
<1>1. /\ chain' = chain /\ logged' = logged
      /\ StatusOf(t) = "committed" /\ StatusOf(t)' = "published"
  BY EngineAssumption DEF CommitRemove, StatusOf, Phases, IsActive, Txns
<1>2. \A u \in Txns \ {t} : StatusOf(u)' = StatusOf(u)
  BY DEF CommitRemove, StatusOf
<1> QED
  BY <1>1, <1>2 DEF Store!Publish

\* Releasing the locks in a rollback aborts the transaction: its versions stay
\* in the chains and are nobody's.
LEMMA AbortStep ==
  ASSUME ILock, NEW t \in Txns, RollbackRelease(t)
  PROVE  Store!Abort(t)
<1> USE DEF ILock, IRead, IType, TypeOK
<1>1. /\ chain' = chain /\ logged' = logged
      /\ StatusOf(t) = "open" /\ StatusOf(t)' = "aborted"
  BY DEF RollbackRelease, StatusOf, Phases, IsActive
<1>2. \A u \in Txns \ {t} : StatusOf(u)' = StatusOf(u)
  BY DEF RollbackRelease, StatusOf
<1>3. ASSUME NEW u \in Txns, NEW k \in Keys
      PROVE  PendingOf(u, k)' = IF u = t THEN << >> ELSE PendingOf(u, k)
  BY <1>1, <1>2 DEF PendingOf
<1> QED
  BY <1>1, <1>2, <1>3 DEF Store!Abort, Store!NoWrites, PendingOf

\* The other steps of the engine are invisible in the store.
LEMMA InnerSteps ==
  ASSUME ILock, NEW t \in Txns,
         \/ LinkNode(t) \/ CommitRelease(t) \/ CommitFlush(t) \/ RollbackMark(t)
         \/ \E k \in Keys, v \in Values \union {Tombstone} : AcquireLock(t, k, v)
  PROVE  UNCHANGED Store!storeVars
<1> USE DEF ILock, IRead, IType, TypeOK
<1>1. CASE LinkNode(t) \/ CommitRelease(t) \/ CommitFlush(t)
  <2>1. UNCHANGED <<chain, logged>> /\ \A u \in Txns : StatusOf(u)' = StatusOf(u)
    BY <1>1 DEF LinkNode, CommitRelease, CommitFlush, StatusOf
  <2> QED
    BY <2>1, StoreStutters
<1>2. CASE RollbackMark(t)
  <2>1. UNCHANGED <<chain, logged>> /\ \A u \in Txns : StatusOf(u)' = StatusOf(u)
    BY <1>2 DEF RollbackMark, StatusOf, Phases, IsActive
  <2> QED
    BY <2>1, StoreStutters
<1>3. ASSUME NEW k \in Keys, NEW v \in Values \union {Tombstone}, AcquireLock(t, k, v)
      PROVE  UNCHANGED Store!storeVars
  <2>1. UNCHANGED <<chain, logged>> /\ \A u \in Txns : StatusOf(u)' = StatusOf(u)
    BY <1>3 DEF AcquireLock, StatusOf
  <2> QED
    BY <2>1, StoreStutters
<1> QED
  BY <1>1, <1>2, <1>3

\* Every step of the engine is a step of the store or invisible in it.
LEMMA StoreSteps == ILock /\ [Next]_vars => [Store!Next]_(Store!storeVars)
<1> SUFFICES ASSUME ILock, [Next]_vars PROVE [Store!Next]_(Store!storeVars)
  OBVIOUS
<1>1. ASSUME NEW t \in Txns, Call(t) \/ Step(t)
      PROVE  \/ Store!Begin(t)
             \/ \E k \in Keys, v \in Values \union {Tombstone} : Store!Put(t, k, v)
             \/ Store!Commit(t) \/ Store!Publish(t) \/ Store!Abort(t)
             \/ UNCHANGED Store!storeVars
  <2>1. CASE Begin(t)
    BY <2>1, BeginStep
  <2>2. CASE ApplySet(t) \/ ApplyDelete(t)
    BY <2>2, PutStep
  <2>3. CASE CommitLog(t)
    BY <2>3, CommitStep
  <2>4. CASE CommitRemove(t)
    BY <2>4, PublishStep
  <2>5. CASE RollbackRelease(t)
    BY <2>5, AbortStep
  <2>6. CASE \/ LinkNode(t) \/ CommitRelease(t) \/ CommitFlush(t) \/ RollbackMark(t)
             \/ \E k \in Keys, v \in Values \union {Tombstone} : AcquireLock(t, k, v)
    BY <2>6, InnerSteps
  <2> QED
    BY <1>1, <2>1, <2>2, <2>3, <2>4, <2>5, <2>6 DEF Call, Step
<1>2. ASSUME UNCHANGED vars PROVE UNCHANGED Store!storeVars
  BY <1>2 DEF vars, StatusOf, Store!storeVars
<1> QED
  BY <1>1, <1>2 DEF Next, Store!Next

\* If lock calls are serialised, every behaviour of the engine is one of the
\* abstract store: writes reach the committed history in one piece and in the
\* order of the COMMIT records, an aborted transaction leaves no trace, and
\* nobody writes a key on which another open transaction has a write pending.
THEOREM EngineImplementsStore ==
  ASSUME EngineMutex PROVE Spec => Store!Init /\ [][Store!Next]_(Store!storeVars)
<1>1. ILock /\ [Next]_vars => ILock'
  BY LockNext
<1> QED
  BY LockInit, <1>1, StoreInit, StoreSteps, PTL DEF Spec

-----------------------------------------------------------------------------
(* Reads *)

\* A thread between its calls reads what the store would answer it.
LEMMA ReadAsStore ==
  ASSUME ILock, ChainInTree, NEW t \in Txns, NEW k \in Keys, IsActive(t), pc[t] = "idle"
  PROVE  Read(t, k) = Store!StoreRead(t, k)
<1> USE DEF ILock, IRead, IType, TypeOK
<1> DEFINE s == chain[k]
           V == VersionsBy(s, {t})
           H == VersionsBy(s, logged)
           Q == {w \in logged : w <= t /\ w \notin active}
           R == {i \in 1 .. Len(H) : H[i].txn <= t /\ StatusOf(H[i].txn) = "published"}
<1>1. StatusOf(t) = "open" /\ t \notin logged /\ ~ Settled(t)
  BY DEF StatusOf, Settled, Phases, IsActive
<1>2. \A u \in Txns : u \in Nat
  BY DEF Txns
<1>3. s \in Seq(Entry) /\ V \in Seq(Entry) /\ H \in Seq(Entry)
  BY VersionsType
<1>4. \A i \in 1 .. Len(s) : s[i].txn \in Txns /\ s[i].txn < next_txid
  BY DEF WritersBegun
<1>5. R = {i \in 1 .. Len(H) : H[i].txn \in Q}
  <2>1. \A i \in 1 .. Len(H) : H[i].txn \in logged
    BY <1>3, KeptWriters
  <2>2. \A w \in logged : StatusOf(w) = "published" <=> w \notin active
    BY <1>2 DEF StatusOf, Phases
  <2> QED
    BY <2>1, <2>2
<1>6. Read(t, k) = IF k \in tree THEN FindVisible(s, t, active) ELSE NotFound
  BY DEF Read
<1>7. Store!StoreRead(t, k)
        = IF V # << >> THEN Store!Shown(V[Len(V)].val)
          ELSE IF R = {} THEN NotFound
          ELSE Store!Shown(H[CHOOSE i \in R : \A j \in R : j <= i].val)
  <2>1. \A i \in 1 .. Len(H) : H[i].txn \in Txns
    BY <1>3, KeptWriters
  <2>2. Store!Readable(t, k) = R
    BY <2>1 DEF Store!Readable
  <2> QED
    BY <1>1, <2>2 DEF Store!StoreRead
<1> HIDE DEF V, H, R, Q
<1>8. ASSUME NEW e, NewestOf(s, Len(s), {t}, e)
      PROVE  Read(t, k) = Store!StoreRead(t, k)
  <2>1. k \in tree
    <3>1. s # << >>
      <4> HIDE DEF s
      <4> QED BY <1>8 DEF NewestOf
    <3> QED
      BY <3>1 DEF ChainInTree
  <2>2. FindVisible(s, t, active) = Store!Shown(e.val)
    <3>1. \A i, j \in 1 .. Len(s) : i < j /\ s[i].txn = t => s[j].txn = t
      BY <1>1 DEF NoDirtyWrite
    <3> HIDE DEF s
    <3> QED
      BY <1>2, <1>3, <1>8, <3>1, FindsOwn DEF Store!Shown
  <2>3. V # << >> /\ V[Len(V)] = e
    <3>1. NewestOf(V, Len(V), {t}, e)
      BY <1>3, <1>8, VersionsNewest DEF V
    <3>2. \A j \in 1 .. Len(V) : V[j].txn \in {t}
      BY <1>3, KeptWriters DEF V
    <3>3. PICK i \in 1 .. Len(V) : V[i] = e /\ \A j \in i + 1 .. Len(V) : V[j].txn \notin {t}
      BY <3>1 DEF NewestOf
    <3>4. Len(V) \in Nat /\ i = Len(V)
      <4>1. Len(V) \in Nat /\ Len(V) \in 1 .. Len(V)
        BY <1>3, <3>3
      <4> QED
        BY <3>2, <3>3, <4>1
    <3> QED
      BY <3>3, <3>4
  <2> QED
    BY <1>6, <1>7, <2>1, <2>2, <2>3
<1>9. ASSUME NoneOf(s, Len(s), {t})
      PROVE  Read(t, k) = Store!StoreRead(t, k)
  <2>1. V = << >>
    BY <1>3, <1>9, NothingPending DEF NoneOf, V
  <2>2. \A i \in 1 .. Len(s) : VisibleTo(s[i], t, active) <=> s[i].txn \in Q
    BY <1>2, <1>4, <1>9 DEF NoneOf, VisibleTo, Q, Phases
  <2>3. Q \subseteq logged
    BY DEF Q
  <2>4. CASE NoneOf(s, Len(s), Q)
    <3>1. FindVisible(s, t, active) = NotFound
      BY <1>3, <2>2, <2>4, FindsNewest
    <3>2. NoneOf(H, Len(H), Q)
      BY <1>3, <2>3, <2>4, VersionsNewest DEF H
    <3> QED
      BY <1>5, <1>6, <1>7, <2>1, <3>1, <3>2 DEF NoneOf
  <2>5. ASSUME NEW e, NewestOf(s, Len(s), Q, e)
        PROVE  Read(t, k) = Store!StoreRead(t, k)
    <3>1. k \in tree
      <4>1. s # << >>
        <5> HIDE DEF s
        <5> QED BY <2>5 DEF NewestOf
      <4> QED
        BY <4>1 DEF ChainInTree
    <3>2. FindVisible(s, t, active) = Store!Shown(e.val)
      <4> HIDE DEF s, ILock
      <4> QED BY <1>3, <2>2, <2>5, FindsNewest DEF Store!Shown
    <3>3. NewestOf(H, Len(H), Q, e)
      BY <1>3, <2>3, <2>5, VersionsNewest DEF H
    <3>4. PICK i \in 1 .. Len(H) : /\ H[i] = e /\ e.txn \in Q
                                   /\ \A j \in i + 1 .. Len(H) : H[j].txn \notin Q
      BY <3>3 DEF NewestOf
    <3>5. R \in SUBSET Nat /\ i \in R /\ \A j \in R : j <= i
      BY <1>3, <1>5, <3>4
    <3>6. (CHOOSE n \in R : \A j \in R : j <= n) = i
      BY <3>5, NewestIs
    <3> QED
      BY <1>6, <1>7, <2>1, <3>1, <3>2, <3>4, <3>5, <3>6
  <2> QED
    BY <1>3, <2>4, <2>5, NewestExists
<1> QED
  BY <1>3, <1>8, <1>9, NewestExists

\* If lock calls are serialised, garry_storage_get answers as the abstract
\* store does, in every reachable state.
THEOREM ReadsAsStore == ASSUME EngineMutex PROVE Spec => []ReadsAgree
<1>1. Init => ChainInTree
  BY DEF Init, ChainInTree
<1>2. ILock /\ [Next]_vars => ILock'
  BY LockNext
<1>3. ILock /\ ChainInTree => ReadsAgree
  BY ReadAsStore DEF ReadsAgree
<1> QED
  BY LockInit, <1>1, <1>2, <1>3, TreeNext, PTL DEF Spec

-----------------------------------------------------------------------------
(* Pruning one chain. *)

\* The recursion of SurvivorsUpTo, one entry at a time.
LEMMA SurvivorsUnfold ==
  ASSUME NEW s \in Seq(Entry), NEW A
  PROVE  LET K == SurvivorsUpTo(s, A)
         IN  /\ K \in [0 .. Len(s) -> Seq(Entry)]
             /\ K[0] = << >>
             /\ \A n \in 1 .. Len(s) :
                   K[n] = IF Survives(s, n, A) THEN Append(K[n - 1], s[n]) ELSE K[n - 1]
<1> DEFINE N == Len(s)
           X == Seq(Entry)
           D(x, n) == IF Survives(s, n, A) THEN Append(x, s[n]) ELSE x
           step == [n \in 1 .. N |-> [x \in X |-> D(x, n)]]
           K == SurvivorsUpTo(s, A)
           Eq(g) == g = [n \in 0 .. N |-> IF n = 0 THEN << >> ELSE D(g[n - 1], n)]
<1>1. N \in Nat /\ << >> \in X /\ \A n \in 1 .. N, x \in X : D(x, n) \in X
  OBVIOUS
<1>2. K = CHOOSE Kept : Eq(Kept)
  BY DEF SurvivorsUpTo
<1> HIDE DEF N, X, D, K
<1>3. step \in StepsOn(N, X)
  BY <1>1 DEF StepsOn
<1>4. PICK g : Recursion(g, N, X, << >>, step)
  <2> HIDE DEF step
  <2> QED BY <1>1, <1>3, RecursionExists
<1>5. \A n \in 0 .. N : n # 0 => n \in 1 .. N /\ n - 1 \in 0 .. N
  BY <1>1
<1>6. Eq(g)
  BY <1>4, <1>5 DEF Recursion
<1>7. Eq(K)
  <2> HIDE DEF Eq
  <2> QED BY <1>2, <1>6
<1>8. K[0] = << >> /\ \A n \in 1 .. N : K[n] = D(K[n - 1], n)
  BY <1>1, <1>7
<1> DEFINE T == {n \in Nat : n <= N => K[n] \in X}
<1>9. 0 \in T
  BY <1>1, <1>8
<1>10. ASSUME NEW n \in Nat, n \in T PROVE n + 1 \in T
  BY <1>1, <1>8, <1>10
<1>11. Nat \subseteq T
  <2> HIDE DEF T
  <2> QED BY <1>9, <1>10, NatSetInduction
<1>12. K \in [0 .. N -> X]
  <2>1. \A n \in 0 .. N : K[n] \in X
    BY <1>1, <1>11
  <2> QED BY <1>7, <2>1
<1> QED BY <1>8, <1>12 DEF N, X, D, K

\* What is left after pruning are versions that were there.
Among(r, s) == \A j \in 1 .. Len(r) : \E i \in 1 .. Len(s) : r[j] = s[i]

\* Pruning makes up no version.
LEMMA PruneAmong ==
  ASSUME NEW s \in Seq(Entry), NEW A
  PROVE  Prune(s, A) \in Seq(Entry) /\ Among(Prune(s, A), s)
<1> DEFINE N == Len(s)
           K == SurvivorsUpTo(s, A)
           T == {n \in Nat : n <= N => Among(K[n], s)}
<1>1. /\ N \in Nat /\ K \in [0 .. N -> Seq(Entry)] /\ K[0] = << >>
      /\ \A n \in 1 .. N : K[n] = IF Survives(s, n, A) THEN Append(K[n - 1], s[n]) ELSE K[n - 1]
  BY SurvivorsUnfold
<1> HIDE DEF K, N
<1>2. 0 \in T
  BY <1>1 DEF Among
<1>3. ASSUME NEW n \in Nat, n \in T PROVE n + 1 \in T
  <2> SUFFICES ASSUME n + 1 <= N PROVE Among(K[n + 1], s)
    OBVIOUS
  <2>1. /\ n + 1 \in 1 .. N /\ n \in 0 .. N /\ K[n] \in Seq(Entry) /\ Among(K[n], s)
        /\ (n + 1) - 1 = n /\ s[n + 1] \in Entry
    <3>1. N \in Nat /\ K \in [0 .. N -> Seq(Entry)]
      BY <1>1
    <3>2. n + 1 \in 1 .. N /\ n \in 0 .. N /\ n <= N /\ (n + 1) - 1 = n
      BY <3>1
    <3>3. K[n] \in Seq(Entry)
      BY <3>1, <3>2
    <3>4. Among(K[n], s)
      BY <1>3, <3>2
    <3>5. s[n + 1] \in Entry
      BY <3>2 DEF N
    <3> QED BY <3>2, <3>3, <3>4, <3>5
  <2>2. CASE Survives(s, n + 1, A)
    <3>1. K[n + 1] = Append(K[n], s[n + 1])
      BY <1>1, <2>1, <2>2
    <3>2. ASSUME NEW j \in 1 .. Len(K[n + 1]) PROVE \E i \in 1 .. Len(s) : K[n + 1][j] = s[i]
      <4>1. CASE j \in 1 .. Len(K[n])
        <5>1. K[n + 1][j] = K[n][j]
          BY <2>1, <3>1, <4>1
        <5> QED BY <2>1, <4>1, <5>1 DEF Among
      <4>2. CASE j \notin 1 .. Len(K[n])
        <5>1. K[n + 1][j] = s[n + 1]
          BY <2>1, <3>1, <4>2
        <5> QED BY <2>1, <5>1 DEF N
      <4> QED BY <4>1, <4>2
    <3> QED BY <3>2 DEF Among
  <2>3. CASE ~ Survives(s, n + 1, A)
    BY <1>1, <2>1, <2>3
  <2> QED BY <2>2, <2>3
<1>4. Nat \subseteq T
  <2> HIDE DEF T
  <2> QED BY <1>2, <1>3, NatSetInduction
<1>5. K[N] \in Seq(Entry) /\ Among(K[N], s)
  BY <1>1, <1>4
<1>6. Among(s, s)
  BY DEF Among
<1> QED BY <1>5, <1>6 DEF Prune, K, N

\* A page on which none of Q wrote stays one.
LEMMA PruneNone ==
  ASSUME NEW s \in Seq(Entry), NEW A, NEW Q, NoneOf(s, Len(s), Q)
  PROVE  NoneOf(Prune(s, A), Len(Prune(s, A)), Q)
BY PruneAmong DEF Among, NoneOf

\* The newest version of the writers Q, if it survives, is their newest
\* afterwards: survivors keep their order.
LEMMA PruneNewest ==
  ASSUME NEW s \in Seq(Entry), NEW A, NEW Q, NEW m \in 1 .. Len(s), s[m].txn \in Q,
         \A j \in m + 1 .. Len(s) : s[j].txn \notin Q, Survives(s, m, A)
  PROVE  NewestOf(Prune(s, A), Len(Prune(s, A)), Q, s[m])
<1> DEFINE N == Len(s)
           K == SurvivorsUpTo(s, A)
           P(n) == NewestOf(K[n], Len(K[n]), Q, s[m])
           T == {n \in Nat : m <= n /\ n <= N => P(n)}
<1>1. /\ N \in Nat /\ K \in [0 .. N -> Seq(Entry)] /\ m \in 1 .. N
      /\ \A n \in 1 .. N : K[n] = IF Survives(s, n, A) THEN Append(K[n - 1], s[n]) ELSE K[n - 1]
      /\ \A n \in 1 .. N : s[n] \in Entry
      /\ \A n \in m + 1 .. N : s[n].txn \notin Q
  BY SurvivorsUnfold
<1> HIDE DEF K, N
<1>2. P(m)
  <2>0. m - 1 \in 0 .. N
    BY <1>1
  <2>1. K[m - 1] \in Seq(Entry) /\ K[m] = Append(K[m - 1], s[m]) /\ s[m] \in Entry
    <3> HIDE DEF P, T
    <3> QED BY <1>1, <2>0
  <2>2. PICK i : i = Len(K[m - 1]) + 1
    OBVIOUS
  <2>3. Len(K[m]) = i /\ i \in 1 .. Len(K[m]) /\ K[m][i] = s[m]
    BY <2>1, <2>2
  <2>4. \A j \in i + 1 .. Len(K[m]) : K[m][j].txn \notin Q
    BY <2>3
  <2> QED BY <2>3, <2>4 DEF NewestOf
<1>3. ASSUME NEW n \in Nat, m <= n, n + 1 <= N, P(n) PROVE P(n + 1)
  <2>1. /\ n + 1 \in 1 .. N /\ n + 1 \in m + 1 .. N /\ n \in 0 .. N /\ (n + 1) - 1 = n
        /\ K[n] \in Seq(Entry) /\ s[n + 1] \in Entry /\ s[n + 1].txn \notin Q
    BY <1>1, <1>3
  <2>2. CASE Survives(s, n + 1, A)
    <3>1. K[n + 1] = Append(K[n], s[n + 1])
      BY <1>1, <2>1, <2>2
    <3>2. PICK i \in 1 .. Len(K[n]) : /\ K[n][i] = s[m]
                                      /\ \A j \in i + 1 .. Len(K[n]) : K[n][j].txn \notin Q
      BY <1>3 DEF NewestOf
    <3>3. i \in 1 .. Len(K[n + 1]) /\ K[n + 1][i] = s[m]
      BY <2>1, <3>1, <3>2
    <3>4. ASSUME NEW j \in i + 1 .. Len(K[n + 1]) PROVE K[n + 1][j].txn \notin Q
      <4>1. CASE j \in i + 1 .. Len(K[n])
        <5>1. K[n + 1][j] = K[n][j]
          BY <2>1, <3>1, <3>2, <4>1
        <5> QED BY <3>2, <4>1, <5>1
      <4>2. CASE j \notin i + 1 .. Len(K[n])
        <5>1. j = Len(K[n]) + 1
          BY <2>1, <3>1, <3>2, <4>2
        <5>2. K[n + 1][j] = s[n + 1]
          BY <2>1, <3>1, <5>1
        <5> QED BY <2>1, <5>2
      <4> QED BY <4>1, <4>2
    <3> QED BY <3>3, <3>4 DEF NewestOf
  <2>3. CASE ~ Survives(s, n + 1, A)
    BY <1>1, <1>3, <2>1, <2>3
  <2> QED BY <2>2, <2>3
<1> HIDE DEF P
<1>4. 0 \in T /\ \A n \in Nat : n \in T => n + 1 \in T
  <2>1. 0 \in T
    BY <1>1
  <2>2. ASSUME NEW n \in Nat, n \in T, m <= n + 1, n + 1 <= N PROVE P(n + 1)
    <3>1. CASE m <= n
      BY <1>1, <1>3, <2>2, <3>1
    <3>2. CASE ~ (m <= n)
      <4>1. m = n + 1
        BY <1>1, <2>2, <3>2
      <4> QED BY <1>2, <4>1
    <3> QED BY <3>1, <3>2
  <2> QED BY <2>1, <2>2
<1>5. Nat \subseteq T
  <2> HIDE DEF T
  <2> QED BY <1>4, NatSetInduction
<1>6. P(N)
  BY <1>1, <1>5
<1>7. CASE Len(s) <= 1
  <2>1. Prune(s, A) = s
    BY <1>7 DEF Prune
  <2> QED BY <2>1 DEF NewestOf
<1>8. CASE ~ (Len(s) <= 1)
  BY <1>6, <1>8 DEF P, Prune, K, N
<1> QED BY <1>7, <1>8

\* A reader that is in the list the collector works with, and behind whose own
\* versions nobody else has written, finds after pruning what it found before.
LEMMA PruneKeepsRead ==
  ASSUME NEW s \in Seq(Entry), NEW A, NEW t \in Nat, t \in A,
         \A i, j \in 1 .. Len(s) : i < j /\ s[i].txn = t => s[j].txn = t
  PROVE  FindVisible(Prune(s, A), t, A) = FindVisible(s, t, A)
<1> DEFINE Q == {w \in Nat : w <= t /\ ~ (w \in A /\ w # t)}
<1>0. PICK r : r = Prune(s, A)
  OBVIOUS
<1>1. r \in Seq(Entry)
  BY <1>0, PruneAmong
<1>2. ASSUME NEW e \in Entry PROVE VisibleTo(e, t, A) <=> e.txn \in Q
  BY DEF VisibleTo, Entry
<1>3. /\ \A i \in 1 .. Len(s) : VisibleTo(s[i], t, A) <=> s[i].txn \in Q
      /\ \A i \in 1 .. Len(r) : VisibleTo(r[i], t, A) <=> r[i].txn \in Q
  <2>1. \A i \in 1 .. Len(s) : s[i] \in Entry
    OBVIOUS
  <2> HIDE DEF Q
  <2>2. \A i \in 1 .. Len(r) : r[i] \in Entry
    BY <1>1
  <2> QED BY <1>2, <2>1, <2>2
<1>4. CASE NoneOf(s, Len(s), Q)
  <2>1. NoneOf(r, Len(r), Q)
    BY <1>0, <1>4, PruneNone
  <2> HIDE DEF Q
  <2>2. FindVisible(r, t, A) = NotFound
    BY <1>1, <1>3, <2>1, FindsNewest
  <2>3. FindVisible(s, t, A) = NotFound
    BY <1>3, <1>4, FindsNewest
  <2> QED BY <1>0, <2>2, <2>3
<1>5. CASE ~ NoneOf(s, Len(s), Q)
  <2>1. PICK e : NewestOf(s, Len(s), Q, e)
    BY <1>5, NewestExists
  <2>2. PICK m \in 1 .. Len(s) : /\ s[m] = e /\ e.txn \in Q
                                 /\ \A j \in m + 1 .. Len(s) : s[j].txn \notin Q
    BY <2>1 DEF NewestOf
  <2>3. Survives(s, m, A)
    <3>1. CASE m = Len(s)
      BY <3>1 DEF Survives
    <3>2. CASE m # Len(s) /\ s[m].txn = t
      <4>1. Len(s) \in 1 .. Len(s) /\ Len(s) \in m + 1 .. Len(s) /\ m < Len(s)
        BY <3>2
      <4>2. s[Len(s)].txn = t /\ t \in Q
        BY <3>2, <4>1
      <4> HIDE DEF Q
      <4> QED BY <2>2, <4>1, <4>2
    <3>3. CASE m # Len(s) /\ s[m].txn # t
      <4>1. s[m].txn <= t /\ s[m].txn \notin A
        BY <2>2, <3>3
      <4> QED BY <4>1 DEF Survives
    <3> QED BY <3>1, <3>2, <3>3
  <2> HIDE DEF Q
  <2>4. NewestOf(r, Len(r), Q, e)
    BY <1>0, <2>2, <2>3, PruneNewest
  <2>5. FindVisible(r, t, A) = IF e.val = Tombstone THEN NotFound ELSE e.val
    <3>1. \A i \in 1 .. Len(r) : VisibleTo(r[i], t, A) <=> r[i].txn \in Q
      BY <1>3
    <3>2. \A f : NewestOf(r, Len(r), Q, f)
                => FindVisible(r, t, A) = IF f.val = Tombstone THEN NotFound ELSE f.val
      BY <1>1, <3>1, FindsNewest, Zenon
    <3> QED BY <2>4, <3>2
  <2>6. FindVisible(s, t, A) = IF e.val = Tombstone THEN NotFound ELSE e.val
    <3>1. \A i \in 1 .. Len(s) : VisibleTo(s[i], t, A) <=> s[i].txn \in Q
      BY <1>3
    <3>2. \A f : NewestOf(s, Len(s), Q, f)
                => FindVisible(s, t, A) = IF f.val = Tombstone THEN NotFound ELSE f.val
      BY <3>1, FindsNewest, Zenon
    <3> QED BY <2>1, <3>2
  <2> QED BY <1>0, <2>5, <2>6
<1> QED BY <1>4, <1>5

-----------------------------------------------------------------------------
\* The inductive invariant: that of the engine, and while the collector works
\* beside a quiet program its copy of the active list is the list.
CopyIsList == GcQuiet /\ gcTodo # {} => gcSnap = active

IGc == IRead /\ gcTodo \subseteq OldKeys /\ CopyIsList

\* A database closed with one committed version of each old key.
LEMMA GcStarts == GcInit => IGc
<1> SUFFICES ASSUME GcInit PROVE IGc
  OBVIOUS
<1>1. PICK v \in Values :
         chain = [k \in Keys |-> IF k \in OldKeys THEN AppendVersion(<< >>, 1, v) ELSE << >>]
  BY DEF GcInit
<1>2. AppendVersion(<< >>, 1, v) \in Seq(Entry) /\ << >> \in Seq(Entry)
  BY DEF AppendVersion, Entry
<1>3. /\ Len(AppendVersion(<< >>, 1, v)) = 1
      /\ AppendVersion(<< >>, 1, v)[1].txn = 1
  BY DEF AppendVersion
<1>4. chain \in [Keys -> Seq(Entry)]
  BY <1>1, <1>2
<1>5. IType
  BY <1>4, GcAssumption, EngineAssumption DEF GcInit, IType, TypeOK, OpOK, PCs, Txns
<1>6. Phases
  BY GcAssumption, EngineAssumption DEF GcInit, Phases, Txns, IsActive
<1>7. WritersBegun
  <2> SUFFICES ASSUME NEW k \in Keys, NEW i \in 1 .. Len(chain[k])
               PROVE  chain[k][i].txn \in Txns /\ chain[k][i].txn < next_txid
    BY DEF WritersBegun
  <2>1. CASE k \in OldKeys
    <3>1. chain[k] = AppendVersion(<< >>, 1, v)
      BY <1>1, <2>1
    <3>2. Len(chain[k]) = 1 /\ chain[k][1].txn = 1
      BY <1>3, <3>1
    <3>3. chain[k][i].txn = 1
      <4>1. i = 1
        BY <3>2
      <4> QED BY <3>2, <4>1
    <3> QED BY <3>3, GcAssumption DEF GcInit
  <2>2. CASE k \notin OldKeys
    BY <1>1, <2>2
  <2> QED BY <2>1, <2>2
<1> QED BY <1>5, <1>6, <1>7 DEF IGc, IRead, CopyIsList, GcInit

\* Pruning one chain keeps what the engine needs of the chains.
LEMMA PruneKeepsEngine ==
  ASSUME IRead, NEW k \in Keys, NEW A, chain' = [chain EXCEPT ![k] = Prune(chain[k], A)],
         UNCHANGED <<next_txid, active, rolledBack, locks, tree, logged, pc, op>>
  PROVE  IRead'
<1>1. chain[k] \in Seq(Entry) /\ chain \in [Keys -> Seq(Entry)]
  BY DEF IRead, IType, TypeOK
<1>2. Prune(chain[k], A) \in Seq(Entry) /\ Among(Prune(chain[k], A), chain[k])
  BY <1>1, PruneAmong
<1>3. chain' \in [Keys -> Seq(Entry)] /\ \A q \in Keys : Among(chain'[q], chain[q])
  BY <1>1, <1>2 DEF Among
<1>4. IType'
  BY <1>3 DEF IRead, IType, TypeOK, OpOK
<1>5. Phases'
  BY DEF IRead, Phases, IsActive
<1>6. WritersBegun'
  <2> SUFFICES ASSUME NEW q \in Keys, NEW j \in 1 .. Len(chain'[q])
               PROVE  chain'[q][j].txn \in Txns /\ chain'[q][j].txn < next_txid
    BY DEF WritersBegun
  <2>1. PICK i \in 1 .. Len(chain[q]) : chain'[q][j] = chain[q][i]
    BY <1>3 DEF Among
  <2> QED BY <2>1 DEF IRead, WritersBegun
<1> QED BY <1>4, <1>5, <1>6 DEF IRead

\* Every step of the engine and of the collector keeps the invariant.
LEMMA GcKeeps == IGc /\ [GcNext]_gcVars => IGc'
<1> SUFFICES ASSUME IGc, [GcNext]_gcVars PROVE IGc'
  OBVIOUS
<1>1. CASE GcStart
  <2>1. UNCHANGED vars
    BY <1>1 DEF GcStart
  <2>2. IRead'
    BY <2>1, ReadNext DEF IGc
  <2> QED BY <1>1, <2>1, <2>2 DEF IGc, GcStart, CopyIsList, vars
<1>2. ASSUME NEW k \in OldKeys, GcPrune(k) PROVE IGc'
  <2>1. IRead'
    BY <1>2, GcAssumption, PruneKeepsEngine DEF IGc, GcPrune
  <2> QED BY <1>2, <2>1 DEF IGc, GcPrune, CopyIsList
<1>3. ASSUME NEW k \in OldKeys, GcSkip(k) PROVE IGc'
  <2>1. UNCHANGED vars
    BY <1>3 DEF GcSkip
  <2>2. IRead'
    BY <2>1, ReadNext DEF IGc
  <2> QED BY <1>3, <2>1, <2>2 DEF IGc, GcSkip, CopyIsList, vars
<1>4. CASE Engine
  <2>1. IRead'
    BY <1>4, ReadNext DEF IGc, Engine
  <2> QED BY <1>4, <2>1 DEF IGc, Engine, CopyIsList
<1>5. CASE UNCHANGED gcVars
  <2>1. UNCHANGED vars
    BY <1>5 DEF gcVars
  <2>2. IRead'
    BY <2>1, ReadNext DEF IGc
  <2> QED BY <1>5, <2>1, <2>2 DEF IGc, CopyIsList, gcVars, vars
<1> QED BY <1>1, <1>2, <1>3, <1>4, <1>5 DEF GcNext

\* The invariant of the engine survives the collector.
LEMMA GcSound == GcSpec => []IGc
BY GcStarts, GcKeeps, PTL DEF GcSpec

\* No transaction sees a version that is not committed on disk, with the
\* collector pruning beside it at any time, quiet or not, with or without
\* serialised lock calls.
THEOREM GcReadsDurable == GcSpec => []NoDirtyRead
<1>1. IGc => NoDirtyRead
  BY ReadIsDurable DEF IGc
<1> QED BY <1>1, GcSound, PTL

\* A step of the collector beside a quiet program takes away no version that
\* an open transaction reads, unless there are dirty writes.
THEOREM GcLeavesReads == ASSUME GcQuiet PROVE GcSpec => GcKeepsOpenReads
<1>1. ASSUME IGc, [GcNext]_gcVars, gcTodo # gcTodo', chain # chain', NoDirtyWrite,
             NEW t \in Txns, NEW k \in Keys, IsActive(t), pc[t] = "idle"
      PROVE  Read(t, k)' = Read(t, k)
  <2>1. PICK q \in OldKeys : GcPrune(q)
    BY <1>1 DEF GcNext, GcStart, GcSkip, Engine, gcVars, vars
  <2>2. /\ gcSnap = active /\ q \in Keys /\ chain' = [chain EXCEPT ![q] = Prune(chain[q], gcSnap)]
        /\ UNCHANGED <<active, rolledBack, tree>>
    BY <1>1, <2>1, GcAssumption DEF GcPrune, IGc, CopyIsList
  <2>3. /\ chain \in [Keys -> Seq(Entry)] /\ chain[k] \in Seq(Entry)
        /\ t \in active /\ t \notin rolledBack /\ t \in Nat
    BY <1>1, EngineAssumption DEF IGc, IRead, IType, TypeOK, IsActive, Txns
  <2>4. ~ Settled(t)
    BY <1>1, <2>3 DEF Settled, IGc, IRead, Phases
  <2>5. \A i, j \in 1 .. Len(chain[k]) : i < j /\ chain[k][i].txn = t => chain[k][j].txn = t
    BY <1>1, <2>4 DEF NoDirtyWrite
  <2>6. FindVisible(Prune(chain[k], active), t, active) = FindVisible(chain[k], t, active)
    BY <2>3, <2>5, PruneKeepsRead
  <2>7. chain'[k] = IF k = q THEN Prune(chain[k], active) ELSE chain[k]
    BY <2>2, <2>3
  <2>8. FindVisible(chain'[k], t, active) = FindVisible(chain[k], t, active)
    BY <2>6, <2>7
  <2> QED BY <2>2, <2>8 DEF Read, IsActive
<1>2. IGc /\ [GcNext]_gcVars =>
        [\A t \in Txns, k \in Keys :
           (/\ gcTodo # gcTodo' /\ chain # chain'
            /\ IsActive(t) /\ pc[t] = "idle"
            /\ NoDirtyWrite)
             => Read(t, k)' = Read(t, k)]_gcVars
  BY <1>1
<1> QED BY <1>2, GcSound, PTL DEF GcSpec, GcKeepsOpenReads

=============================================================================
