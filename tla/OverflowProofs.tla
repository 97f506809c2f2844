--------------------------- MODULE OverflowProofs ---------------------------
(***************************************************************************)
(* Proofs about Overflow: where every overflow page is, and what a get and *)
(* an iterator read, for values of any length, chains and free lists of    *)
(* any size and any number of writes, failures and collections.            *)
(***************************************************************************)
EXTENDS Overflow, FiniteSetTheorems, WellFoundedInduction, TLAPS

-----------------------------------------------------------------------------
(* The invariant.                                                          *)

Ptr == Nat \union {NoPage}
Datum == (Values \X Nat) \union {<< >>}
PageType == [next : Ptr, data : Datum]
Version == [txn : Txns, val : Values \union {Tombstone}, head : Ptr, cut : BOOLEAN]

\* The pages 0 .. M - 1, with pointers among themselves.
IsFile(pages, M) ==
  /\ pages \in [0 .. M - 1 -> PageType]
  /\ \A p \in 0 .. M - 1 : pages[p].next < M

IsChain(ch, M) ==
  /\ ch \in Seq(Version)
  /\ \A i \in 1 .. Len(ch) : ch[i].head < M

OTypes ==
  /\ total \in Nat
  /\ IsFile(pg, total)
  /\ IsChain(chain, total)
  /\ free \in Seq(Nat) /\ \A i \in 1 .. Len(free) : free[i] < total
  /\ leaked \subseteq 0 .. total - 1

PathOf(pages, e) == Path(pages, e.head, Chunks[e.val])

\* The pages on the path of a version have its chunks in order, and unless a
\* link was lost there are as many as the value has chunks.
Carries(pages, e) ==
  IsLarge(e) => \A j \in 1 .. Chunks[e.val] :
     /\ PathOf(pages, e)[j] # NoPage => pages[PathOf(pages, e)[j]].data = <<e.val, j>>
     /\ ~ e.cut => PathOf(pages, e)[j] # NoPage

PathsCarry == \A i \in 1 .. Len(chain) : Carries(pg, chain[i])

Distinct(s) == \A i, j \in 1 .. Len(s) : s[i] = s[j] => i = j

\* Each of the pages below M has one owner: the list fr, the set lk, or one of
\* the n sets Of[1] .. Of[n].
OneOwner(fr, lk, n, Of, M) ==
  /\ \A k \in 1 .. n : Of[k] \subseteq 0 .. M - 1
  /\ \A i, k \in 1 .. n : i # k => Of[i] \intersect Of[k] = {}
  /\ \A k \in 1 .. n : Of[k] \intersect lk = {}
  /\ \A i \in 1 .. Len(fr) : fr[i] \notin lk /\ \A k \in 1 .. n : fr[i] \notin Of[k]
  /\ \A p \in 0 .. M - 1 : \/ p \in lk
                           \/ \E i \in 1 .. Len(fr) : fr[i] = p
                           \/ \E k \in 1 .. n : p \in Of[k]

Owned(pages, ch) == [k \in 1 .. Len(ch) |-> PathPages(pages, ch[k])]

\* The pages of the log records.
LoggedIn(pages, w) == UNION {PathPages(pages, w[i]) : i \in 1 .. Len(w)}

\* The versions, the free list and, together, the lost pages and the log.
PagesOwned ==
  /\ Distinct(free)
  /\ OneOwner(free, leaked \union LoggedIn(pg, wal), Len(chain), Owned(pg, chain), total)

LogLarge(w) == \A i \in 1 .. Len(w) : IsLarge(w[i])

\* The log records have their chunks, on pages of their own.
LogKept ==
  /\ IsChain(wal, total)
  /\ LogLarge(wal)
  /\ \A i \in 1 .. Len(wal) : Carries(pg, wal[i])
  /\ \A i \in 1 .. Len(wal) : PathPages(pg, wal[i]) \intersect leaked = {}
  /\ \A i, j \in 1 .. Len(wal) :
        i # j => PathPages(pg, wal[i]) \intersect PathPages(pg, wal[j]) = {}

IterFields ==
  [open : {TRUE}, copy : Seq(Version), slot : Nat, pid : Ptr, got : Seq(Datum),
   out : Seq(Seq(Datum)), stale : BOOLEAN, failed : BOOLEAN]

IterTypes ==
  \/ iter = NoIter
  \/ /\ iter \in IterFields
     /\ IsChain(iter.copy, total)
     /\ iter.slot <= Len(iter.copy) /\ iter.pid < total

\* A large version in the iterator's copy is still in the chain.
CopyKept == \A k \in 1 .. Len(iter.copy) :
               IsLarge(iter.copy[k]) => \E i \in 1 .. Len(chain) : chain[i] = iter.copy[k]

\* Inside a value, the iterator has its first chunks and is on its path.
Reading ==
  iter.got # << >> =>
    LET e == iter.copy[iter.slot]
    IN  /\ iter.slot > 0 /\ IsLarge(e) /\ Len(iter.got) < Chunks[e.val]
        /\ \A j \in 1 .. Len(iter.got) : iter.got[j] = <<e.val, j>>
        /\ iter.pid = PathOf(pg, e)[Len(iter.got) + 1]

\* Slot of the value the iterator returned as its n-th.
SlotOf(n) == Len(iter.copy) + 1 - n

Returned ==
  /\ Len(iter.out) = Len(iter.copy) - iter.slot
  /\ \A n \in 1 .. Len(iter.out) :
        IsLarge(iter.copy[SlotOf(n)]) => iter.out[n] = Whole(iter.copy[SlotOf(n)].val)

IterReads == iter.open /\ ~ iter.stale => CopyKept /\ Reading /\ Returned

IOver == OTypes /\ PathsCarry /\ PagesOwned /\ LogKept /\ IterTypes /\ IterReads

-----------------------------------------------------------------------------
(* Induction and recursion over the naturals, with sets and functions for  *)
(* predicates and operators.                                               *)

\* Induction over the naturals for a set of numbers.
LEMMA NatSetInduction ==
  ASSUME NEW T, 0 \in T, \A n \in Nat : n \in T => n + 1 \in T
  PROVE  Nat \subseteq T
<1> DEFINE B == Nat \ T
<1> SUFFICES ASSUME B # {} PROVE FALSE
  OBVIOUS
<1>1. B \in SUBSET Nat
  OBVIOUS
<1>2. PICK x \in B : \A y \in B : ~ (<<y, x>> \in OpToRel(<, Nat))
  BY <1>1, NatLessThanWellFounded, WFMin
<1>3. x \in Nat /\ x # 0 /\ x - 1 \in Nat
  OBVIOUS
<1>4. \A y \in B : ~ (y < x)
  BY <1>2 DEF OpToRel
<1>5. x - 1 \in T
  BY <1>3, <1>4
<1> QED
  BY <1>3, <1>5

\* Every set of naturals that is not empty and has a bound has a greatest
\* element.
LEMMA GreatestNat ==
  ASSUME NEW S \in SUBSET Nat, S # {}, NEW B \in Nat, \A x \in S : x <= B
  PROVE  \E x \in S : \A y \in S : y <= x
<1> DEFINE T == {B - x : x \in S}
<1>1. \A x \in S : x \in Nat /\ B - x \in Nat
  OBVIOUS
<1>2. T \in SUBSET Nat /\ T # {}
  BY <1>1
<1>3. PICK d \in T : \A c \in T : ~ (<<c, d>> \in OpToRel(<, Nat))
  BY <1>2, NatLessThanWellFounded, WFMin
<1>4. PICK x \in S : d = B - x
  BY <1>3
<1>5. \A c \in T : ~ (c < d)
  BY <1>2, <1>3 DEF OpToRel
<1>6. \A y \in S : B - y \in T
  OBVIOUS
<1>7. \A y \in S : ~ (B - y < B - x)
  BY <1>4, <1>5, <1>6
<1>8. \A y \in S : y <= x
  <2> HIDE DEF T
  <2> QED BY <1>1, <1>7
<1> QED
  BY <1>8

\* g is defined by recursion: it starts with c and applies one step after the
\* other.
StepsOn(N, X) == [1 .. N -> [X -> X]]

Recursion(g, N, X, c, step) ==
  /\ g \in [0 .. N -> X]
  /\ g[0] = c
  /\ \A n \in 1 .. N : g[n] = step[n][g[n - 1]]

\* A function over 0 .. N that is defined by recursion exists.
LEMMA RecursionExists ==
  ASSUME NEW N \in Nat, NEW X, NEW c \in X, NEW step \in StepsOn(N, X)
  PROVE  \E g : Recursion(g, N, X, c, step)
<1> USE DEF StepsOn
<1> DEFINE Sol(m, g) == /\ g \in [0 .. m -> X]
                        /\ g[0] = c
                        /\ \A n \in 1 .. m : g[n] = step[n][g[n - 1]]
           T == {m \in Nat : m <= N => \E g : Sol(m, g)}
<1>1. 0 \in T
  <2>1. Sol(0, [n \in 0 .. 0 |-> c])
    OBVIOUS
  <2> QED BY <2>1
<1>2. ASSUME NEW m \in Nat, m \in T PROVE m + 1 \in T
  <2> SUFFICES ASSUME m + 1 <= N PROVE \E g : Sol(m + 1, g)
    OBVIOUS
  <2>1. PICK g : Sol(m, g)
    BY <1>2
  <2> DEFINE h == [n \in 0 .. m + 1 |-> IF n <= m THEN g[n] ELSE step[m + 1][g[m]]]
  <2>2. step[m + 1][g[m]] \in X
    BY <2>1
  <2>3. h \in [0 .. m + 1 -> X] /\ h[0] = c
    BY <2>1, <2>2
  <2>4. ASSUME NEW n \in 1 .. m + 1 PROVE h[n] = step[n][h[n - 1]]
    <3>1. CASE n = m + 1
      BY <3>1
    <3>2. CASE n \in 1 .. m
      <4>1. h[n] = g[n] /\ h[n - 1] = g[n - 1]
        BY <3>2
      <4> QED BY <2>1, <3>2, <4>1
    <3> QED BY <3>1, <3>2
  <2> QED
    BY <2>3, <2>4
<1>3. N \in T
  BY <1>1, <1>2, NatSetInduction
<1> QED
  BY <1>3 DEF Recursion

-----------------------------------------------------------------------------
(* Paths.                                                                  *)

\* q starts at h and follows the pointers for n of the M pages.
Follows(q, pages, h, n, M) ==
  /\ q \in [1 .. n -> Ptr]
  /\ \A i \in 1 .. n : q[i] < M
  /\ n > 0 => q[1] = h
  /\ \A i \in 1 .. n : i < n =>
        q[i + 1] = IF q[i] = NoPage THEN NoPage ELSE pages[q[i]].next

\* The recursion of Path, one page at a time.
LEMMA PathUnfold ==
  ASSUME NEW M \in Nat, NEW pages, IsFile(pages, M), NEW h \in Ptr, h < M, NEW n \in Nat
  PROVE  Follows(Path(pages, h, n), pages, h, n, M)
<1> DEFINE X == {x \in Ptr : x < M}
           D(x) == IF x = NoPage THEN NoPage ELSE pages[x].next
           Eq(g) == g = [i \in 1 .. n |-> IF i = 1 THEN h ELSE D(g[i - 1])]
           P == Path(pages, h, n)
<1>1. h \in X /\ \A x \in X : D(x) \in X
  BY DEF IsFile, PageType, Ptr, NoPage
<1>2. P = CHOOSE g : Eq(g)
  BY DEF Path
<1> HIDE DEF X, D, P
<1>3. \E g : Eq(g) /\ g \in [1 .. n -> X]
  <2>1. CASE n = 0
    <3>1. Eq([i \in 1 .. n |-> h]) /\ [i \in 1 .. n |-> h] \in [1 .. n -> X]
      BY <2>1
    <3> QED BY <3>1
  <2>2. CASE n # 0
    <3> DEFINE step == [i \in 1 .. n - 1 |-> [x \in X |-> D(x)]]
    <3>1. n - 1 \in Nat /\ step \in StepsOn(n - 1, X)
      BY <1>1, <2>2 DEF StepsOn
    <3>2. PICK g : Recursion(g, n - 1, X, h, step)
      <4> HIDE DEF step
      <4> QED BY <1>1, <3>1, RecursionExists
    <3>3. /\ g \in [0 .. n - 1 -> X] /\ g[0] = h
          /\ \A i \in 1 .. n - 1 : g[i] = D(g[i - 1])
      <4>1. \A i \in 1 .. n - 1 : i - 1 \in 0 .. n - 1
        BY <3>1
      <4> QED BY <3>2, <4>1 DEF Recursion
    <3> DEFINE f == [i \in 1 .. n |-> g[i - 1]]
    <3>4. f \in [1 .. n -> X]
      BY <3>3
    <3>5. ASSUME NEW i \in 1 .. n PROVE f[i] = IF i = 1 THEN h ELSE D(f[i - 1])
      <4>1. CASE i = 1
        BY <3>3, <4>1
      <4>2. CASE i # 1
        <5>1. i - 1 \in 1 .. n - 1 /\ i - 1 \in 1 .. n
          BY <4>2
        <5>2. f[i - 1] = g[(i - 1) - 1] /\ f[i] = g[i - 1]
          BY <5>1
        <5> QED BY <3>3, <4>2, <5>1, <5>2
      <4> QED BY <4>1, <4>2
    <3>6. f = [i \in 1 .. n |-> f[i]]
      OBVIOUS
    <3> HIDE DEF f
    <3>7. Eq(f)
      BY <3>5, <3>6
    <3> QED BY <3>4, <3>7
  <2> QED BY <2>1, <2>2
<1>4. Eq(P)
  <2> HIDE DEF Eq
  <2> QED BY <1>2, <1>3
<1>5. \A i \in 1 .. n : P[i] = IF i = 1 THEN h ELSE D(P[i - 1])
  BY <1>4
<1>6. P = [i \in 1 .. n |-> P[i]]
  BY <1>4
<1> HIDE DEF Eq
<1> DEFINE T == {k \in Nat : k \in 1 .. n => P[k] \in X}
<1>7. 0 \in T
  OBVIOUS
<1>8. ASSUME NEW k \in Nat, k \in T PROVE k + 1 \in T
  <2>1. CASE k = 0
    BY <1>1, <1>5, <2>1
  <2>2. CASE k # 0 /\ k + 1 \in 1 .. n
    <3>1. k \in 1 .. n /\ k + 1 # 1 /\ (k + 1) - 1 = k
      BY <2>2
    <3>2. P[k + 1] = D(P[k])
      BY <1>5, <2>2, <3>1
    <3> QED BY <1>1, <1>8, <3>1, <3>2
  <2>3. CASE k + 1 \notin 1 .. n
    BY <2>3
  <2> QED BY <2>1, <2>2, <2>3
<1>9. Nat \subseteq T
  <2> HIDE DEF T
  <2> QED BY <1>7, <1>8, NatSetInduction
<1>10. \A i \in 1 .. n : P[i] \in X
  BY <1>9
<1>11. P \in [1 .. n -> Ptr] /\ \A i \in 1 .. n : P[i] < M
  <2>1. \A i \in 1 .. n : P[i] \in Ptr /\ P[i] < M
    BY <1>10 DEF X
  <2> QED BY <1>6, <2>1
<1>12. n > 0 => P[1] = h
  BY <1>5
<1>13. ASSUME NEW i \in 1 .. n, i < n PROVE P[i + 1] = D(P[i])
  <2>1. i + 1 \in 1 .. n /\ i + 1 # 1 /\ (i + 1) - 1 = i
    BY <1>13
  <2> QED BY <1>5, <2>1
<1> QED BY <1>11, <1>12, <1>13 DEF P, D, Follows

\* Where the pages of a path are as they were, the path is as it was.
LEMMA PathSame ==
  ASSUME NEW M \in Nat, NEW pages, IsFile(pages, M), NEW h \in Ptr, h < M, NEW n \in Nat,
         NEW L \in Nat, NEW others, IsFile(others, L), M <= L,
         \A i \in 1 .. n : Path(pages, h, n)[i] # NoPage
                            => others[Path(pages, h, n)[i]] = pages[Path(pages, h, n)[i]]
  PROVE  Path(others, h, n) = Path(pages, h, n)
<1> DEFINE P == Path(pages, h, n)
           Q == Path(others, h, n)
           T == {k \in Nat : k \in 1 .. n => Q[k] = P[k]}
<1>1. Follows(P, pages, h, n, M)
  BY PathUnfold
<1>2. Follows(Q, others, h, n, L)
  <2>1. h < L
    BY DEF Ptr, NoPage
  <2> QED BY <2>1, PathUnfold
<1>3. \A i \in 1 .. n : P[i] # NoPage => others[P[i]] = pages[P[i]]
  OBVIOUS
<1> HIDE DEF P, Q
<1>4. 0 \in T
  OBVIOUS
<1>5. ASSUME NEW k \in Nat, k \in T PROVE k + 1 \in T
  <2>1. CASE k = 0
    BY <1>1, <1>2, <2>1 DEF Follows
  <2>2. CASE k # 0 /\ k + 1 \in 1 .. n
    <3>1. k \in 1 .. n /\ k < n
      BY <2>2
    <3> QED BY <1>1, <1>2, <1>3, <1>5, <3>1 DEF Follows
  <2>3. CASE k + 1 \notin 1 .. n
    BY <2>3
  <2> QED BY <2>1, <2>2, <2>3
<1>6. Nat \subseteq T
  <2> HIDE DEF T
  <2> QED BY <1>4, <1>5, NatSetInduction
<1>7. \A i \in 1 .. n : Q[i] = P[i]
  BY <1>6
<1> QED BY <1>1, <1>2, <1>7 DEF P, Q, Follows

\* Pages with the chunks of one value in order are all different.
LEMMA PathDistinct ==
  ASSUME NEW pages, NEW e, IsLarge(e), Carries(pages, e),
         NEW i \in 1 .. Chunks[e.val], NEW j \in 1 .. Chunks[e.val],
         PathOf(pages, e)[i] = PathOf(pages, e)[j], PathOf(pages, e)[i] # NoPage
  PROVE  i = j
<1> DEFINE q == PathOf(pages, e)
<1>1. \A k \in 1 .. Chunks[e.val] : q[k] # NoPage => pages[q[k]].data = <<e.val, k>>
  BY DEF Carries
<1> HIDE DEF q
<1>2. q[i] = q[j] /\ q[i] # NoPage
  BY DEF q
<1>3. pages[q[i]].data = <<e.val, i>> /\ pages[q[i]].data = <<e.val, j>>
  BY <1>1, <1>2
<1>4. <<e.val, i>> = <<e.val, j>>
  BY <1>3
<1> QED BY <1>4

\* The value of a large version has chunks.
LEMMA LargeChunks ==
  ASSUME NEW e \in Version, IsLarge(e)
  PROVE  e.val \in Values /\ Chunks[e.val] \in Nat /\ Chunks[e.val] > 0
BY OverflowAssumption DEF IsLarge, Version

\* The pages of a version are those of its path.
LEMMA PagesOfPath ==
  ASSUME NEW pages, NEW e
  PROVE  /\ IsLarge(e) => \A p : p \in PathPages(pages, e) <=>
              p # NoPage /\ \E j \in 1 .. Chunks[e.val] : PathOf(pages, e)[j] = p
         /\ ~ IsLarge(e) => PathPages(pages, e) = {}
BY DEF PathPages, PathOf

\* They are pages of the file.
LEMMA PagesInFile ==
  ASSUME NEW M \in Nat, NEW pages, IsFile(pages, M), NEW e \in Version, e.head < M
  PROVE  PathPages(pages, e) \subseteq 0 .. M - 1
<1>1. CASE IsLarge(e)
  <2>1. Chunks[e.val] \in Nat /\ e.head \in Ptr
    BY <1>1, LargeChunks DEF Version
  <2>2. Follows(PathOf(pages, e), pages, e.head, Chunks[e.val], M)
    BY <2>1, PathUnfold DEF PathOf
  <2>3. \A j \in 1 .. Chunks[e.val] : PathOf(pages, e)[j] # NoPage => PathOf(pages, e)[j] \in 0 .. M - 1
    BY <2>2 DEF Follows, Ptr, NoPage
  <2> QED BY <1>1, <2>3, PagesOfPath
<1>2. CASE ~ IsLarge(e)
  BY <1>2, PagesOfPath
<1> QED BY <1>1, <1>2

\* A version keeps its pages and its chunks while nobody writes on them.
LEMMA PathKept ==
  ASSUME NEW M \in Nat, NEW pages, IsFile(pages, M), NEW e \in Version, e.head < M,
         Carries(pages, e),
         NEW L \in Nat, NEW others, IsFile(others, L), M <= L,
         \A p \in PathPages(pages, e) : others[p] = pages[p]
  PROVE  /\ IsLarge(e) => PathOf(others, e) = PathOf(pages, e)
         /\ PathPages(others, e) = PathPages(pages, e)
         /\ Carries(others, e)
<1>1. CASE IsLarge(e)
  <2> DEFINE n == Chunks[e.val]
             h == e.head
  <2>1. n \in Nat /\ h \in Ptr /\ h < M
    BY <1>1, LargeChunks DEF Version
  <2>2. \A i \in 1 .. n : PathOf(pages, e)[i] # NoPage => PathOf(pages, e)[i] \in PathPages(pages, e)
    BY <1>1, PagesOfPath
  <2>3. \A i \in 1 .. n : Path(pages, h, n)[i] # NoPage
                            => others[Path(pages, h, n)[i]] = pages[Path(pages, h, n)[i]]
    BY <2>2 DEF PathOf
  <2>4. Path(others, h, n) = Path(pages, h, n)
    <3> HIDE DEF n, h
    <3> QED BY <2>1, <2>3, PathSame
  <2>5. PathOf(others, e) = PathOf(pages, e)
    BY <2>4 DEF PathOf
  <2>6. PathPages(others, e) = PathPages(pages, e)
    BY <1>1, <2>4 DEF PathPages
  <2>7. ASSUME NEW j \in 1 .. n
        PROVE  /\ PathOf(others, e)[j] # NoPage => others[PathOf(others, e)[j]].data = <<e.val, j>>
               /\ ~ e.cut => PathOf(others, e)[j] # NoPage
    <3>1. /\ PathOf(pages, e)[j] # NoPage => pages[PathOf(pages, e)[j]].data = <<e.val, j>>
          /\ ~ e.cut => PathOf(pages, e)[j] # NoPage
      BY <1>1 DEF Carries
    <3>2. PathOf(pages, e)[j] # NoPage => others[PathOf(pages, e)[j]] = pages[PathOf(pages, e)[j]]
      BY <2>2
    <3> QED BY <2>5, <3>1, <3>2
  <2> QED BY <2>5, <2>6, <2>7 DEF Carries
<1>2. CASE ~ IsLarge(e)
  BY <1>2, PagesOfPath DEF Carries
<1> QED BY <1>1, <1>2

-----------------------------------------------------------------------------
(* Handing out pages.                                                      *)

\* ids are n pages taken from the free list or new, and rest are the others,
\* in a file that has grown to M pages.
Available(p) == p >= total \/ \E k \in 1 .. Len(free) : free[k] = p

Hands(ids, n, rest, M) ==
  /\ M \in Nat /\ total <= M
  /\ ids \in Seq(Nat) /\ Len(ids) = n /\ Distinct(ids)
  /\ \A i \in 1 .. n : ids[i] < M /\ Available(ids[i])
  /\ rest \in Seq(Nat) /\ Distinct(rest)
  /\ \A k \in 1 .. Len(rest) : rest[k] < M /\ Available(rest[k])
  /\ \A i \in 1 .. n, k \in 1 .. Len(rest) : ids[i] # rest[k]
  /\ \A p \in 0 .. M - 1 : Available(p) =>
        (\E i \in 1 .. n : ids[i] = p) \/ (\E k \in 1 .. Len(rest) : rest[k] = p)

\* What is on the free list, and what it is after some were taken.
LEMMA FreeAfterIs ==
  ASSUME OTypes, NEW n \in Nat
  PROVE  /\ FreeAfter(n) \in Seq(Nat)
         /\ Len(FreeAfter(n)) = IF n < Len(free) THEN Len(free) - n ELSE 0
         /\ \A k \in 1 .. Len(FreeAfter(n)) : k + n \in 1 .. Len(free) /\ FreeAfter(n)[k] = free[k + n]
<1>1. free \in Seq(Nat) /\ Len(free) \in Nat
  BY DEF OTypes
<1>2. CASE n < Len(free)
  BY <1>1, <1>2 DEF FreeAfter
<1>3. CASE ~ (n < Len(free))
  <2>1. FreeAfter(n) = << >>
    BY <1>1, <1>3 DEF FreeAfter
  <2> QED BY <1>3, <2>1
<1> QED BY <1>2, <1>3

\* garry_pool_allocate gives out different pages, none of which anybody has.
LEMMA AllocHands ==
  ASSUME OTypes, Distinct(free), NEW n \in Nat
  PROVE  /\ Hands(Allocated(n), n, FreeAfter(n), TotalAfter(n))
         /\ \A k \in 1 .. Len(FreeAfter(n)) : FreeAfter(n)[k] < total
<1> DEFINE N == Len(free)
           A == Allocated(n)
           F == FreeAfter(n)
           M == TotalAfter(n)
<1>1. N \in Nat /\ total \in Nat /\ free \in Seq(Nat) /\ \A i \in 1 .. N : free[i] \in Nat /\ free[i] < total
  BY DEF OTypes
<1>2. M \in Nat /\ total <= M /\ M = IF n > N THEN total + n - N ELSE total
  BY <1>1 DEF TotalAfter
<1>3. /\ A = [i \in 1 .. n |-> IF i <= N THEN free[i] ELSE total + i - N - 1]
  BY DEF Allocated
<1>4. /\ F \in Seq(Nat) /\ Len(F) = IF n < N THEN N - n ELSE 0
      /\ \A k \in 1 .. Len(F) : k + n \in 1 .. N /\ F[k] = free[k + n]
  BY FreeAfterIs
<1>5. \A i, j \in 1 .. N : free[i] = free[j] => i = j
  BY DEF Distinct
<1> HIDE DEF N, A, F, M
<1>6. \A i \in 1 .. n : A[i] \in Nat /\ A[i] < M
  BY <1>1, <1>2, <1>3
<1>7. A \in Seq(Nat) /\ Len(A) = n
  BY <1>3, <1>6
<1>8. Distinct(A)
  <2> SUFFICES ASSUME NEW i \in 1 .. n, NEW j \in 1 .. n, A[i] = A[j] PROVE i = j
    BY <1>7 DEF Distinct
  <2> QED BY <1>1, <1>3, <1>5
<1>9. ASSUME NEW i \in 1 .. n PROVE Available(A[i])
  <2>1. CASE i <= N
    <3>1. A[i] = free[i] /\ i \in 1 .. N
      BY <1>1, <1>3, <2>1
    <3> QED BY <3>1 DEF Available, N
  <2>2. CASE ~ (i <= N)
    <3>1. A[i] >= total
      BY <1>1, <1>3, <2>2
    <3> QED BY <3>1 DEF Available
  <2> QED BY <2>1, <2>2
<1>10. Distinct(F)
  <2> SUFFICES ASSUME NEW i \in 1 .. Len(F), NEW j \in 1 .. Len(F), F[i] = F[j] PROVE i = j
    BY DEF Distinct
  <2>1. i + n = j + n
    BY <1>4, <1>5
  <2> QED BY <1>4, <2>1
<1>11. ASSUME NEW k \in 1 .. Len(F) PROVE F[k] < total /\ F[k] < M /\ Available(F[k])
  <2>1. k + n \in 1 .. N /\ F[k] = free[k + n]
    BY <1>4
  <2>2. F[k] < total /\ F[k] < M
    BY <1>1, <1>2, <2>1
  <2> QED BY <2>1, <2>2 DEF Available, N
<1>12. ASSUME NEW i \in 1 .. n, NEW k \in 1 .. Len(F) PROVE A[i] # F[k]
  <2>1. k + n \in 1 .. N /\ F[k] = free[k + n]
    BY <1>4
  <2>2. i # k + n /\ i <= N
    BY <1>1, <2>1
  <2>3. A[i] = free[i] /\ i \in 1 .. N
    BY <1>1, <1>3, <2>2
  <2> QED BY <1>5, <2>1, <2>2, <2>3
<1>13. ASSUME NEW p \in 0 .. M - 1, Available(p)
       PROVE  (\E i \in 1 .. n : A[i] = p) \/ (\E k \in 1 .. Len(F) : F[k] = p)
  <2>1. CASE p >= total
    <3>1. n > N /\ p - total + N + 1 \in 1 .. n /\ ~ (p - total + N + 1 <= N)
      BY <1>1, <1>2, <2>1
    <3>2. A[p - total + N + 1] = p
      BY <1>1, <1>3, <3>1
    <3> QED BY <3>1, <3>2
  <2>2. ASSUME NEW l \in 1 .. N, free[l] = p
        PROVE  (\E i \in 1 .. n : A[i] = p) \/ (\E k \in 1 .. Len(F) : F[k] = p)
    <3>1. CASE l <= n
      <4>1. l \in 1 .. n /\ A[l] = p
        BY <1>1, <1>3, <2>2, <3>1
      <4> QED BY <4>1
    <3>2. CASE ~ (l <= n)
      <4>1. l - n \in 1 .. Len(F) /\ (l - n) + n = l
        BY <1>1, <1>4, <3>2
      <4>2. F[l - n] = p
        BY <1>4, <2>2, <4>1
      <4> QED BY <4>1, <4>2
    <3> QED BY <3>1, <3>2
  <2> QED BY <1>13, <2>1, <2>2 DEF Available, N
<1> QED
  BY <1>2, <1>4, <1>6, <1>7, <1>8, <1>9, <1>10, <1>11, <1>12, <1>13 DEF Hands, A, F, M

-----------------------------------------------------------------------------
(* Writing a value.                                                        *)

\* pages are the M pages after the chunks of v were written on ids.
Writes(pages, ids, v, lost, M) ==
  /\ IsFile(pages, M)
  /\ \A p \in 0 .. total - 1 : (\A i \in 1 .. Len(ids) : ids[i] # p) => pages[p] = pg[p]
  /\ \A i \in 1 .. Len(ids) :
        /\ pages[ids[i]].next = IF i < Len(ids) /\ i \notin lost THEN ids[i + 1] ELSE NoPage
        /\ pages[ids[i]].data = <<v, i>>

\* What garry_overflow_write leaves in the pages.
LEMMA WritesValue ==
  ASSUME OTypes, Distinct(free), NEW n \in Nat, NEW v \in Values, NEW lost
  PROVE  Writes(WrittenPages(Allocated(n), v, lost), Allocated(n), v, lost, TotalAfter(n))
<1> DEFINE A == Allocated(n)
           F == FreeAfter(n)
           M == TotalAfter(n)
           W == WrittenPages(A, v, lost)
           Nxt(i) == IF i < n /\ i \notin lost THEN A[i + 1] ELSE NoPage
           Rec(i) == [next |-> Nxt(i), data |-> <<v, i>>]
<1>1. /\ Hands(A, n, F, M) /\ \A k \in 1 .. Len(F) : F[k] < total
      /\ total \in Nat /\ IsFile(pg, total)
  BY AllocHands DEF OTypes
<1> HIDE DEF A, F, M
<1>2. /\ M \in Nat /\ total <= M /\ A \in Seq(Nat) /\ Len(A) = n /\ DOMAIN A = 1 .. n
      /\ \A i \in 1 .. n : A[i] \in 0 .. M - 1
      /\ \A i, j \in 1 .. n : A[i] = A[j] => i = j
  BY <1>1 DEF Hands, Distinct
<1>3. ASSUME NEW p \in 0 .. M - 1, \A i \in 1 .. n : A[i] # p PROVE p < total
  <2>1. CASE p >= total
    <3>1. Available(p)
      BY <2>1 DEF Available
    <3>2. \E k \in 1 .. Len(F) : F[k] = p
      BY <1>1, <1>3, <3>1 DEF Hands
    <3> QED BY <1>1, <3>2
  <2>2. CASE ~ (p >= total)
    BY <1>1, <2>2
  <2> QED BY <2>1, <2>2
<1>4. M = TotalAfter(Len(A))
  BY <1>2 DEF M
<1>5. ASSUME NEW i \in 1 .. n PROVE W[A[i]] = Rec(i)
  <2>1. A[i] \in 0 .. M - 1 /\ i \in DOMAIN A /\ A[i] = A[i]
    BY <1>2
  <2>2. (CHOOSE j \in DOMAIN A : A[j] = A[i]) = i
    BY <1>2
  <2>3. W[A[i]] = LET k == CHOOSE j \in DOMAIN A : A[j] = A[i]
                  IN  [next |-> IF k < Len(A) /\ k \notin lost THEN A[k + 1] ELSE NoPage,
                       data |-> <<v, k>>]
    BY <1>4, <2>1 DEF WrittenPages
  <2> QED BY <1>2, <2>2, <2>3
<1>6. ASSUME NEW p \in 0 .. M - 1, \A i \in 1 .. n : A[i] # p PROVE W[p] = pg[p]
  BY <1>2, <1>4, <1>6 DEF WrittenPages
<1>7. W = [p \in 0 .. M - 1 |-> W[p]]
  BY <1>4 DEF WrittenPages
<1> HIDE DEF W
<1>8. ASSUME NEW i \in 1 .. n PROVE Rec(i) \in PageType /\ Rec(i).next < M
  <2>1. Nxt(i) \in Ptr /\ Nxt(i) < M
    <3>1. CASE i < n /\ i \notin lost
      <4>1. i + 1 \in 1 .. n
        BY <3>1
      <4> QED BY <1>2, <3>1, <4>1 DEF Ptr
    <3>2. CASE ~ (i < n /\ i \notin lost)
      BY <1>2, <3>2 DEF Ptr, NoPage
    <3> QED BY <3>1, <3>2
  <2>2. <<v, i>> \in Datum
    BY DEF Datum
  <2> HIDE DEF Nxt
  <2> QED BY <2>1, <2>2 DEF PageType
<1>9. ASSUME NEW p \in 0 .. M - 1 PROVE W[p] \in PageType /\ W[p].next < M
  <2>1. CASE \E i \in 1 .. n : A[i] = p
    <3>1. PICK i \in 1 .. n : A[i] = p
      BY <2>1
    <3> HIDE DEF Rec
    <3> QED BY <1>5, <1>8, <3>1
  <2>2. CASE \A i \in 1 .. n : A[i] # p
    <3>1. W[p] = pg[p] /\ p \in 0 .. total - 1
      BY <1>1, <1>3, <1>6, <2>2
    <3>2. pg[p] \in PageType /\ pg[p].next < total /\ pg[p].next \in Ptr
      BY <1>1, <3>1 DEF IsFile, PageType
    <3> QED BY <1>1, <1>2, <3>1, <3>2 DEF Ptr, NoPage
  <2> QED BY <2>1, <2>2
<1>10. IsFile(W, M)
  BY <1>7, <1>9 DEF IsFile
<1>11. ASSUME NEW p \in 0 .. total - 1, \A i \in 1 .. n : A[i] # p PROVE W[p] = pg[p]
  BY <1>1, <1>2, <1>6, <1>11
<1>12. ASSUME NEW i \in 1 .. n PROVE W[A[i]].next = Nxt(i) /\ W[A[i]].data = <<v, i>>
  <2>1. W[A[i]] = Rec(i)
    BY <1>5
  <2> HIDE DEF Nxt
  <2> QED BY <2>1
<1>13. Writes(W, A, v, lost, M)
  BY <1>2, <1>10, <1>11, <1>12 DEF Writes
<1> QED BY <1>13 DEF W, A, M

\* q leads through ids up to the first link that was lost.
Leads(q, ids, n, lost) ==
  \A i \in 1 .. n : q[i] = IF \E l \in lost : l \in 1 .. i - 1 THEN NoPage ELSE ids[i]

\* A walk over a value that was written meets its pages up to the first link
\* that was lost.
LEMMA PathWritten ==
  ASSUME NEW M \in Nat, NEW ids \in Seq(Nat), NEW n \in Nat, n > 0, Len(ids) = n,
         \A i \in 1 .. n : ids[i] < M,
         NEW v, NEW lost, NEW pages, Writes(pages, ids, v, lost, M)
  PROVE  Leads(Path(pages, ids[1], n), ids, n, lost)
<1> DEFINE P == Path(pages, ids[1], n)
           Broken(i) == \E l \in lost : l \in 1 .. i - 1
           T == {k \in Nat : k \in 1 .. n => P[k] = IF Broken(k) THEN NoPage ELSE ids[k]}
<1>1. \A i \in 1 .. n : ids[i] \in Nat /\ ids[i] # NoPage
  BY DEF NoPage
<1>2. Follows(P, pages, ids[1], n, M)
  <2>1. 1 \in 1 .. n
    OBVIOUS
  <2>2. ids[1] \in Ptr /\ ids[1] < M /\ IsFile(pages, M)
    BY <1>1, <2>1 DEF Ptr, Writes
  <2> QED BY <2>2, PathUnfold
<1>3. /\ P[1] = ids[1]
      /\ \A i \in 1 .. n : i < n => P[i + 1] = IF P[i] = NoPage THEN NoPage ELSE pages[P[i]].next
  BY <1>2 DEF Follows
<1>4. \A i \in 1 .. n : pages[ids[i]].next = IF i < n /\ i \notin lost THEN ids[i + 1] ELSE NoPage
  BY DEF Writes
<1> HIDE DEF P
<1>5. 0 \in T
  OBVIOUS
<1>6. ASSUME NEW k \in Nat, k \in T, k + 1 \in 1 .. n
      PROVE  P[k + 1] = IF Broken(k + 1) THEN NoPage ELSE ids[k + 1]
  <2>1. CASE k = 0
    <3>1. ~ Broken(k + 1)
      BY <2>1
    <3> QED BY <1>3, <2>1, <3>1
  <2>2. CASE k # 0
    <3>1. k \in 1 .. n /\ k < n
      BY <1>6, <2>2
    <3>2. Broken(k + 1) <=> Broken(k) \/ k \in lost
      BY <3>1
    <3> HIDE DEF Broken
    <3>3. CASE Broken(k)
      BY <1>3, <1>6, <3>1, <3>2, <3>3
    <3>4. CASE ~ Broken(k)
      BY <1>1, <1>3, <1>4, <1>6, <3>1, <3>2, <3>4
    <3> QED BY <3>3, <3>4
  <2> QED BY <2>1, <2>2
<1>7. Nat \subseteq T
  <2> HIDE DEF Broken
  <2>1. \A k \in Nat : k \in T => k + 1 \in T
    BY <1>6
  <2> HIDE DEF T
  <2> QED BY <1>5, <2>1, NatSetInduction
<1>8. \A i \in 1 .. n : P[i] = IF Broken(i) THEN NoPage ELSE ids[i]
  <2> HIDE DEF Broken
  <2> QED BY <1>7
<1> QED BY <1>8 DEF P, Leads

\* The version of a value that was just written.
LEMMA WrittenCarries ==
  ASSUME NEW M \in Nat, NEW ids \in Seq(Nat), NEW n \in Nat, n > 0, Len(ids) = n,
         \A i \in 1 .. n : ids[i] < M,
         NEW v \in Values, Chunks[v] = n, NEW lost, NEW pages, Writes(pages, ids, v, lost, M),
         NEW e \in Version, e.val = v, e.head = ids[1], e.cut = (lost # {})
  PROVE  /\ Carries(pages, e)
         /\ PathPages(pages, e) \subseteq {ids[i] : i \in 1 .. n}
<1> DEFINE q == PathOf(pages, e)
<1>1. Leads(Path(pages, ids[1], n), ids, n, lost)
  BY PathWritten
<1>2. q = Path(pages, ids[1], n)
  BY DEF PathOf
<1>3. \A i \in 1 .. n : q[i] = IF \E l \in lost : l \in 1 .. i - 1 THEN NoPage ELSE ids[i]
  BY <1>1, <1>2 DEF Leads
<1>4. \A i \in 1 .. n : pages[ids[i]].data = <<v, i>>
  BY DEF Writes
<1>5. \A i \in 1 .. n : ids[i] \in Nat /\ ids[i] # NoPage
  BY DEF NoPage
<1> HIDE DEF q
<1>6. ASSUME NEW j \in 1 .. n
      PROVE  /\ q[j] # NoPage => q[j] = ids[j] /\ pages[q[j]].data = <<v, j>>
             /\ ~ e.cut => q[j] # NoPage
  <2>1. CASE \E l \in lost : l \in 1 .. j - 1
    BY <1>3, <2>1
  <2>2. CASE ~ \E l \in lost : l \in 1 .. j - 1
    BY <1>3, <1>4, <1>5, <2>2
  <2> QED BY <2>1, <2>2
<1>7. Carries(pages, e)
  BY <1>6 DEF Carries, q
<1>8. ASSUME NEW p \in PathPages(pages, e) PROVE p \in {ids[i] : i \in 1 .. n}
  <2>1. p # NoPage /\ \E j \in 1 .. n : q[j] = p
    BY PagesOfPath DEF q
  <2> QED BY <1>6, <2>1
<1> QED BY <1>7, <1>8

-----------------------------------------------------------------------------
(* Who has which page after a write.                                       *)

Taken(ids, n) == {ids[i] : i \in 1 .. n}

Extends(Of2, Of, N, R) == (\A k \in 1 .. N : Of2[k] = Of[k]) /\ Of2[N + 1] = R

\* Pages that nobody had go to the new version, to the lost ones or back to
\* the list.
LEMMA OwnersAfterAppend ==
  ASSUME total \in Nat, NEW n \in Nat, NEW ids, NEW rest, NEW M, Hands(ids, n, rest, M),
         NEW N \in Nat, NEW Of, NEW lost, lost \subseteq 0 .. total - 1,
         OneOwner(free, lost, N, Of, total),
         NEW R, R \subseteq Taken(ids, n),
         NEW Of2, Extends(Of2, Of, N, R),
         NEW lk, lk = lost \union (Taken(ids, n) \ R)
  PROVE  lk \subseteq 0 .. M - 1 /\ OneOwner(rest, lk, N + 1, Of2, M)
<1>1. /\ M \in Nat /\ total <= M /\ \A i \in 1 .. n : ids[i] \in 0 .. M - 1 /\ Available(ids[i])
      /\ \A k \in 1 .. Len(rest) : rest[k] \in 0 .. M - 1 /\ Available(rest[k])
      /\ \A i \in 1 .. n, k \in 1 .. Len(rest) : ids[i] # rest[k]
      /\ \A p \in 0 .. M - 1 : Available(p) =>
            (\E i \in 1 .. n : ids[i] = p) \/ (\E k \in 1 .. Len(rest) : rest[k] = p)
  BY DEF Hands
<1>2. /\ \A k \in 1 .. N : Of[k] \subseteq 0 .. total - 1 /\ Of[k] \intersect lost = {}
      /\ \A i, k \in 1 .. N : i # k => Of[i] \intersect Of[k] = {}
  BY DEF OneOwner
<1>3. \A p \in Nat : Available(p) => p \notin lost /\ \A k \in 1 .. N : p \notin Of[k]
  <2> SUFFICES ASSUME NEW p \in Nat, Available(p) PROVE p \notin lost /\ \A k \in 1 .. N : p \notin Of[k]
    OBVIOUS
  <2>1. CASE p >= total
    BY <1>2, <2>1
  <2>2. CASE \E k \in 1 .. Len(free) : free[k] = p
    BY <2>2 DEF OneOwner
  <2> QED BY <2>1, <2>2 DEF Available
<1>4. \A p \in 0 .. M - 1 : ~ Available(p) => p \in lost \/ \E k \in 1 .. N : p \in Of[k]
  <2> SUFFICES ASSUME NEW p \in 0 .. M - 1, ~ Available(p)
               PROVE  p \in lost \/ \E k \in 1 .. N : p \in Of[k]
    OBVIOUS
  <2>1. p \in 0 .. total - 1 /\ ~ \E k \in 1 .. Len(free) : free[k] = p
    BY <1>1 DEF Available
  <2> QED BY <2>1 DEF OneOwner
<1>5. /\ \A x \in R : Available(x) /\ x \in 0 .. M - 1 /\ \A k \in 1 .. Len(rest) : x # rest[k]
      /\ \A x \in lk : x \in lost \/ (Available(x) /\ x \notin R)
      /\ \A x \in lk : x \in 0 .. M - 1 /\ \A k \in 1 .. Len(rest) : x # rest[k]
  <2>1. \A x \in R : Available(x) /\ x \in 0 .. M - 1 /\ \A k \in 1 .. Len(rest) : x # rest[k]
    BY <1>1 DEF Taken
  <2>2. ASSUME NEW x \in lk
        PROVE  /\ x \in lost \/ (Available(x) /\ x \notin R)
               /\ x \in 0 .. M - 1 /\ \A k \in 1 .. Len(rest) : x # rest[k]
    <3>1. CASE x \in lost
      BY <1>1, <1>3, <3>1
    <3>2. CASE x \notin lost
      <4>1. x \notin R /\ \E i \in 1 .. n : x = ids[i]
        BY <2>2, <3>2 DEF Taken
      <4> QED BY <1>1, <4>1
    <3> QED BY <3>1, <3>2
  <2> QED BY <2>1, <2>2
<1>6. ASSUME NEW k \in 1 .. N + 1
      PROVE  (k \in 1 .. N /\ Of2[k] = Of[k]) \/ (k = N + 1 /\ Of2[k] = R)
  BY DEF Extends
<1>7. ASSUME NEW p \in 0 .. M - 1
      PROVE  \/ p \in lk
             \/ \E i \in 1 .. Len(rest) : rest[i] = p
             \/ \E k \in 1 .. N + 1 : p \in Of2[k]
  <2>1. CASE ~ Available(p)
    <3>1. CASE p \in lost
      BY <3>1
    <3>2. CASE p \notin lost
      <4>1. PICK k \in 1 .. N : p \in Of[k]
        BY <1>4, <2>1, <3>2
      <4>2. k \in 1 .. N + 1 /\ p \in Of2[k]
        BY <4>1 DEF Extends
      <4> QED BY <4>2
    <3> QED BY <3>1, <3>2
  <2>2. CASE Available(p)
    <3>1. CASE \E k \in 1 .. Len(rest) : rest[k] = p
      BY <3>1
    <3>2. CASE p \in R
      <4>1. N + 1 \in 1 .. N + 1 /\ p \in Of2[N + 1]
        BY <3>2 DEF Extends
      <4> QED BY <4>1
    <3>3. CASE p \notin R /\ ~ \E k \in 1 .. Len(rest) : rest[k] = p
      BY <1>1, <2>2, <3>3 DEF Taken
    <3> QED BY <3>1, <3>2, <3>3
  <2> QED BY <2>1, <2>2
<1>8. ASSUME NEW k \in 1 .. N + 1
      PROVE  /\ Of2[k] \subseteq 0 .. M - 1 /\ Of2[k] \intersect lk = {}
             /\ \A i \in 1 .. Len(rest) : rest[i] \notin Of2[k]
  <2>1. CASE k \in 1 .. N /\ Of2[k] = Of[k]
    <3>1. Of[k] \subseteq 0 .. M - 1
      BY <1>1, <1>2, <2>1
    <3> QED BY <1>1, <1>2, <1>3, <1>5, <2>1, <3>1
  <2>2. CASE Of2[k] = R
    BY <1>3, <1>5, <2>2
  <2> QED BY <1>6, <2>1, <2>2
<1>9. ASSUME NEW i \in 1 .. N + 1, NEW k \in 1 .. N + 1, i # k PROVE Of2[i] \intersect Of2[k] = {}
  <2>1. CASE i \in 1 .. N /\ k \in 1 .. N
    BY <1>2, <1>9, <2>1 DEF Extends
  <2>2. CASE i \in 1 .. N /\ k = N + 1
    BY <1>3, <1>5, <2>2 DEF Extends
  <2>3. CASE i = N + 1 /\ k \in 1 .. N
    BY <1>3, <1>5, <2>3 DEF Extends
  <2> QED BY <1>9, <2>1, <2>2, <2>3
<1>10. \A i \in 1 .. Len(rest) : rest[i] \notin lk
  BY <1>5
<1> QED BY <1>5, <1>7, <1>8, <1>9, <1>10 DEF OneOwner

\* The same where no version is appended.
LEMMA OwnersAfterLoss ==
  ASSUME total \in Nat, NEW n \in Nat, NEW ids, NEW rest, NEW M, Hands(ids, n, rest, M),
         NEW N \in Nat, NEW Of, NEW lost, lost \subseteq 0 .. total - 1,
         OneOwner(free, lost, N, Of, total),
         NEW lk, lk = lost \union Taken(ids, n)
  PROVE  lk \subseteq 0 .. M - 1 /\ OneOwner(rest, lk, N, Of, M)
<1> DEFINE Of2 == [k \in 1 .. N + 1 |-> IF k = N + 1 THEN {} ELSE Of[k]]
<1>1. (\A k \in 1 .. N : Of2[k] = Of[k]) /\ Of2[N + 1] = {}
  OBVIOUS
<1>2. {} \subseteq Taken(ids, n) /\ lk = lost \union (Taken(ids, n) \ {})
  OBVIOUS
<1> HIDE DEF Of2
<1>3. lk \subseteq 0 .. M - 1 /\ OneOwner(rest, lk, N + 1, Of2, M)
  <2>1. Extends(Of2, Of, N, {})
    BY <1>1 DEF Extends
  <2> QED BY <1>2, <2>1, OwnersAfterAppend
<1>4. 1 .. N \subseteq 1 .. N + 1
  OBVIOUS
<1>5. ASSUME NEW p \in 0 .. M - 1, NEW k \in 1 .. N + 1, p \in Of2[k] PROVE \E j \in 1 .. N : p \in Of[j]
  <2>1. CASE k = N + 1
    BY <1>1, <1>5, <2>1
  <2>2. CASE k \in 1 .. N
    BY <1>1, <1>5, <2>2
  <2> QED BY <2>1, <2>2
<1>6. \A p \in 0 .. M - 1 : \/ p \in lk
                            \/ \E i \in 1 .. Len(rest) : rest[i] = p
                            \/ \E k \in 1 .. N : p \in Of[k]
  BY <1>3, <1>5 DEF OneOwner
<1>7. /\ \A k \in 1 .. N : Of[k] \subseteq 0 .. M - 1
      /\ \A i, k \in 1 .. N : i # k => Of[i] \intersect Of[k] = {}
      /\ \A k \in 1 .. N : Of[k] \intersect lk = {}
      /\ \A i \in 1 .. Len(rest) : rest[i] \notin lk /\ \A k \in 1 .. N : rest[i] \notin Of[k]
  BY <1>1, <1>3, <1>4 DEF OneOwner
<1> QED BY <1>3, <1>6, <1>7 DEF OneOwner

-----------------------------------------------------------------------------
(* Steps that write.                                                       *)

\* Versions keep their paths when only pages nobody has are written on.
LEMMA VersionsKept ==
  ASSUME OTypes, PathsCarry, PagesOwned, NEW M \in Nat, total <= M,
         NEW pages, IsFile(pages, M),
         \A p \in 0 .. total - 1 : ~ Available(p) => pages[p] = pg[p],
         NEW k \in 1 .. Len(chain)
  PROVE  /\ IsLarge(chain[k]) => PathOf(pages, chain[k]) = PathOf(pg, chain[k])
         /\ PathPages(pages, chain[k]) = PathPages(pg, chain[k])
         /\ Carries(pages, chain[k])
<1>1. /\ total \in Nat /\ IsFile(pg, total) /\ chain[k] \in Version /\ chain[k].head < total
      /\ Carries(pg, chain[k])
  BY DEF OTypes, IsChain, PathsCarry
<1>2. PathPages(pg, chain[k]) \subseteq 0 .. total - 1
  BY <1>1, PagesInFile
<1>3. Owned(pg, chain)[k] = PathPages(pg, chain[k])
  BY DEF Owned
<1>4. ASSUME NEW p \in PathPages(pg, chain[k]) PROVE ~ Available(p)
  <2>1. p < total /\ p \in Nat
    BY <1>1, <1>2
  <2>2. \A i \in 1 .. Len(free) : free[i] # p
    BY <1>3 DEF PagesOwned, OneOwner
  <2> QED BY <1>1, <2>1, <2>2 DEF Available
<1>5. \A p \in PathPages(pg, chain[k]) : pages[p] = pg[p]
  BY <1>2, <1>4
<1> HIDE DEF OTypes
<1> QED BY <1>1, <1>5, PathKept

\* The iterator is not disturbed by a step that keeps the large versions and
\* their pages.
LEMMA IterKept ==
  ASSUME OTypes, IterTypes, IterReads, total' \in Nat, total <= total', UNCHANGED iter,
         \A i \in 1 .. Len(chain) : IsLarge(chain[i]) =>
            /\ \E j \in 1 .. Len(chain') : chain'[j] = chain[i]
            /\ PathOf(pg', chain[i]) = PathOf(pg, chain[i])
  PROVE  IterTypes' /\ IterReads'
<1>1. IterTypes'
  <2>1. CASE iter = NoIter
    BY <2>1 DEF IterTypes
  <2>2. CASE iter # NoIter
    <3>1. /\ iter \in IterFields /\ IsChain(iter.copy, total)
          /\ iter.slot <= Len(iter.copy) /\ iter.pid < total /\ iter.pid \in Ptr /\ total \in Nat
      BY <2>2 DEF IterTypes, IterFields, OTypes
    <3>2. iter.pid < total'
      BY <3>1 DEF Ptr, NoPage
    <3>3. IsChain(iter.copy, total')
      <4>1. iter.copy \in Seq(Version)
        BY <3>1 DEF IsChain
      <4>2. ASSUME NEW i \in 1 .. Len(iter.copy) PROVE iter.copy[i].head < total'
        <5>1. iter.copy[i] \in Version
          BY <4>1
        <5>2. iter.copy[i].head \in Ptr /\ iter.copy[i].head < total
          BY <3>1, <5>1 DEF IsChain, Version
        <5> QED BY <3>1, <5>2 DEF Ptr, NoPage
      <4> QED BY <4>1, <4>2 DEF IsChain
    <3> QED BY <3>1, <3>2, <3>3 DEF IterTypes
  <2> QED BY <2>1, <2>2
<1>2. ASSUME iter.open, ~ iter.stale PROVE CopyKept' /\ Reading' /\ Returned'
  <2>1. CopyKept /\ Reading /\ Returned
    BY <1>2 DEF IterReads
  <2>2. iter # NoIter
    BY <1>2 DEF NoIter
  <2>3. iter \in IterFields /\ iter.slot <= Len(iter.copy)
    BY <2>2 DEF IterTypes
  <2>4. iter.slot \in Nat /\ Len(iter.copy) \in Nat
    BY <2>3 DEF IterFields
  <2>5. CopyKept'
    <3> SUFFICES ASSUME NEW k \in 1 .. Len(iter.copy), IsLarge(iter.copy[k])
                 PROVE  \E i \in 1 .. Len(chain') : chain'[i] = iter.copy[k]
      BY DEF CopyKept, IsLarge
    <3>1. PICK i \in 1 .. Len(chain) : chain[i] = iter.copy[k]
      BY <2>1 DEF CopyKept
    <3> QED BY <3>1
  <2>6. Reading'
    <3> SUFFICES ASSUME iter.got # << >> PROVE Reading'
      BY DEF Reading
    <3> DEFINE e == iter.copy[iter.slot]
    <3>1. /\ iter.slot > 0 /\ IsLarge(e) /\ Len(iter.got) < Chunks[e.val]
          /\ \A j \in 1 .. Len(iter.got) : iter.got[j] = <<e.val, j>>
          /\ iter.pid = PathOf(pg, e)[Len(iter.got) + 1]
      BY <2>1 DEF Reading
    <3>2. iter.slot \in 1 .. Len(iter.copy)
      BY <2>3, <2>4, <3>1
    <3>3. PICK i \in 1 .. Len(chain) : chain[i] = e
      BY <2>1, <3>1, <3>2 DEF CopyKept
    <3>4. PathOf(pg', e) = PathOf(pg, e)
      BY <3>1, <3>3
    <3> QED BY <3>1, <3>4 DEF Reading, IsLarge, PathOf
  <2>7. Returned'
    BY <2>1 DEF Returned, SlotOf, IsLarge, Whole
  <2> QED BY <2>5, <2>6, <2>7
<1> QED BY <1>1, <1>2 DEF IterReads

\* Log records keep their paths as well.
LEMMA LogsKept ==
  ASSUME IOver, NEW n \in Nat, NEW ids, NEW rest, NEW M, Hands(ids, n, rest, M),
         NEW pages, IsFile(pages, M),
         \A p \in 0 .. total - 1 : ~ Available(p) => pages[p] = pg[p],
         NEW k \in 1 .. Len(wal)
  PROVE  /\ wal[k] \in Version /\ wal[k].head < M
         /\ PathPages(pages, wal[k]) = PathPages(pg, wal[k])
         /\ Carries(pages, wal[k])
         /\ \A p \in PathPages(pg, wal[k]) : p \in 0 .. total - 1 /\ ~ Available(p)
<1>1. /\ total \in Nat /\ IsFile(pg, total) /\ wal[k] \in Version /\ wal[k].head < total
      /\ Carries(pg, wal[k])
  BY DEF IOver, OTypes, IsChain, LogKept
<1>2. M \in Nat /\ total <= M
  BY DEF Hands
<1>3. PathPages(pg, wal[k]) \subseteq 0 .. total - 1
  BY <1>1, PagesInFile
<1>4. PathPages(pg, wal[k]) \subseteq LoggedIn(pg, wal)
  BY DEF LoggedIn
<1>5. \A i \in 1 .. Len(free) : free[i] \notin LoggedIn(pg, wal)
  <2>1. OneOwner(free, leaked \union LoggedIn(pg, wal), Len(chain), Owned(pg, chain), total)
    BY DEF IOver, PagesOwned
  <2> QED BY <2>1 DEF OneOwner
<1>6. ASSUME NEW p \in PathPages(pg, wal[k]) PROVE ~ Available(p)
  <2>1. p < total /\ p \in Nat
    BY <1>1, <1>3
  <2>2. \A i \in 1 .. Len(free) : free[i] # p
    BY <1>4, <1>5
  <2> QED BY <1>1, <2>1, <2>2 DEF Available
<1>7. \A p \in PathPages(pg, wal[k]) : pages[p] = pg[p]
  BY <1>3, <1>6
<1>8. PathPages(pages, wal[k]) = PathPages(pg, wal[k]) /\ Carries(pages, wal[k])
  BY <1>1, <1>2, <1>7, PathKept
<1>9. wal[k].head < M
  <2>1. wal[k].head \in Ptr
    BY <1>1 DEF Version
  <2> QED BY <1>1, <1>2, <2>1 DEF Ptr, NoPage
<1> QED BY <1>1, <1>3, <1>6, <1>8, <1>9

\* The log is not disturbed by a step that writes on pages nobody has.
LEMMA LogSame ==
  ASSUME IOver, NEW n \in Nat, NEW ids, NEW rest, NEW M, Hands(ids, n, rest, M),
         NEW pages, IsFile(pages, M),
         \A p \in 0 .. total - 1 : ~ Available(p) => pages[p] = pg[p],
         pg' = pages, total' = M, wal' = wal, leaked' \subseteq leaked \union Taken(ids, n)
  PROVE  LogKept' /\ LoggedIn(pages, wal) = LoggedIn(pg, wal)
<1>1. \A k \in 1 .. Len(wal) :
         /\ wal[k] \in Version /\ wal[k].head < M
         /\ PathPages(pages, wal[k]) = PathPages(pg, wal[k])
         /\ Carries(pages, wal[k])
         /\ \A p \in PathPages(pg, wal[k]) : p \in 0 .. total - 1 /\ ~ Available(p)
  BY LogsKept
<1>2. LoggedIn(pages, wal) = LoggedIn(pg, wal)
  BY <1>1 DEF LoggedIn
<1>3. wal \in Seq(Version)
  BY DEF IOver, LogKept, IsChain
<1>4. IsChain(wal', total') /\ LogLarge(wal)
  BY <1>1, <1>3 DEF IOver, LogKept, IsChain
<1>5. \A x \in Taken(ids, n) : Available(x)
  BY DEF Hands, Taken
<1>6. /\ \A i \in 1 .. Len(wal) : PathPages(pg, wal[i]) \intersect leaked = {}
      /\ \A i, j \in 1 .. Len(wal) :
            i # j => PathPages(pg, wal[i]) \intersect PathPages(pg, wal[j]) = {}
  BY DEF IOver, LogKept
<1>7. \A i \in 1 .. Len(wal) : PathPages(pages, wal[i]) \intersect leaked' = {}
  BY <1>1, <1>5, <1>6
<1>8. \A i, j \in 1 .. Len(wal) :
        i # j => PathPages(pages, wal[i]) \intersect PathPages(pages, wal[j]) = {}
  BY <1>1, <1>6
<1>9. LogKept' <=> /\ IsChain(wal', total') /\ LogLarge(wal)
                   /\ \A i \in 1 .. Len(wal) : Carries(pages, wal[i])
                   /\ \A i \in 1 .. Len(wal) : PathPages(pages, wal[i]) \intersect leaked' = {}
                   /\ \A i, j \in 1 .. Len(wal) :
                        i # j => PathPages(pages, wal[i]) \intersect PathPages(pages, wal[j]) = {}
  BY DEF LogKept, LogLarge, IsChain, Carries, PathOf, PathPages, IsLarge, Path
<1> QED BY <1>1, <1>2, <1>4, <1>7, <1>8, <1>9

\* The pages of the log are pages of the file.
LEMMA LogInFile ==
  ASSUME IOver
  PROVE  leaked \union LoggedIn(pg, wal) \subseteq 0 .. total - 1
<1>1. /\ total \in Nat /\ IsFile(pg, total) /\ leaked \subseteq 0 .. total - 1
      /\ \A k \in 1 .. Len(wal) : wal[k] \in Version /\ wal[k].head < total
  BY DEF IOver, OTypes, IsChain, LogKept
<1>2. \A k \in 1 .. Len(wal) : PathPages(pg, wal[k]) \subseteq 0 .. total - 1
  BY <1>1, PagesInFile
<1> QED BY <1>1, <1>2 DEF LoggedIn

\* A set that succeeds.
LEMMA AppendStep ==
  ASSUME IOver, NEW n \in Nat, NEW ids, NEW rest, NEW M, Hands(ids, n, rest, M),
         NEW pages, IsFile(pages, M),
         \A p \in 0 .. total - 1 : ~ Available(p) => pages[p] = pg[p],
         NEW e \in Version, e.head < M, Carries(pages, e),
         PathPages(pages, e) \subseteq Taken(ids, n),
         pg' = pages, total' = M, free' = rest, chain' = Append(chain, e),
         leaked' = leaked \union (Taken(ids, n) \ PathPages(pages, e)),
         UNCHANGED <<wal, iter>>
  PROVE  IOver'
<1> DEFINE N == Len(chain)
<1>1. /\ OTypes /\ PathsCarry /\ PagesOwned /\ IterTypes /\ IterReads
      /\ total \in Nat /\ M \in Nat /\ total <= M
      /\ chain \in Seq(Version) /\ N \in Nat /\ leaked \subseteq 0 .. total - 1
  <2>1. OTypes /\ PathsCarry /\ PagesOwned /\ IterTypes /\ IterReads
    BY DEF IOver
  <2>2. total \in Nat /\ IsChain(chain, total) /\ leaked \subseteq 0 .. total - 1
    BY <2>1 DEF OTypes
  <2>3. M \in Nat /\ total <= M
    BY DEF Hands
  <2>4. chain \in Seq(Version) /\ N \in Nat
    BY <2>2 DEF IsChain
  <2> QED BY <2>1, <2>2, <2>3, <2>4
<1>2. /\ chain' \in Seq(Version) /\ Len(chain') = N + 1 /\ chain'[N + 1] = e
      /\ \A k \in 1 .. N : chain'[k] = chain[k]
  BY <1>1
<1>3. ASSUME NEW k \in 1 .. N
      PROVE  /\ IsLarge(chain[k]) => PathOf(pages, chain[k]) = PathOf(pg, chain[k])
             /\ PathPages(pages, chain[k]) = PathPages(pg, chain[k])
             /\ Carries(pages, chain[k])
  BY <1>1, VersionsKept
<1> HIDE DEF N
<1>4. \A k \in 1 .. N + 1 : k = N + 1 \/ k \in 1 .. N
  BY <1>1
<1>5. IsChain(chain', M)
  <2>1. ASSUME NEW k \in 1 .. N + 1 PROVE chain'[k].head < M
    <3>1. CASE k = N + 1
      BY <1>2, <3>1
    <3>2. CASE k \in 1 .. N
      <4>1. chain[k] \in Version /\ chain[k].head < total
        BY <1>1, <3>2 DEF OTypes, IsChain, N
      <4>2. chain[k].head < total /\ chain[k].head \in Ptr
        BY <4>1 DEF Version
      <4> QED BY <1>1, <1>2, <3>2, <4>2 DEF Ptr, NoPage
    <3> QED BY <1>4, <3>1, <3>2
  <2> QED BY <1>2, <2>1 DEF IsChain
<1>6. PathsCarry'
  <2> SUFFICES ASSUME NEW k \in 1 .. N + 1 PROVE Carries(pages, chain'[k])
    BY <1>2 DEF PathsCarry
  <2>1. CASE k = N + 1
    BY <1>2, <2>1
  <2>2. CASE k \in 1 .. N
    BY <1>2, <1>3, <2>2
  <2> QED BY <1>4, <2>1, <2>2
<1> DEFINE Of  == Owned(pg, chain)
           Of2 == Owned(pages, chain')
<1>7. (\A k \in 1 .. N : Of2[k] = Of[k]) /\ Of2[N + 1] = PathPages(pages, e)
  <2>1. \A k \in 1 .. N : Of[k] = PathPages(pg, chain[k])
    BY DEF Owned, N
  <2>2. \A k \in 1 .. N + 1 : Of2[k] = PathPages(pages, chain'[k])
    BY <1>2 DEF Owned
  <2> HIDE DEF Of, Of2
  <2>3. 1 .. N \subseteq 1 .. N + 1 /\ N + 1 \in 1 .. N + 1
    BY <1>1
  <2> QED BY <1>2, <1>3, <2>1, <2>2, <2>3
<1> DEFINE old == leaked \union LoggedIn(pg, wal)
           new == leaked' \union LoggedIn(pages, wal)
<1>8. Distinct(free) /\ OneOwner(free, old, N, Of, total) /\ old \subseteq 0 .. total - 1
  BY <1>1, LogInFile DEF PagesOwned, N
<1>9. LogKept' /\ LoggedIn(pages, wal) = LoggedIn(pg, wal)
  <2>1. leaked' \subseteq leaked \union Taken(ids, n)
    OBVIOUS
  <2> QED BY <2>1, LogSame
<1> HIDE DEF Of, Of2
<1>10. new \subseteq 0 .. M - 1 /\ OneOwner(rest, new, N + 1, Of2, M)
  <2>1. PICK R : R = PathPages(pages, e)
    OBVIOUS
  <2>2. R \subseteq Taken(ids, n) /\ Of2[N + 1] = R /\ new = old \union (Taken(ids, n) \ R)
    BY <1>7, <1>9, <2>1
  <2>3. Extends(Of2, Of, N, R)
    BY <1>7, <2>2 DEF Extends
  <2> HIDE DEF old, new
  <2> QED BY <1>1, <1>8, <2>2, <2>3, OwnersAfterAppend
<1>11. PagesOwned'
  <2>1. PagesOwned' <=> Distinct(rest) /\ OneOwner(rest, new, N + 1, Of2, M)
    BY <1>2 DEF PagesOwned, Of2, Distinct, OneOwner, Owned, LoggedIn, PathPages, IsLarge, Path
  <2> QED BY <1>10, <2>1 DEF Hands
<1>12. OTypes'
  <2>1. rest \in Seq(Nat) /\ \A i \in 1 .. Len(rest) : rest[i] < M
    BY DEF Hands
  <2>2. IsFile(pg', total') /\ IsChain(chain', total')
    BY <1>5
  <2>3. leaked' \subseteq 0 .. M - 1
    BY <1>10
  <2> QED BY <1>1, <2>1, <2>2, <2>3 DEF OTypes, IsFile, IsChain
<1>13. ASSUME NEW i \in 1 .. N, IsLarge(chain[i])
       PROVE  /\ \E j \in 1 .. Len(chain') : chain'[j] = chain[i]
              /\ PathOf(pg', chain[i]) = PathOf(pg, chain[i])
  <2>1. i \in 1 .. N + 1
    BY <1>1
  <2> QED BY <1>2, <1>3, <1>13, <2>1
<1>14. IterTypes' /\ IterReads'
  BY <1>1, <1>13, IterKept DEF N
<1> QED BY <1>6, <1>11, <1>12, <1>14, <1>9 DEF IOver

\* A set that fails when pages have been written on.
LEMMA LossStep ==
  ASSUME IOver, NEW n \in Nat, NEW ids, NEW rest, NEW M, Hands(ids, n, rest, M),
         NEW pages, IsFile(pages, M),
         \A p \in 0 .. total - 1 : ~ Available(p) => pages[p] = pg[p],
         pg' = pages, total' = M, free' = rest,
         LogKept', leaked' \union LoggedIn(pages, wal')
                      = (leaked \union LoggedIn(pg, wal)) \union Taken(ids, n),
         UNCHANGED <<chain, iter>>
  PROVE  IOver'
<1> DEFINE N == Len(chain)
<1>1. /\ OTypes /\ PathsCarry /\ PagesOwned /\ IterTypes /\ IterReads
      /\ total \in Nat /\ M \in Nat /\ total <= M
      /\ chain \in Seq(Version) /\ N \in Nat /\ leaked \subseteq 0 .. total - 1
  <2>1. OTypes /\ PathsCarry /\ PagesOwned /\ IterTypes /\ IterReads
    BY DEF IOver
  <2>2. total \in Nat /\ IsChain(chain, total) /\ leaked \subseteq 0 .. total - 1
    BY <2>1 DEF OTypes
  <2>3. M \in Nat /\ total <= M
    BY DEF Hands
  <2>4. chain \in Seq(Version) /\ N \in Nat
    BY <2>2 DEF IsChain
  <2> QED BY <2>1, <2>2, <2>3, <2>4
<1>2. ASSUME NEW k \in 1 .. N
      PROVE  /\ IsLarge(chain[k]) => PathOf(pages, chain[k]) = PathOf(pg, chain[k])
             /\ PathPages(pages, chain[k]) = PathPages(pg, chain[k])
             /\ Carries(pages, chain[k])
  BY <1>1, VersionsKept
<1> HIDE DEF N
<1>3. IsChain(chain, M)
  <2>1. ASSUME NEW k \in 1 .. N PROVE chain[k].head < M
    <3>1. chain[k] \in Version /\ chain[k].head < total
      BY <1>1 DEF OTypes, IsChain, N
    <3>2. chain[k].head < total /\ chain[k].head \in Ptr
      BY <3>1 DEF Version
    <3> QED BY <1>1, <3>2 DEF Ptr, NoPage
  <2> QED BY <1>1, <2>1 DEF IsChain, N
<1>4. PathsCarry'
  BY <1>2 DEF PathsCarry, N
<1> DEFINE Of == Owned(pg, chain)
<1>5. Owned(pages, chain) = Of
  BY <1>2 DEF Owned, N
<1> DEFINE old == leaked \union LoggedIn(pg, wal)
           new == leaked' \union LoggedIn(pages, wal')
<1>6. Distinct(free) /\ OneOwner(free, old, N, Of, total) /\ old \subseteq 0 .. total - 1
  BY <1>1, LogInFile DEF PagesOwned, N
<1> HIDE DEF Of
<1>7. new \subseteq 0 .. M - 1 /\ OneOwner(rest, new, N, Of, M)
  <2>1. new = old \union Taken(ids, n)
    OBVIOUS
  <2> HIDE DEF old, new
  <2> QED BY <1>1, <1>6, <2>1, OwnersAfterLoss
<1>8. PagesOwned'
  <2>1. PagesOwned' <=> Distinct(rest) /\ OneOwner(rest, new, N, Owned(pages, chain), M)
    BY DEF PagesOwned, N, Distinct, OneOwner, Owned, LoggedIn, PathPages, IsLarge, Path
  <2> QED BY <1>5, <1>7, <2>1 DEF Hands
<1>9. OTypes'
  <2>1. rest \in Seq(Nat) /\ \A i \in 1 .. Len(rest) : rest[i] < M
    BY DEF Hands
  <2>2. leaked' \subseteq 0 .. M - 1
    BY <1>7
  <2> QED BY <1>1, <1>3, <2>1, <2>2 DEF OTypes, IsFile, IsChain
<1>10. ASSUME NEW i \in 1 .. N, IsLarge(chain[i])
       PROVE  /\ \E j \in 1 .. Len(chain') : chain'[j] = chain[i]
              /\ PathOf(pg', chain[i]) = PathOf(pg, chain[i])
  BY <1>2, <1>10 DEF N
<1>11. IterTypes' /\ IterReads'
  BY <1>1, <1>10, IterKept DEF N
<1> QED BY <1>4, <1>8, <1>9, <1>11 DEF IOver

\* No page taken.
LEMMA NoneTaken ==
  ASSUME IOver
  PROVE  Hands(<< >>, 0, free, total) /\ Taken(<< >>, 0) = {}
<1>1. total \in Nat /\ free \in Seq(Nat) /\ (\A i \in 1 .. Len(free) : free[i] < total) /\ Distinct(free)
  BY DEF IOver, OTypes, PagesOwned
<1>2. \A i \in 1 .. Len(free) : Available(free[i])
  BY DEF Available
<1>3. \A p \in 0 .. total - 1 : Available(p) => \E k \in 1 .. Len(free) : free[k] = p
  BY <1>1 DEF Available
<1>4. << >> \in Seq(Nat) /\ Len(<< >>) = 0 /\ Distinct(<< >>)
  BY DEF Distinct
<1>5. Hands(<< >>, 0, free, total)
  BY <1>1, <1>2, <1>3, <1>4 DEF Hands
<1> QED BY <1>5 DEF Taken

\* garry_mvcc_set of a small value, and garry_mvcc_delete.
LEMMA InlineStep ==
  ASSUME IOver, NEW t \in Txns, NEW v \in {Tombstone} \union {w \in Values : Chunks[w] = 0},
         SetInline(t, v)
  PROVE  IOver'
<1> DEFINE e == [txn |-> t, val |-> v, head |-> NoPage, cut |-> FALSE]
<1>1. e \in Version /\ e.head = NoPage /\ e.val = v
  BY DEF Version, Ptr
<1>2. ~ IsLarge(e)
  BY <1>1 DEF IsLarge
<1>3. /\ chain' = Append(chain, e)
      /\ UNCHANGED <<total, free, pg, wal, iter, leaked>>
  BY DEF SetInline
<1> HIDE DEF e
<1>4. PathPages(pg, e) = {} /\ Carries(pg, e)
  BY <1>2, PagesOfPath DEF Carries
<1>5. total \in Nat /\ IsFile(pg, total) /\ e.head < total
  BY <1>1 DEF IOver, OTypes, NoPage
<1>6. Hands(<< >>, 0, free, total) /\ Taken(<< >>, 0) = {}
  BY NoneTaken
<1>7. /\ PathPages(pg, e) \subseteq Taken(<< >>, 0)
      /\ leaked' = leaked \union (Taken(<< >>, 0) \ PathPages(pg, e))
      /\ pg' = pg /\ total' = total /\ free' = free
  BY <1>3, <1>4, <1>6
<1> QED BY <1>1, <1>3, <1>4, <1>5, <1>6, <1>7, AppendStep

\* The pages outside those taken are as before.
LEMMA OthersKept ==
  ASSUME NEW n \in Nat, NEW ids, NEW rest, NEW M, Hands(ids, n, rest, M),
         NEW pages, NEW v, NEW lost, NEW L, Writes(pages, ids, v, lost, L)
  PROVE  \A p \in 0 .. total - 1 : ~ Available(p) => pages[p] = pg[p]
BY DEF Hands, Writes

\* Taken is the range.
LEMMA TakenRange ==
  ASSUME NEW n \in Nat, NEW ids, NEW rest, NEW M, Hands(ids, n, rest, M)
  PROVE  Range(ids) = Taken(ids, n)
<1>1. DOMAIN ids = 1 .. n
  BY DEF Hands
<1> QED BY <1>1 DEF Range, Taken

\* garry_mvcc_set of a large value, with or without lost links.
LEMMA LargeStep ==
  ASSUME IOver, NEW t \in Txns, NEW v \in Values, NEW lost, SetLarge(t, v, lost)
  PROVE  IOver'
<1> DEFINE n == Chunks[v]
           ids == Allocated(n)
           rest == FreeAfter(n)
           M == TotalAfter(n)
           W == WrittenPages(ids, v, lost)
           e == [txn |-> t, val |-> v, head |-> ids[1], cut |-> lost # {}]
<1>1. n \in Nat /\ n > 0
  BY OverflowAssumption DEF SetLarge
<1>2. OTypes /\ Distinct(free)
  BY DEF IOver, PagesOwned
<1>3. Hands(ids, n, rest, M) /\ Writes(W, ids, v, lost, M)
  <2> HIDE DEF n
  <2> QED BY <1>1, <1>2, AllocHands, WritesValue
<1>4. /\ pg' = W /\ total' = M /\ free' = rest /\ chain' = Append(chain, e)
      /\ leaked' = leaked \union (Range(ids) \ PathPages(pg', e))
      /\ UNCHANGED <<wal, iter>>
  BY DEF SetLarge
<1> HIDE DEF ids, rest, M, W
<1>5. /\ M \in Nat /\ ids \in Seq(Nat) /\ Len(ids) = n /\ \A i \in 1 .. n : ids[i] < M
      /\ IsFile(W, M)
  BY <1>3 DEF Hands, Writes
<1>6. ids[1] \in Ptr /\ ids[1] < M
  <2>1. 1 \in 1 .. n
    BY <1>1
  <2> QED BY <1>5, <2>1 DEF Ptr
<1>7. e \in Version /\ e.val = v /\ e.head = ids[1] /\ e.cut = (lost # {})
  BY <1>6 DEF Version
<1>8. Chunks[v] = n
  OBVIOUS
<1> HIDE DEF e, n
<1>9. Carries(W, e) /\ PathPages(W, e) \subseteq Taken(ids, n)
  BY <1>1, <1>3, <1>5, <1>7, <1>8, WrittenCarries DEF Taken
<1>10. \A p \in 0 .. total - 1 : ~ Available(p) => W[p] = pg[p]
  BY <1>1, <1>3, OthersKept
<1>11. Range(ids) = Taken(ids, n)
  BY <1>1, <1>3, TakenRange
<1>12. leaked' = leaked \union (Taken(ids, n) \ PathPages(W, e))
  BY <1>4, <1>11
<1>13. e.head < M
  BY <1>6, <1>7
<1> QED BY <1>1, <1>3, <1>4, <1>5, <1>7, <1>9, <1>10, <1>12, <1>13, AppendStep

\* garry_mvcc_set with a full chain page.
LEMMA FullStep ==
  ASSUME IOver, NEW t \in Txns, NEW v \in Values, SetLargeFull(t, v)
  PROVE  IOver'
<1> DEFINE n == Chunks[v]
           ids == Allocated(n)
           rest == FreeAfter(n)
           M == TotalAfter(n)
           W == WrittenPages(ids, v, {})
<1>1. n \in Nat
  BY OverflowAssumption
<1>2. OTypes /\ Distinct(free)
  BY DEF IOver, PagesOwned
<1>3. Hands(ids, n, rest, M) /\ Writes(W, ids, v, {}, M)
  <2> HIDE DEF n
  <2> QED BY <1>1, <1>2, AllocHands, WritesValue
<1>4. /\ pg' = W /\ total' = M /\ free' = rest /\ leaked' = leaked \union Range(ids)
      /\ UNCHANGED <<chain, wal, iter>>
  BY DEF SetLargeFull
<1> HIDE DEF ids, rest, M, W, n
<1>5. IsFile(W, M)
  BY <1>3 DEF Writes
<1>6. \A p \in 0 .. total - 1 : ~ Available(p) => W[p] = pg[p]
  BY <1>1, <1>3, OthersKept
<1>7. leaked' = leaked \union Taken(ids, n)
  BY <1>1, <1>3, <1>4, TakenRange
<1>8. LogKept' /\ LoggedIn(W, wal) = LoggedIn(pg, wal)
  BY <1>1, <1>3, <1>4, <1>5, <1>6, <1>7, LogSame
<1>9. leaked' \union LoggedIn(W, wal') = (leaked \union LoggedIn(pg, wal)) \union Taken(ids, n)
  BY <1>4, <1>7, <1>8
<1> QED BY <1>1, <1>3, <1>4, <1>5, <1>6, <1>8, <1>9, LossStep

On(x, s) == \E k \in 1 .. Len(s) : s[k] = x

\* A page that is not on the list is put in front of it.
LEMMA PushFront ==
  ASSUME NEW s \in Seq(Nat), NEW x \in Nat
  PROVE  /\ <<x>> \o s \in Seq(Nat)
         /\ \A y : On(y, <<x>> \o s) <=> y = x \/ On(y, s)
         /\ Distinct(s) /\ ~ On(x, s) => Distinct(<<x>> \o s)
<1> DEFINE r == <<x>> \o s
           N == Len(s)
<1>1. /\ N \in Nat /\ r \in Seq(Nat) /\ Len(r) = N + 1 /\ r[1] = x
      /\ \A k \in 1 .. N : r[k + 1] = s[k]
  OBVIOUS
<1> HIDE DEF r
<1>2. ASSUME NEW k \in 1 .. N + 1, k # 1 PROVE k - 1 \in 1 .. N /\ r[k] = s[k - 1]
  <2>1. k - 1 \in 1 .. N /\ (k - 1) + 1 = k
    BY <1>1, <1>2
  <2> QED BY <1>1, <2>1
<1>3. ASSUME NEW y PROVE On(y, r) <=> y = x \/ On(y, s)
  <2>1. ASSUME On(y, r) PROVE y = x \/ On(y, s)
    <3>1. PICK k \in 1 .. N + 1 : r[k] = y
      BY <1>1, <2>1 DEF On
    <3> QED BY <1>1, <1>2, <3>1 DEF On
  <2>2. ASSUME y = x PROVE On(y, r)
    <3>1. 1 \in 1 .. Len(r)
      BY <1>1
    <3> QED BY <1>1, <2>2, <3>1 DEF On
  <2>3. ASSUME On(y, s) PROVE On(y, r)
    <3>1. PICK k \in 1 .. N : s[k] = y
      BY <2>3 DEF On
    <3>2. k + 1 \in 1 .. Len(r) /\ r[k + 1] = y
      BY <1>1, <3>1
    <3> QED BY <3>2 DEF On
  <2> QED BY <2>1, <2>2, <2>3
<1>4. ASSUME Distinct(s), ~ On(x, s) PROVE Distinct(r)
  <2> SUFFICES ASSUME NEW i \in 1 .. N + 1, NEW j \in 1 .. N + 1, r[i] = r[j] PROVE i = j
    BY <1>1 DEF Distinct
  <2>1. \A k \in 1 .. N : s[k] # x
    BY <1>4 DEF On
  <2>2. CASE i = 1
    BY <1>1, <1>2, <2>1, <2>2
  <2>3. CASE j = 1
    BY <1>1, <1>2, <2>1, <2>3
  <2>4. CASE i # 1 /\ j # 1
    <3>1. /\ i - 1 \in 1 .. N /\ r[i] = s[i - 1] /\ j - 1 \in 1 .. N /\ r[j] = s[j - 1]
      BY <1>2, <2>4
    <3>2. i - 1 = j - 1
      BY <1>4, <3>1 DEF Distinct
    <3> QED BY <3>2
  <2> QED BY <2>2, <2>3, <2>4
<1> QED BY <1>1, <1>3, <1>4 DEF r

\* A page that was handed out last and is given back is the head of the list.
LEMMA HandBack ==
  ASSUME NEW n \in Nat, NEW ids, NEW rest, NEW M, Hands(ids, n + 1, rest, M),
         NEW some \in Seq(Nat), Len(some) = n, \A i \in 1 .. n : some[i] = ids[i]
  PROVE  Hands(some, n, <<ids[n + 1]>> \o rest, M)
<1>1. /\ M \in Nat /\ total <= M
      /\ ids \in Seq(Nat) /\ Len(ids) = n + 1 /\ rest \in Seq(Nat) /\ Distinct(rest)
      /\ \A i \in 1 .. n + 1 : ids[i] < M /\ Available(ids[i])
      /\ \A i, j \in 1 .. n + 1 : ids[i] = ids[j] => i = j
  BY DEF Hands, Distinct
<1>2. /\ \A y : On(y, rest) => y < M /\ Available(y)
      /\ \A i \in 1 .. n + 1 : ~ On(ids[i], rest)
      /\ \A p \in 0 .. M - 1 : Available(p) => (\E i \in 1 .. n + 1 : ids[i] = p) \/ On(p, rest)
  BY DEF Hands, On
<1>3. /\ n + 1 \in 1 .. n + 1 /\ (\A i \in 1 .. n : i \in 1 .. n + 1 /\ i # n + 1)
      /\ \A i \in 1 .. n + 1 : i = n + 1 \/ i \in 1 .. n
  OBVIOUS
<1>4. PICK x \in Nat : x = ids[n + 1]
  BY <1>1, <1>3
<1>5. PICK r : r = <<x>> \o rest
  OBVIOUS
<1>6. r \in Seq(Nat) /\ Distinct(r) /\ \A y : On(y, r) <=> y = x \/ On(y, rest)
  BY <1>1, <1>2, <1>3, <1>4, <1>5, PushFront
<1>7. Distinct(some) /\ \A i \in 1 .. n : some[i] < M /\ Available(some[i])
  BY <1>1, <1>3 DEF Distinct
<1>8. ASSUME NEW k \in 1 .. Len(r) PROVE r[k] < M /\ Available(r[k]) /\ \A i \in 1 .. n : some[i] # r[k]
  <2>1. PICK y : y = r[k]
    OBVIOUS
  <2>2. y = x \/ On(y, rest)
    BY <1>6, <2>1 DEF On
  <2>3. y < M /\ Available(y)
    BY <1>1, <1>2, <1>3, <1>4, <2>2
  <2>4. \A i \in 1 .. n : some[i] # y
    BY <1>1, <1>2, <1>3, <1>4, <2>2
  <2> QED BY <2>1, <2>3, <2>4
<1>9. ASSUME NEW p \in 0 .. M - 1, Available(p) PROVE (\E i \in 1 .. n : some[i] = p) \/ On(p, r)
  <2>1. CASE On(p, rest)
    BY <1>6, <2>1
  <2>2. CASE \E i \in 1 .. n + 1 : ids[i] = p
    BY <1>3, <1>4, <1>6, <2>2
  <2> QED BY <1>2, <1>9, <2>1, <2>2
<1>10. Hands(some, n, r, M)
  BY <1>1, <1>6, <1>7, <1>8, <1>9 DEF Hands, On
<1> QED BY <1>4, <1>5, <1>10

\* garry_overflow_write fails: n pages are taken.
LEMMA FailedWrite ==
  ASSUME IOver, NEW v \in Values, NEW n \in Nat, NEW got \in {0, 1},
         pg' = PagesAfterFailure(v, n, got), total' = TotalAfter(n + got),
         free' = FreeAfterFailure(n, got), leaked' = leaked \union Range(Allocated(n)),
         UNCHANGED <<chain, wal, iter>>
  PROVE  IOver'
<1> DEFINE ids == Allocated(n)
           L == TotalAfter(n)
           M == TotalAfter(n + got)
           W == WrittenPages(ids, v, {})
           Blank == [next |-> NoPage, data |-> << >>]
           rest == (IF got = 1 THEN <<Allocated(n + 1)[n + 1]>> ELSE << >>) \o FreeAfter(n + got)
<1>1. n \in Nat /\ n + 1 \in Nat
  OBVIOUS
<1>2. OTypes /\ Distinct(free) /\ total \in Nat
  BY DEF IOver, PagesOwned, OTypes
<1>3. Hands(ids, n, FreeAfter(n), L) /\ Writes(W, ids, v, {}, L)
  BY <1>1, <1>2, AllocHands, WritesValue
<1>4. /\ pg' = [p \in 0 .. M - 1 |-> IF p \in DOMAIN W THEN W[p] ELSE Blank]
      /\ total' = M /\ free' = rest /\ leaked' = leaked \union Range(ids)
      /\ UNCHANGED <<chain, wal, iter>>
  BY DEF PagesAfterFailure, FreeAfterFailure
<1>5. Hands(ids, n, rest, M) /\ L \in Nat /\ M \in Nat /\ L <= M /\ total <= L
  <2>1. CASE got = 0
    <3>1. rest = << >> \o FreeAfter(n) /\ M = L
      BY <1>1, <2>1
    <3>2. FreeAfter(n) \in Seq(Nat)
      BY <1>3 DEF Hands
    <3>3. rest = FreeAfter(n)
      BY <3>1, <3>2
    <3>4. L \in Nat /\ L <= L /\ total <= L
      BY <1>3 DEF Hands
    <3> QED BY <1>3, <3>1, <3>3, <3>4
  <2>2. CASE got = 1
    <3> DEFINE B == Allocated(n + 1)
               F == FreeAfter(n + 1)
               K == TotalAfter(n + 1)
    <3>1. rest = <<B[n + 1]>> \o F /\ M = K
      BY <2>2
    <3>2. Hands(B, n + 1, F, K)
      BY <1>1, <1>2, AllocHands
    <3>3. ids \in Seq(Nat) /\ Len(ids) = n
      BY <1>3 DEF Hands
    <3>4. \A i \in 1 .. n : ids[i] = B[i]
      BY <1>1 DEF Allocated
    <3>5. L \in Nat /\ K \in Nat /\ L <= K /\ total <= L
      <4>1. Len(free) \in Nat
        BY <1>2 DEF OTypes
      <4> QED BY <1>1, <1>2, <4>1 DEF TotalAfter
    <3> HIDE DEF B, F, K, ids, L, M, rest
    <3>6. Hands(ids, n, <<B[n + 1]>> \o F, K)
      BY <1>1, <3>2, <3>3, <3>4, HandBack
    <3> QED BY <3>1, <3>5, <3>6
  <2> QED BY <2>1, <2>2
<1> HIDE DEF ids, L, M, W, rest
<1>6. DOMAIN W = 0 .. L - 1 /\ \A p \in 0 .. L - 1 : W[p] \in PageType /\ W[p].next < L
  BY <1>3 DEF Writes, IsFile
<1>7. Blank \in PageType /\ Blank.next = NoPage
  BY DEF PageType, Ptr, Datum
<1> HIDE DEF Blank
<1>8. ASSUME NEW p \in 0 .. M - 1 PROVE pg'[p] \in PageType /\ pg'[p].next < M
  <2>1. CASE p \in 0 .. L - 1
    <3>1. pg'[p] = W[p] /\ W[p] \in PageType /\ W[p].next < L
      BY <1>4, <1>6, <2>1
    <3>2. W[p].next \in Ptr
      BY <3>1 DEF PageType
    <3> QED BY <1>5, <3>1, <3>2 DEF Ptr, NoPage
  <2>2. CASE p \notin 0 .. L - 1
    <3>1. pg'[p] = Blank
      BY <1>4, <1>6, <2>2
    <3> QED BY <1>5, <1>7, <3>1 DEF NoPage
  <2> QED BY <2>1, <2>2
<1>9. IsFile(pg', M)
  BY <1>4, <1>8 DEF IsFile
<1>10. ASSUME NEW p \in 0 .. total - 1, ~ Available(p) PROVE pg'[p] = pg[p]
  <2>1. W[p] = pg[p]
    BY <1>1, <1>3, <1>10, OthersKept
  <2>2. p \in 0 .. L - 1 /\ p \in 0 .. M - 1
    BY <1>2, <1>5
  <2> QED BY <1>4, <1>6, <2>1, <2>2
<1>11. leaked' = leaked \union Taken(ids, n)
  BY <1>1, <1>4, <1>5, TakenRange
<1>12. PICK pages : pages = pg'
  OBVIOUS
<1>13. IsFile(pages, M) /\ \A p \in 0 .. total - 1 : ~ Available(p) => pages[p] = pg[p]
  BY <1>9, <1>10, <1>12
<1>14. LogKept' /\ LoggedIn(pages, wal) = LoggedIn(pg, wal)
  BY <1>1, <1>4, <1>5, <1>11, <1>12, <1>13, LogSame
<1>15. leaked' \union LoggedIn(pages, wal') = (leaked \union LoggedIn(pg, wal)) \union Taken(ids, n)
  BY <1>4, <1>11, <1>14
<1> QED BY <1>1, <1>4, <1>5, <1>12, <1>13, <1>14, <1>15, LossStep

\* garry_mvcc_set when its value could not be written.
LEMMA FailStep ==
  ASSUME IOver, NEW t \in Txns, NEW v \in Values, NEW n \in 0 .. Chunks[v] - 1,
         NEW got \in {0, 1}, SetLargeFails(t, v, n, got)
  PROVE  IOver'
<1>1. n \in Nat
  BY OverflowAssumption
<1> QED BY <1>1, FailedWrite DEF SetLargeFails

\* garry_make_update_record when its value could not be written or its record
\* not be appended.
LEMMA LogFailStep ==
  ASSUME IOver, NEW t \in Txns, NEW v \in Values, NEW n \in 0 .. Chunks[LogForm[v]],
         NEW got \in {0, 1}, LogUpdateFails(t, v, n, got)
  PROVE  IOver'
<1>1. n \in Nat /\ LogForm[v] \in Values
  BY OverflowAssumption
<1> QED BY <1>1, FailedWrite DEF LogUpdateFails

\* garry_make_update_record and garry_wal_log_append: the record has the pages
\* that were written, up to the first lost link.
LEMMA LogStep ==
  ASSUME IOver, NEW t \in Txns, NEW v \in Values, NEW lost, LogUpdate(t, v, lost)
  PROVE  IOver'
<1> DEFINE f == LogForm[v]
           n == Chunks[f]
           ids == Allocated(n)
           rest == FreeAfter(n)
           M == TotalAfter(n)
           W == WrittenPages(ids, f, lost)
           e == [txn |-> t, val |-> f, head |-> ids[1], cut |-> lost # {}]
           N == Len(wal)
<1>1. n \in Nat /\ n > 0 /\ f \in Values
  BY OverflowAssumption DEF LogUpdate
<1>2. OTypes /\ Distinct(free)
  BY DEF IOver, PagesOwned
<1>3. Hands(ids, n, rest, M) /\ Writes(W, ids, f, lost, M)
  <2> HIDE DEF n, f
  <2> QED BY <1>1, <1>2, AllocHands, WritesValue
<1>4. /\ pg' = W /\ total' = M /\ free' = rest /\ wal' = Append(wal, e)
      /\ leaked' = leaked \union (Range(ids) \ PathPages(pg', e))
      /\ UNCHANGED <<chain, iter>>
  BY DEF LogUpdate
<1> HIDE DEF ids, rest, M, W
<1>5. /\ M \in Nat /\ ids \in Seq(Nat) /\ Len(ids) = n /\ \A i \in 1 .. n : ids[i] < M
      /\ IsFile(W, M)
  BY <1>3 DEF Hands, Writes
<1>6. ids[1] \in Ptr /\ ids[1] < M
  <2>1. 1 \in 1 .. n
    BY <1>1
  <2> QED BY <1>5, <2>1 DEF Ptr
<1>7. e \in Version /\ e.val = f /\ e.head = ids[1] /\ e.cut = (lost # {})
  BY <1>1, <1>6 DEF Version
<1>8. Chunks[f] = n
  OBVIOUS
<1>9. IsLarge(e)
  BY <1>1, <1>7, <1>8, ValuesAssumption DEF IsLarge
<1> HIDE DEF e, n, f
<1>10. Carries(W, e) /\ PathPages(W, e) \subseteq Taken(ids, n)
  BY <1>1, <1>3, <1>5, <1>7, <1>8, WrittenCarries DEF Taken
<1>11. \A p \in 0 .. total - 1 : ~ Available(p) => W[p] = pg[p]
  BY <1>1, <1>3, OthersKept
<1>12. Range(ids) = Taken(ids, n)
  BY <1>1, <1>3, TakenRange
<1>13. leaked' = leaked \union (Taken(ids, n) \ PathPages(W, e))
  BY <1>4, <1>12
<1>14. e.head < M
  BY <1>6, <1>7
<1>15. wal \in Seq(Version) /\ N \in Nat
  BY DEF IOver, LogKept, IsChain
<1>16. /\ wal' \in Seq(Version) /\ Len(wal') = N + 1 /\ wal'[N + 1] = e
       /\ \A k \in 1 .. N : wal'[k] = wal[k]
  BY <1>4, <1>7, <1>15
<1>17. ASSUME NEW k \in 1 .. N
       PROVE  /\ wal[k].head < M /\ Carries(W, wal[k])
              /\ PathPages(W, wal[k]) = PathPages(pg, wal[k])
              /\ \A p \in PathPages(pg, wal[k]) : ~ Available(p)
  BY <1>1, <1>3, <1>5, <1>11, LogsKept
<1>18. \A x \in Taken(ids, n) : Available(x)
  BY <1>3 DEF Hands, Taken
<1>19. /\ \A i \in 1 .. N : PathPages(pg, wal[i]) \intersect leaked = {}
       /\ \A i, j \in 1 .. N :
             i # j => PathPages(pg, wal[i]) \intersect PathPages(pg, wal[j]) = {}
       /\ leaked \intersect PathPages(W, e) = {}
  <2>1. /\ \A i \in 1 .. N : PathPages(pg, wal[i]) \intersect leaked = {}
        /\ \A i, j \in 1 .. N :
              i # j => PathPages(pg, wal[i]) \intersect PathPages(pg, wal[j]) = {}
    BY DEF IOver, LogKept
  <2>2. ASSUME NEW p \in leaked PROVE ~ Available(p)
    <3>1. p \in 0 .. total - 1 /\ total \in Nat
      BY DEF IOver, OTypes
    <3>2. OneOwner(free, leaked \union LoggedIn(pg, wal), Len(chain), Owned(pg, chain), total)
      BY DEF IOver, PagesOwned
    <3>3. \A i \in 1 .. Len(free) : free[i] # p
      BY <3>2 DEF OneOwner
    <3> QED BY <3>1, <3>3 DEF Available
  <2> QED BY <1>10, <1>18, <2>1, <2>2
<1> HIDE DEF N
<1>20. \A k \in 1 .. N + 1 : k = N + 1 \/ k \in 1 .. N
  BY <1>15
<1>21. \A k \in 1 .. N + 1 : wal'[k].head < M /\ Carries(W, wal'[k])
  BY <1>10, <1>14, <1>16, <1>17, <1>20
<1>22. \A k \in 1 .. N + 1 : PathPages(W, wal'[k]) \intersect leaked' = {}
  <2> SUFFICES ASSUME NEW k \in 1 .. N + 1 PROVE PathPages(W, wal'[k]) \intersect leaked' = {}
    OBVIOUS
  <2>1. CASE k = N + 1
    BY <1>13, <1>16, <1>19, <2>1
  <2>2. CASE k \in 1 .. N
    BY <1>13, <1>16, <1>17, <1>18, <1>19, <2>2
  <2> QED BY <1>20, <2>1, <2>2
<1>23. \A i, j \in 1 .. N + 1 :
         i # j => PathPages(W, wal'[i]) \intersect PathPages(W, wal'[j]) = {}
  <2> SUFFICES ASSUME NEW i \in 1 .. N + 1, NEW j \in 1 .. N + 1, i # j
               PROVE  PathPages(W, wal'[i]) \intersect PathPages(W, wal'[j]) = {}
    OBVIOUS
  <2>1. CASE i \in 1 .. N /\ j \in 1 .. N
    BY <1>16, <1>17, <1>19, <2>1
  <2>2. CASE i \in 1 .. N /\ j = N + 1
    BY <1>10, <1>16, <1>17, <1>18, <2>2
  <2>3. CASE i = N + 1 /\ j \in 1 .. N
    BY <1>10, <1>16, <1>17, <1>18, <2>3
  <2> QED BY <1>20, <2>1, <2>2, <2>3
<1>24. LogKept'
  <2>1. IsChain(wal', total')
    BY <1>4, <1>16, <1>21 DEF IsChain
  <2>2. LogKept' <=> /\ IsChain(wal', total')
                     /\ \A i \in 1 .. N + 1 : IsLarge(wal'[i])
                     /\ \A i \in 1 .. N + 1 : Carries(W, wal'[i])
                     /\ \A i \in 1 .. N + 1 : PathPages(W, wal'[i]) \intersect leaked' = {}
                     /\ \A i, j \in 1 .. N + 1 :
                          i # j => PathPages(W, wal'[i]) \intersect PathPages(W, wal'[j]) = {}
    BY <1>4, <1>16 DEF LogKept, LogLarge, IsChain, Carries, PathOf, PathPages, IsLarge, Path
  <2>3. ASSUME NEW i \in 1 .. N + 1 PROVE IsLarge(wal'[i])
    <3>1. CASE i = N + 1
      BY <1>16, <1>9, <3>1
    <3>2. CASE i \in 1 .. N
      <4>1. IsLarge(wal[i])
        BY <3>2 DEF IOver, LogKept, LogLarge, N
      <4> QED BY <1>16, <3>2, <4>1
    <3> QED BY <1>20, <3>1, <3>2
  <2> QED BY <1>21, <1>22, <1>23, <2>1, <2>2, <2>3
<1>25. LoggedIn(W, wal') = LoggedIn(pg, wal) \union PathPages(W, e)
  <2>1. ASSUME NEW x \in LoggedIn(W, wal') PROVE x \in LoggedIn(pg, wal) \union PathPages(W, e)
    <3>1. PICK k \in 1 .. N + 1 : x \in PathPages(W, wal'[k])
      BY <1>16 DEF LoggedIn
    <3>2. CASE k = N + 1
      BY <1>16, <3>1, <3>2
    <3>3. CASE k \in 1 .. N
      <4>1. x \in PathPages(pg, wal[k])
        BY <1>16, <1>17, <3>1, <3>3
      <4> QED BY <3>3, <4>1 DEF LoggedIn, N
    <3> QED BY <1>20, <3>2, <3>3
  <2>2. ASSUME NEW x \in LoggedIn(pg, wal) PROVE x \in LoggedIn(W, wal')
    <3>1. PICK k \in 1 .. N : x \in PathPages(pg, wal[k])
      BY DEF LoggedIn, N
    <3>2. x \in PathPages(W, wal'[k]) /\ k \in 1 .. N + 1
      BY <1>15, <1>16, <1>17, <3>1
    <3> QED BY <1>16, <3>2 DEF LoggedIn
  <2>3. PathPages(W, e) \subseteq LoggedIn(W, wal')
    <3>1. N + 1 \in 1 .. N + 1
      BY <1>15
    <3> QED BY <1>16, <3>1 DEF LoggedIn
  <2> QED BY <2>1, <2>2, <2>3
<1>26. leaked' \union LoggedIn(W, wal') = (leaked \union LoggedIn(pg, wal)) \union Taken(ids, n)
  BY <1>10, <1>13, <1>25
<1> QED BY <1>1, <1>3, <1>4, <1>5, <1>11, <1>24, <1>26, LossStep


-----------------------------------------------------------------------------
(* Pruning.                                                                *)

\* out is the list with some of the pages of e in front.
PutsBack(out, list, e) ==
  /\ out \in Seq(Nat)
  /\ \A y : On(y, list) => On(y, out)
  /\ \A y : On(y, out) => On(y, list) \/ y \in PathPages(pg, e)
  /\ Distinct(list) /\ (\A y : On(y, list) => y \notin PathPages(pg, e)) => Distinct(out)

\* garry_overflow_free puts pages of the entry on the list and nothing else,
\* and no page twice.
LEMMA FreePutsBack ==
  ASSUME OTypes, NEW e \in Version, IsLarge(e), e.head < total, Carries(pg, e),
         NEW pooled \in Nat, NEW list \in Seq(Nat)
  PROVE  PutsBack(OverflowFree(list, e, pooled), list, e)
<1> DEFINE N == IF pooled < Chunks[e.val] THEN pooled ELSE Chunks[e.val]
           q == PathOf(pg, e)
           X == Seq(Nat)
           D(x, n) == IF q[n] = NoPage THEN x ELSE <<q[n]>> \o x
           step == [n \in 1 .. N |-> [x \in X |-> D(x, n)]]
           Eq(g) == g = [n \in 0 .. N |-> IF n = 0 THEN list ELSE D(g[n - 1], n)]
           K == CHOOSE g : Eq(g)
<1>1. Chunks[e.val] \in Nat /\ N \in Nat /\ N <= Chunks[e.val] /\ 1 .. N \subseteq 1 .. Chunks[e.val]
  BY LargeChunks
<1>2. \A n \in 1 .. N : q[n] # NoPage => q[n] \in Nat
  <2>1. e.head \in Ptr /\ total \in Nat /\ IsFile(pg, total)
    BY DEF Version, OTypes
  <2>2. Follows(q, pg, e.head, Chunks[e.val], total)
    BY <1>1, <2>1, PathUnfold DEF PathOf
  <2> QED BY <1>1, <2>2 DEF Follows, Ptr
<1>3. OverflowFree(list, e, pooled) = K[N]
  BY DEF OverflowFree, PathOf
<1>4. ASSUME NEW n \in 1 .. N, q[n] # NoPage PROVE q[n] \in PathPages(pg, e)
  <2>1. n \in 1 .. Chunks[e.val]
    BY <1>1
  <2> QED BY <1>4, <2>1, PagesOfPath
<1>5. ASSUME NEW n \in 1 .. N, NEW j \in 1 .. N, q[n] = q[j], q[n] # NoPage PROVE n = j
  <2>1. n \in 1 .. Chunks[e.val] /\ j \in 1 .. Chunks[e.val]
    BY <1>1
  <2> QED BY <1>5, <2>1, PathDistinct
<1> HIDE DEF N, q
<1>6. \A n \in 1 .. N, x \in X : D(x, n) \in X
  BY <1>2
<1> HIDE DEF D
<1>7. step \in StepsOn(N, X)
  BY <1>6 DEF StepsOn
<1>8. PICK g : Recursion(g, N, X, list, step)
  <2> HIDE DEF step, X
  <2>1. list \in X
    BY DEF X
  <2> QED BY <1>1, <1>7, <2>1, RecursionExists
<1>9. \A n \in 0 .. N : n # 0 => n \in 1 .. N /\ n - 1 \in 0 .. N
  BY <1>1
<1> HIDE DEF X
<1>10. Eq(g)
  BY <1>8, <1>9 DEF Recursion
<1>11. Eq(K)
  <2> HIDE DEF Eq
  <2> QED BY <1>10
<1> HIDE DEF K
<1>12. K[0] = list /\ \A n \in 1 .. N : K[n] = D(K[n - 1], n)
  BY <1>1, <1>11
<1> HIDE DEF Eq
<1> DEFINE Fresh == Distinct(list) /\ \A y : On(y, list) => y \notin PathPages(pg, e)
           P(n) == /\ K[n] \in X
                   /\ \A y : On(y, list) => On(y, K[n])
                   /\ \A y : On(y, K[n]) => On(y, list) \/ \E j \in 1 .. n : q[j] # NoPage /\ q[j] = y
                   /\ Fresh => Distinct(K[n])
           T == {n \in Nat : n <= N => P(n)}
<1>13. 0 \in T
  BY <1>12 DEF X
<1>14. ASSUME NEW n \in Nat, n \in T PROVE n + 1 \in T
  <2> SUFFICES ASSUME n + 1 <= N PROVE P(n + 1)
    OBVIOUS
  <2>1. P(n) /\ n + 1 \in 1 .. N /\ (n + 1) - 1 = n
    BY <1>1, <1>14
  <2>2. K[n + 1] = D(K[n], n + 1)
    BY <1>12, <2>1
  <2>3. \A j \in 1 .. n : j \in 1 .. n + 1 /\ j \in 1 .. N /\ j # n + 1
    BY <1>1
  <2>4. CASE q[n + 1] = NoPage
    <3>1. K[n + 1] = K[n]
      BY <2>2, <2>4 DEF D
    <3> QED BY <2>1, <2>3, <3>1
  <2>5. CASE q[n + 1] # NoPage
    <3>1. PICK x \in Nat : x = q[n + 1]
      BY <1>2, <2>1, <2>5
    <3>2. PICK s \in Seq(Nat) : s = K[n]
      BY <2>1 DEF X
    <3>3. K[n + 1] = <<x>> \o s
      BY <2>2, <2>5, <3>1, <3>2 DEF D
    <3>4. /\ K[n + 1] \in X
          /\ \A y : On(y, K[n + 1]) <=> y = x \/ On(y, s)
          /\ Distinct(s) /\ ~ On(x, s) => Distinct(K[n + 1])
      BY <3>3, PushFront DEF X
    <3>5. \A y : On(y, list) => On(y, K[n + 1])
      BY <2>1, <3>2, <3>4
    <3>6. ASSUME NEW y, On(y, K[n + 1])
          PROVE  On(y, list) \/ \E j \in 1 .. n + 1 : q[j] # NoPage /\ q[j] = y
      <4>1. CASE y = x
        <5>1. n + 1 \in 1 .. n + 1
          OBVIOUS
        <5> QED BY <2>5, <3>1, <4>1, <5>1
      <4>2. CASE On(y, s)
        BY <2>1, <2>3, <3>2, <4>2
      <4> QED BY <3>4, <3>6, <4>1, <4>2
    <3>7. ASSUME Fresh PROVE Distinct(K[n + 1])
      <4>1. Distinct(s)
        BY <2>1, <3>2, <3>7
      <4>2. ASSUME On(x, s) PROVE FALSE
        <5>1. x \in PathPages(pg, e)
          BY <1>4, <2>1, <2>5, <3>1
        <5>2. ~ On(x, list)
          BY <3>7, <5>1
        <5>3. PICK j \in 1 .. n : q[j] # NoPage /\ q[j] = x
          BY <2>1, <3>2, <4>2, <5>2
        <5>4. j \in 1 .. N /\ j # n + 1
          BY <2>3
        <5> QED BY <1>5, <2>1, <3>1, <5>3, <5>4
      <4> QED BY <3>4, <4>1, <4>2
    <3> QED BY <3>4, <3>5, <3>6, <3>7
  <2> QED BY <2>4, <2>5
<1>15. Nat \subseteq T
  <2> HIDE DEF T
  <2> QED BY <1>13, <1>14, NatSetInduction
<1>16. P(N)
  BY <1>1, <1>15
<1>17. \A y : On(y, K[N]) => On(y, list) \/ y \in PathPages(pg, e)
  BY <1>4, <1>16
<1> QED BY <1>3, <1>16, <1>17 DEF PutsBack, X

\* fr is the free list with pages of the discarded versions in front.
PutsBackAll(fr) ==
  /\ fr \in Seq(Nat) /\ Distinct(fr)
  /\ \A y : On(y, free) => On(y, fr)
  /\ \A y : On(y, fr) => On(y, free) \/ \E i \in Discarded : y \in PathPages(pg, chain[i])

\* What pruning puts on the free list.
LEMMA PruneFrees ==
  ASSUME OTypes, PathsCarry, PagesOwned, NEW pooled \in Nat
  PROVE  PutsBackAll(FreeAfterPrune(pooled))
<1> DEFINE N == Len(chain)
           Goes(n) == n \in Discarded /\ IsLarge(chain[n])
           X == Seq(Nat)
           D(x, n) == IF Goes(n) THEN OverflowFree(x, chain[n], pooled) ELSE x
           step == [n \in 1 .. N |-> [x \in X |-> D(x, n)]]
           Eq(g) == g = [n \in 0 .. N |-> IF n = 0 THEN free ELSE D(g[n - 1], n)]
           K == CHOOSE g : Eq(g)
<1>1. N \in Nat /\ free \in X /\ Discarded \subseteq 1 .. N
  BY DEF OTypes, IsChain, Discarded
<1>2. ASSUME NEW n \in 1 .. N
      PROVE  chain[n] \in Version /\ chain[n].head < total /\ Carries(pg, chain[n])
  BY DEF OTypes, IsChain, PathsCarry
<1>3. FreeAfterPrune(pooled) = K[N]
  BY DEF FreeAfterPrune
<1>4. ASSUME NEW n \in 1 .. N, Goes(n), NEW x \in X
      PROVE  PutsBack(OverflowFree(x, chain[n], pooled), x, chain[n])
  <2>1. PICK e \in Version : e = chain[n]
    BY <1>2
  <2>2. e.head < total /\ Carries(pg, e) /\ IsLarge(e)
    BY <1>2, <1>4, <2>1
  <2>3. PutsBack(OverflowFree(x, e, pooled), x, e)
    BY <2>2, FreePutsBack
  <2> QED BY <2>1, <2>3
<1>5. /\ Distinct(free)
      /\ \A n \in 1 .. N : \A y : On(y, free) => y \notin PathPages(pg, chain[n])
      /\ \A n, j \in 1 .. N : n # j => PathPages(pg, chain[n]) \intersect PathPages(pg, chain[j]) = {}
  <2>1. \A n \in 1 .. N : Owned(pg, chain)[n] = PathPages(pg, chain[n])
    BY DEF Owned
  <2> QED BY <2>1 DEF PagesOwned, OneOwner, On
<1> HIDE DEF N, Goes
<1>6. \A n \in 1 .. N, x \in X : D(x, n) \in X
  BY <1>4 DEF PutsBack
<1> HIDE DEF D
<1>7. step \in StepsOn(N, X)
  BY <1>6 DEF StepsOn
<1>8. PICK g : Recursion(g, N, X, free, step)
  <2> HIDE DEF step, X
  <2> QED BY <1>1, <1>7, RecursionExists
<1>9. \A n \in 0 .. N : n # 0 => n \in 1 .. N /\ n - 1 \in 0 .. N
  BY <1>1
<1> HIDE DEF X
<1>10. Eq(g)
  BY <1>8, <1>9 DEF Recursion
<1>11. Eq(K)
  <2> HIDE DEF Eq
  <2> QED BY <1>10
<1> HIDE DEF K
<1>12. K[0] = free /\ \A n \in 1 .. N : K[n] = D(K[n - 1], n)
  BY <1>1, <1>11
<1> HIDE DEF Eq
<1> DEFINE P(n) == /\ K[n] \in X /\ Distinct(K[n])
                   /\ \A y : On(y, free) => On(y, K[n])
                   /\ \A y : On(y, K[n]) => \/ On(y, free)
                                            \/ \E i \in 1 .. n : i \in Discarded /\ y \in PathPages(pg, chain[i])
           T == {n \in Nat : n <= N => P(n)}
<1>13. 0 \in T
  BY <1>1, <1>5, <1>12
<1>14. ASSUME NEW n \in Nat, n \in T PROVE n + 1 \in T
  <2> SUFFICES ASSUME n + 1 <= N PROVE P(n + 1)
    OBVIOUS
  <2>1. P(n) /\ n + 1 \in 1 .. N /\ (n + 1) - 1 = n
    BY <1>1, <1>14
  <2>2. K[n + 1] = D(K[n], n + 1)
    BY <1>12, <2>1
  <2>3. \A j \in 1 .. n : j \in 1 .. n + 1 /\ j \in 1 .. N /\ j # n + 1
    BY <1>1
  <2>4. CASE ~ Goes(n + 1)
    <3>1. K[n + 1] = K[n]
      BY <2>2, <2>4 DEF D
    <3> QED BY <2>1, <2>3, <3>1
  <2>5. CASE Goes(n + 1)
    <3>1. PICK s \in X : s = K[n]
      BY <2>1
    <3>2. PICK m \in 1 .. N : m = n + 1
      BY <2>1
    <3>3. K[n + 1] = OverflowFree(s, chain[m], pooled)
      BY <2>2, <2>5, <3>1, <3>2 DEF D
    <3>4. PutsBack(K[n + 1], s, chain[m])
      BY <1>4, <2>5, <3>2, <3>3
    <3>5. ASSUME NEW y, On(y, s) PROVE y \notin PathPages(pg, chain[m])
      <4>1. CASE On(y, free)
        BY <1>5, <4>1
      <4>2. CASE ~ On(y, free)
        <5>1. PICK i \in 1 .. n : i \in Discarded /\ y \in PathPages(pg, chain[i])
          BY <2>1, <3>1, <3>5, <4>2
        <5>2. i \in 1 .. N /\ i # m
          BY <2>3, <3>2
        <5> QED BY <1>5, <5>1, <5>2
      <4> QED BY <4>1, <4>2
    <3>6. K[n + 1] \in X /\ Distinct(K[n + 1])
      BY <2>1, <3>1, <3>4, <3>5 DEF PutsBack, X
    <3>7. \A y : On(y, free) => On(y, K[n + 1])
      BY <2>1, <3>1, <3>4 DEF PutsBack
    <3>8. ASSUME NEW y, On(y, K[n + 1]), ~ On(y, free)
          PROVE  \E i \in 1 .. n + 1 : i \in Discarded /\ y \in PathPages(pg, chain[i])
      <4>1. CASE On(y, s)
        BY <2>1, <2>3, <3>1, <3>8, <4>1
      <4>2. CASE y \in PathPages(pg, chain[m])
        <5>1. n + 1 \in 1 .. n + 1 /\ n + 1 \in Discarded
          BY <2>5 DEF Goes
        <5> QED BY <3>2, <4>2, <5>1
      <4> QED BY <3>4, <3>8, <4>1, <4>2 DEF PutsBack
    <3> QED BY <3>6, <3>7, <3>8
  <2> QED BY <2>4, <2>5
<1>15. Nat \subseteq T
  <2> HIDE DEF T
  <2> QED BY <1>13, <1>14, NatSetInduction
<1>16. P(N)
  BY <1>1, <1>15
<1> QED BY <1>3, <1>16 DEF PutsBackAll, X

\* The recursion of SurvivorsUpTo, one entry at a time.
LEMMA SurvivorsUnfold ==
  ASSUME NEW s \in Seq(Version), NEW A
  PROVE  LET K == SurvivorsUpTo(s, A)
         IN  /\ K \in [0 .. Len(s) -> Seq(Version)]
             /\ K[0] = << >>
             /\ \A n \in 1 .. Len(s) :
                   K[n] = IF Survives(s, n, A) THEN Append(K[n - 1], s[n]) ELSE K[n - 1]
<1> DEFINE N == Len(s)
           X == Seq(Version)
           D(x, n) == IF Survives(s, n, A) THEN Append(x, s[n]) ELSE x
           step == [n \in 1 .. N |-> [x \in X |-> D(x, n)]]
           K == SurvivorsUpTo(s, A)
           Eq(g) == g = [n \in 0 .. N |-> IF n = 0 THEN << >> ELSE D(g[n - 1], n)]
<1>1. N \in Nat /\ << >> \in X /\ \A n \in 1 .. N, x \in X : D(x, n) \in X
  OBVIOUS
<1>2. K = CHOOSE Kept : Eq(Kept)
  BY DEF SurvivorsUpTo
<1> HIDE DEF N, X, D, K
<1>3. step \in StepsOn(N, X)
  BY <1>1 DEF StepsOn
<1>4. PICK g : Recursion(g, N, X, << >>, step)
  <2> HIDE DEF step
  <2> QED BY <1>1, <1>3, RecursionExists
<1>5. \A n \in 0 .. N : n # 0 => n \in 1 .. N /\ n - 1 \in 0 .. N
  BY <1>1
<1>6. Eq(g)
  BY <1>4, <1>5 DEF Recursion
<1>7. Eq(K)
  <2> HIDE DEF Eq
  <2> QED BY <1>2, <1>6
<1>8. K[0] = << >> /\ \A n \in 1 .. N : K[n] = D(K[n - 1], n)
  BY <1>1, <1>7
<1> DEFINE T == {n \in Nat : n <= N => K[n] \in X}
<1>9. 0 \in T
  BY <1>1, <1>8
<1>10. ASSUME NEW n \in Nat, n \in T PROVE n + 1 \in T
  BY <1>1, <1>8, <1>10
<1>11. Nat \subseteq T
  <2> HIDE DEF T
  <2> QED BY <1>9, <1>10, NatSetInduction
<1>12. K \in [0 .. N -> X]
  <2>1. \A n \in 0 .. N : K[n] \in X
    BY <1>1, <1>11
  <2> QED BY <1>7, <2>1
<1> QED BY <1>8, <1>12 DEF N, X, D, K

\* r are the survivors among the first n versions of s: f takes the versions of
\* r to where they were.
Selects(f, r, s, n, A) ==
  /\ r \in Seq(Version)
  /\ f \in [1 .. Len(r) -> 1 .. n]
  /\ \A j \in 1 .. Len(r) : r[j] = s[f[j]] /\ Survives(s, f[j], A)
  /\ \A j, k \in 1 .. Len(r) : f[j] = f[k] => j = k
  /\ \A i \in 1 .. n : Survives(s, i, A) => \E j \in 1 .. Len(r) : f[j] = i

\* Pruning keeps every survivor once and nothing else.
LEMMA PruneSelects ==
  ASSUME NEW s \in Seq(Version), NEW A, Len(s) > 1
  PROVE  \E f : Selects(f, Prune(s, A), s, Len(s), A)
<1> DEFINE N == Len(s)
           K == SurvivorsUpTo(s, A)
           P(n) == \E f : Selects(f, K[n], s, n, A)
           T == {n \in Nat : n <= N => P(n)}
<1>1. /\ N \in Nat /\ K \in [0 .. N -> Seq(Version)] /\ K[0] = << >>
      /\ \A n \in 1 .. N : K[n] = IF Survives(s, n, A) THEN Append(K[n - 1], s[n]) ELSE K[n - 1]
      /\ \A n \in 1 .. N : s[n] \in Version
  BY SurvivorsUnfold
<1> HIDE DEF K, N
<1>2. P(0)
  <2>1. Selects([j \in 1 .. 0 |-> 0], << >>, s, 0, A)
    BY DEF Selects
  <2> QED BY <1>1, <2>1
<1>3. ASSUME NEW n \in Nat, n + 1 <= N, P(n) PROVE P(n + 1)
  <2>1. /\ n + 1 \in 1 .. N /\ n \in 0 .. N /\ (n + 1) - 1 = n /\ n + 1 \in 1 .. n + 1
        /\ s[n + 1] \in Version
    BY <1>1, <1>3
  <2>2. PICK f : Selects(f, K[n], s, n, A)
    BY <1>3
  <2>3. PICK r \in Seq(Version) : r = K[n]
    BY <2>2 DEF Selects
  <2>4. /\ Len(r) \in Nat /\ f \in [1 .. Len(r) -> 1 .. n]
        /\ \A j \in 1 .. Len(r) : f[j] \in 1 .. n + 1 /\ f[j] # n + 1
        /\ \A j \in 1 .. Len(r) : r[j] = s[f[j]] /\ Survives(s, f[j], A)
        /\ \A j, k \in 1 .. Len(r) : f[j] = f[k] => j = k
        /\ \A i \in 1 .. n : Survives(s, i, A) => \E j \in 1 .. Len(r) : f[j] = i
    <3>1. Selects(f, r, s, n, A)
      BY <2>2, <2>3
    <3>2. \A i \in 1 .. n : i \in 1 .. n + 1 /\ i # n + 1
      OBVIOUS
    <3>3. f \in [1 .. Len(r) -> 1 .. n]
      BY <3>1 DEF Selects
    <3>4. \A j \in 1 .. Len(r) : f[j] \in 1 .. n + 1 /\ f[j] # n + 1
      BY <3>2, <3>3
    <3> QED BY <3>1, <3>3, <3>4 DEF Selects
  <2>5. \A i \in 1 .. n + 1 : i = n + 1 \/ i \in 1 .. n
    OBVIOUS
  <2>6. CASE ~ Survives(s, n + 1, A)
    <3>1. K[n + 1] = r
      BY <1>1, <2>1, <2>3, <2>6
    <3>2. f \in [1 .. Len(r) -> 1 .. n + 1]
      BY <2>4
    <3>3. \A i \in 1 .. n + 1 : Survives(s, i, A) => \E j \in 1 .. Len(r) : f[j] = i
      BY <2>4, <2>5, <2>6
    <3>4. Selects(f, r, s, n + 1, A)
      BY <2>4, <3>2, <3>3 DEF Selects
    <3> QED BY <3>1, <3>4
  <2>7. CASE Survives(s, n + 1, A)
    <3> DEFINE L == Len(r)
               h == [j \in 1 .. L + 1 |-> IF j = L + 1 THEN n + 1 ELSE f[j]]
    <3>1. PICK q : q = Append(r, s[n + 1])
      OBVIOUS
    <3>2. K[n + 1] = q
      BY <1>1, <2>1, <2>3, <2>7, <3>1
    <3>3. /\ q \in Seq(Version) /\ Len(q) = L + 1 /\ q[L + 1] = s[n + 1]
          /\ \A j \in 1 .. L : q[j] = r[j]
      BY <2>1, <3>1
    <3>4. /\ L \in Nat /\ L + 1 \in 1 .. L + 1
          /\ \A j \in 1 .. L + 1 : j = L + 1 \/ (j \in 1 .. L /\ j # L + 1)
          /\ \A j \in 1 .. L : j \in 1 .. L + 1 /\ j # L + 1
      BY <2>4
    <3>5. h[L + 1] = n + 1 /\ \A j \in 1 .. L : h[j] = f[j]
      BY <3>4
    <3>6. h \in [1 .. L + 1 -> 1 .. n + 1]
      BY <2>1, <2>4, <3>4
    <3> HIDE DEF h, L
    <3>7. \A j \in 1 .. L + 1 : q[j] = s[h[j]] /\ Survives(s, h[j], A)
      BY <2>4, <2>7, <3>3, <3>4, <3>5 DEF L
    <3>8. ASSUME NEW j \in 1 .. L + 1, NEW k \in 1 .. L + 1, h[j] = h[k] PROVE j = k
      BY <2>4, <3>4, <3>5, <3>8 DEF L
    <3>9. ASSUME NEW i \in 1 .. n + 1, Survives(s, i, A) PROVE \E j \in 1 .. L + 1 : h[j] = i
      <4>1. CASE i = n + 1
        BY <3>4, <3>5, <4>1
      <4>2. CASE i \in 1 .. n
        <5>1. PICK j \in 1 .. L : f[j] = i
          BY <2>4, <3>9, <4>2 DEF L
        <5> QED BY <3>4, <3>5, <5>1
      <4> QED BY <2>5, <4>1, <4>2
    <3>10. Selects(h, q, s, n + 1, A)
      BY <3>3, <3>6, <3>7, <3>8, <3>9 DEF Selects
    <3> QED BY <3>2, <3>10
  <2> QED BY <2>6, <2>7
<1> HIDE DEF P
<1>4. 0 \in T /\ \A n \in Nat : n \in T => n + 1 \in T
  BY <1>1, <1>2, <1>3
<1>5. Nat \subseteq T
  <2> HIDE DEF T
  <2> QED BY <1>4, NatSetInduction
<1>6. P(N)
  BY <1>1, <1>5
<1> QED BY <1>6 DEF P, Prune, K, N

\* Of2 are the N sets Of without those of G, in the places f has them from.
Drops(Of2, R, Of, N, G, f) ==
  /\ f \in [1 .. R -> 1 .. N] /\ G \subseteq 1 .. N
  /\ \A j \in 1 .. R : Of2[j] = Of[f[j]]
  /\ \A j, k \in 1 .. R : f[j] = f[k] => j = k
  /\ \A i \in 1 .. N : i \notin G <=> \E j \in 1 .. R : f[j] = i

\* The list and the lost pages when the sets of G have been given back.
GivesBack(fr2, lk2, fr, lk, Of, G) ==
  /\ \A y : On(y, fr) => On(y, fr2)
  /\ \A y : On(y, fr2) => On(y, fr) \/ \E i \in G : y \in Of[i]
  /\ \A y : y \in lk2 <=> y \in lk \/ (~ On(y, fr2) /\ \E i \in G : y \in Of[i])

\* The owners of the pages when the versions of G are gone.
LEMMA OwnersAfterPrune ==
  ASSUME NEW N \in Nat, NEW M \in Nat, NEW Of, NEW fr, NEW lk, OneOwner(fr, lk, N, Of, M),
         lk \subseteq 0 .. M - 1,
         NEW R \in Nat, NEW Of2, NEW f, NEW G, Drops(Of2, R, Of, N, G, f),
         NEW fr2, NEW lk2, GivesBack(fr2, lk2, fr, lk, Of, G)
  PROVE  /\ lk2 \subseteq 0 .. M - 1 /\ OneOwner(fr2, lk2, R, Of2, M)
         /\ \A y : On(y, fr2) => On(y, fr) \/ y \in 0 .. M - 1
<1>1. /\ \A k \in 1 .. N : Of[k] \subseteq 0 .. M - 1
      /\ \A i, k \in 1 .. N : i # k => Of[i] \intersect Of[k] = {}
      /\ \A k \in 1 .. N : Of[k] \intersect lk = {}
      /\ \A p \in 0 .. M - 1 : p \in lk \/ On(p, fr) \/ \E k \in 1 .. N : p \in Of[k]
  BY DEF OneOwner, On
<1>2. \A y : On(y, fr) => y \notin lk /\ \A k \in 1 .. N : y \notin Of[k]
  BY DEF OneOwner, On
<1>3. /\ \A j \in 1 .. R : f[j] \in 1 .. N /\ f[j] \notin G /\ Of2[j] = Of[f[j]]
      /\ \A j, k \in 1 .. R : f[j] = f[k] => j = k
      /\ \A i \in 1 .. N : i \notin G => \E j \in 1 .. R : f[j] = i
      /\ \A i \in G : i \in 1 .. N
  BY DEF Drops
<1>4. /\ \A y : On(y, fr) => On(y, fr2)
      /\ \A y : On(y, fr2) => On(y, fr) \/ \E i \in G : y \in Of[i]
      /\ \A y : y \in lk2 <=> y \in lk \/ (~ On(y, fr2) /\ \E i \in G : y \in Of[i])
  BY DEF GivesBack
<1>5. ASSUME NEW j \in 1 .. R, NEW i \in G PROVE Of2[j] \intersect Of[i] = {}
  <2>1. f[j] \in 1 .. N /\ i \in 1 .. N /\ f[j] # i /\ Of2[j] = Of[f[j]]
    BY <1>3
  <2> QED BY <1>1, <2>1
<1>6. lk2 \subseteq 0 .. M - 1
  BY <1>1, <1>3, <1>4
<1>7. \A k \in 1 .. R : Of2[k] \subseteq 0 .. M - 1
  BY <1>1, <1>3
<1>8. ASSUME NEW i \in 1 .. R, NEW k \in 1 .. R, i # k PROVE Of2[i] \intersect Of2[k] = {}
  <2>1. /\ f[i] \in 1 .. N /\ f[k] \in 1 .. N /\ f[i] # f[k]
        /\ Of2[i] = Of[f[i]] /\ Of2[k] = Of[f[k]]
    BY <1>3, <1>8
  <2> QED BY <1>1, <2>1
<1>9. \A k \in 1 .. R : Of2[k] \intersect lk2 = {}
  BY <1>1, <1>3, <1>4, <1>5
<1>10. ASSUME NEW y, On(y, fr2) PROVE y \notin lk2 /\ \A k \in 1 .. R : y \notin Of2[k]
  <2>1. CASE On(y, fr)
    BY <1>2, <1>3, <1>4, <1>10, <2>1
  <2>2. CASE \E i \in G : y \in Of[i]
    BY <1>1, <1>3, <1>4, <1>5, <1>10, <2>2
  <2> QED BY <1>4, <1>10, <2>1, <2>2
<1>11. ASSUME NEW p \in 0 .. M - 1 PROVE p \in lk2 \/ On(p, fr2) \/ \E k \in 1 .. R : p \in Of2[k]
  <2>1. CASE p \in lk \/ On(p, fr)
    BY <1>4, <2>1
  <2>2. CASE \E k \in 1 .. N : p \in Of[k]
    <3>1. PICK k \in 1 .. N : p \in Of[k]
      BY <2>2
    <3>2. CASE k \in G
      BY <1>4, <3>1, <3>2
    <3>3. CASE k \notin G
      BY <1>3, <3>1, <3>3
    <3> QED BY <3>2, <3>3
  <2> QED BY <1>1, <2>1, <2>2
<1>12. \A i \in 1 .. Len(fr2) : On(fr2[i], fr2)
  BY DEF On
<1>13. \A p : On(p, fr2) => \E i \in 1 .. Len(fr2) : fr2[i] = p
  BY DEF On
<1>14. OneOwner(fr2, lk2, R, Of2, M)
  BY <1>7, <1>8, <1>9, <1>10, <1>11, <1>12, <1>13 DEF OneOwner
<1>15. \A y : On(y, fr2) => On(y, fr) \/ y \in 0 .. M - 1
  BY <1>1, <1>3, <1>4
<1> QED BY <1>6, <1>14, <1>15

\* garry_chain_page_prune.
LEMMA PruneStep ==
  ASSUME IOver, NEW pooled \in Nat, GcPrune(pooled)
  PROVE  IOver'
<1> DEFINE N == Len(chain)
           G == Discarded
           fr == FreeAfterPrune(pooled)
           Of == Owned(pg, chain)
           Gone == UNION {PathPages(pg, chain[i]) : i \in G}
<1>1. /\ OTypes /\ PathsCarry /\ PagesOwned /\ IterTypes /\ IterReads
      /\ total \in Nat /\ chain \in Seq(Version) /\ N \in Nat /\ leaked \subseteq 0 .. total - 1
      /\ \A i \in 1 .. Len(free) : free[i] < total
      /\ IsFile(pg, total) /\ IsChain(chain, total)
  BY DEF IOver, OTypes, IsChain
<1>2. /\ chain' = Prune(chain, active) /\ free' = fr
      /\ leaked' = leaked \union (Gone \ Range(fr))
      /\ UNCHANGED <<total, pg, wal>> /\ G # {}
  <2>1. /\ chain' = Prune(chain, active) /\ free' = fr
        /\ leaked' = leaked \union (Gone \ Range(free'))
        /\ UNCHANGED <<total, pg, wal>> /\ G # {}
    BY DEF GcPrune
  <2> HIDE DEF Gone, fr
  <2> QED BY <2>1
<1>3. N > 1 /\ G = {i \in 1 .. N : ~ Survives(chain, i, active)}
  <2>1. DOMAIN chain = 1 .. N
    BY <1>1
  <2>2. ~ (N <= 1)
    BY <1>2 DEF Discarded
  <2> QED BY <1>1, <2>1, <2>2 DEF Discarded
<1>4. PutsBackAll(fr)
  BY <1>1, PruneFrees
<1>5. PICK ch : ch = chain'
  OBVIOUS
<1>6. PICK f : Selects(f, ch, chain, N, active)
  BY <1>1, <1>2, <1>3, <1>5, PruneSelects
<1>7. PICK R \in Nat : R = Len(ch)
  BY <1>6 DEF Selects
<1>8. /\ ch \in Seq(Version) /\ f \in [1 .. R -> 1 .. N]
      /\ \A j \in 1 .. R : ch[j] = chain[f[j]]
      /\ \A j, k \in 1 .. R : f[j] = f[k] => j = k
  BY <1>6, <1>7 DEF Selects
<1>9. \A i \in 1 .. N : i \notin G <=> \E j \in 1 .. R : f[j] = i
  BY <1>3, <1>6, <1>7 DEF Selects
<1>10. G \in SUBSET (1 .. N)
  BY <1>3
<1>11. \A i \in 1 .. N : Of[i] = PathPages(pg, chain[i])
  BY DEF Owned
<1>12. PICK Of2 : Of2 = Owned(pg, ch)
  OBVIOUS
<1>13. \A j \in 1 .. R : Of2[j] = Of[f[j]]
  <2>1. \A j \in 1 .. R : Of2[j] = PathPages(pg, ch[j])
    BY <1>7, <1>12 DEF Owned
  <2> HIDE DEF Of
  <2> QED BY <1>8, <1>11, <2>1
<1> DEFINE Log == LoggedIn(pg, wal)
           old == leaked \union Log
           new == leaked' \union Log
<1>14. Distinct(free) /\ OneOwner(free, old, N, Of, total) /\ old \subseteq 0 .. total - 1
  BY <1>1, LogInFile DEF PagesOwned
<1>15. /\ fr \in Seq(Nat) /\ Distinct(fr)
       /\ \A y : On(y, free) => On(y, fr)
       /\ \A y : On(y, fr) => On(y, free) \/ \E i \in G : y \in PathPages(pg, chain[i])
  BY <1>4 DEF PutsBackAll
<1> HIDE DEF N, G, fr, Of, Log
<1>16. \A y : y \in Range(fr) <=> On(y, fr)
  <2>1. DOMAIN fr = 1 .. Len(fr)
    BY <1>15
  <2> QED BY <2>1 DEF Range, On
<1>17. \A y : y \in new <=> y \in old \/ (~ On(y, fr) /\ \E i \in G : y \in Of[i])
  <2>1. \A y : y \in leaked' <=> \/ y \in leaked
                                 \/ y \notin Range(fr) /\ \E i \in G : y \in PathPages(pg, chain[i])
    <3>1. \A y : y \in Gone <=> \E i \in G : y \in PathPages(pg, chain[i])
      OBVIOUS
    <3> HIDE DEF Gone
    <3> QED BY <1>2, <3>1
  <2> QED BY <1>10, <1>11, <1>16, <2>1
<1>18. \A y : On(y, fr) => On(y, free) \/ \E i \in G : y \in Of[i]
  BY <1>10, <1>11, <1>15
<1>19. /\ new \subseteq 0 .. total - 1 /\ OneOwner(fr, new, R, Of2, total)
       /\ \A y : On(y, fr) => On(y, free) \/ y \in 0 .. total - 1
  <2>1. Drops(Of2, R, Of, N, G, f)
    BY <1>8, <1>9, <1>10, <1>13 DEF Drops
  <2>2. GivesBack(fr, new, free, old, Of, G)
    BY <1>15, <1>17, <1>18 DEF GivesBack
  <2> HIDE DEF old, new
  <2> QED BY <1>1, <1>14, <2>1, <2>2, OwnersAfterPrune
<1>20. PagesOwned'
  <2>1. PagesOwned' <=> Distinct(fr) /\ OneOwner(fr, new, R, Of2, total)
    BY <1>2, <1>5, <1>7, <1>12 DEF PagesOwned, Distinct, OneOwner, Owned, Log, LoggedIn, PathPages, IsLarge, Path
  <2> QED BY <1>15, <1>19, <2>1
<1>21. \A j \in 1 .. R : f[j] \in 1 .. N
  BY <1>8
<1>22. IsChain(ch, total)
  BY <1>1, <1>7, <1>8, <1>21 DEF IsChain, N
<1>23. OTypes'
  <2>1. \A i \in 1 .. Len(fr) : fr[i] < total
    <3> SUFFICES ASSUME NEW i \in 1 .. Len(fr) PROVE fr[i] < total
      OBVIOUS
    <3>1. On(fr[i], fr)
      BY DEF On
    <3>2. CASE On(fr[i], free)
      BY <1>1, <3>2 DEF On
    <3>3. CASE fr[i] \in 0 .. total - 1
      BY <1>1, <3>3
    <3> QED BY <1>19, <3>1, <3>2, <3>3
  <2>2. IsFile(pg, total) /\ IsChain(chain', total)
    BY <1>1, <1>5, <1>22
  <2>3. leaked' \subseteq 0 .. total - 1
    BY <1>19
  <2> QED BY <1>1, <1>2, <1>15, <2>1, <2>2, <2>3 DEF OTypes, IsFile, IsChain
<1>24. PathsCarry'
  <2>1. \A j \in 1 .. R : Carries(pg, ch[j])
    BY <1>1, <1>8, <1>21 DEF PathsCarry, N
  <2>2. PathsCarry' <=> \A j \in 1 .. R : Carries(pg, ch[j])
    BY <1>2, <1>5, <1>7 DEF PathsCarry, Carries, PathOf, Path, IsLarge
  <2> QED BY <2>1, <2>2
<1>25. IterTypes' /\ IterReads'
  <2>1. CASE iter.open /\ \E i \in G : IsLarge(chain[i])
    <3>1. iter' = [iter EXCEPT !.stale = TRUE]
      BY <2>1 DEF GcPrune, G
    <3>2. iter # NoIter
      BY <2>1 DEF NoIter
    <3>3. /\ iter \in IterFields /\ IsChain(iter.copy, total)
          /\ iter.slot <= Len(iter.copy) /\ iter.pid < total
      BY <1>1, <3>2 DEF IterTypes
    <3>4. /\ iter' \in IterFields /\ iter'.stale = TRUE
          /\ iter'.copy = iter.copy /\ iter'.slot = iter.slot /\ iter'.pid = iter.pid
      BY <3>1, <3>3 DEF IterFields
    <3>5. IterTypes'
      BY <1>2, <3>3, <3>4 DEF IterTypes, IsChain
    <3>6. IterReads'
      BY <3>4 DEF IterReads
    <3> QED BY <3>5, <3>6
  <2>2. CASE ~ iter.open
    <3>1. iter' = iter
      BY <2>2 DEF GcPrune
    <3>2. IterReads'
      BY <2>2, <3>1 DEF IterReads
    <3>3. IterTypes'
      BY <1>1, <1>2, <3>1 DEF IterTypes, IsChain
    <3> QED BY <3>2, <3>3
  <2>3. CASE ~ \E i \in G : IsLarge(chain[i])
    <3>1. iter' = iter
      BY <2>3 DEF GcPrune, G
    <3>2. ASSUME NEW i \in 1 .. N, IsLarge(chain[i])
          PROVE  /\ \E j \in 1 .. Len(chain') : chain'[j] = chain[i]
                 /\ PathOf(pg', chain[i]) = PathOf(pg, chain[i])
      <4>1. PICK j \in 1 .. R : f[j] = i
        BY <1>9, <2>3, <3>2
      <4> QED BY <1>2, <1>5, <1>7, <1>8, <4>1
    <3> QED BY <1>1, <1>2, <3>1, <3>2, IterKept DEF N
  <2> QED BY <2>1, <2>2, <2>3
<1>26. LogKept'
  <2>1. /\ IsChain(wal, total) /\ LogLarge(wal)
        /\ \A i \in 1 .. Len(wal) : Carries(pg, wal[i])
        /\ \A i \in 1 .. Len(wal) : PathPages(pg, wal[i]) \intersect leaked = {}
        /\ \A i, j \in 1 .. Len(wal) :
              i # j => PathPages(pg, wal[i]) \intersect PathPages(pg, wal[j]) = {}
    BY DEF IOver, LogKept
  <2>2. \A i \in 1 .. Len(wal) : PathPages(pg, wal[i]) \subseteq Log
    BY DEF LoggedIn, Log
  <2>3. \A k \in 1 .. N : Of[k] \intersect Log = {}
    BY <1>14 DEF OneOwner
  <2>4. \A y \in Gone : y \notin Log
    BY <1>10, <1>11, <2>3
  <2> HIDE DEF Gone
  <2>5. \A i \in 1 .. Len(wal) : PathPages(pg, wal[i]) \intersect leaked' = {}
    BY <1>2, <2>1, <2>2, <2>4
  <2>6. LogKept' <=> /\ IsChain(wal, total) /\ LogLarge(wal)
                     /\ \A i \in 1 .. Len(wal) : Carries(pg, wal[i])
                     /\ \A i \in 1 .. Len(wal) : PathPages(pg, wal[i]) \intersect leaked' = {}
                     /\ \A i, j \in 1 .. Len(wal) :
                          i # j => PathPages(pg, wal[i]) \intersect PathPages(pg, wal[j]) = {}
    BY <1>2 DEF LogKept, LogLarge, IsChain, Carries, PathOf, PathPages, IsLarge, Path
  <2> QED BY <2>1, <2>5, <2>6
<1> QED BY <1>20, <1>23, <1>24, <1>25, <1>26 DEF IOver

-----------------------------------------------------------------------------
(* Steps that read.                                                        *)

\* Steps that leave the pages and the chain alone.
LEMMA PagesKept ==
  ASSUME IOver, UNCHANGED <<total, free, pg, chain, wal, leaked>>, IterTypes', IterReads'
  PROVE  IOver'
<1>1. OTypes /\ PathsCarry /\ PagesOwned /\ LogKept
  BY DEF IOver
<1>2. OTypes'
  BY <1>1 DEF OTypes, IsFile, IsChain
<1>3. PathsCarry'
  <2>1. PathsCarry' <=> \A i \in 1 .. Len(chain) : Carries(pg, chain[i])
    BY DEF PathsCarry
  <2> QED BY <1>1, <2>1 DEF PathsCarry
<1>4. PagesOwned'
  <2>1. PagesOwned' <=> /\ Distinct(free)
                        /\ OneOwner(free, leaked \union LoggedIn(pg, wal), Len(chain),
                                    Owned(pg, chain), total)
    BY DEF PagesOwned
  <2> QED BY <1>1, <2>1 DEF PagesOwned
<1>5. LogKept'
  <2>1. LogKept' <=> LogKept
    BY DEF LogKept, LogLarge, IsChain
  <2> QED BY <1>1, <2>1
<1> QED BY <1>2, <1>3, <1>4, <1>5 DEF IOver

\* Steps of a transaction that write nothing.
LEMMA QuietStep ==
  ASSUME IOver, UNCHANGED <<total, free, pg, chain, wal, iter, leaked>>
  PROVE  IOver'
<1>1. OTypes /\ IterTypes /\ IterReads /\ total \in Nat
  BY DEF IOver, OTypes
<1>2. IterTypes' /\ IterReads'
  BY <1>1, IterKept
<1> QED BY <1>2, PagesKept

\* garry_version_iter_open.
LEMMA OpenStep ==
  ASSUME IOver, IterOpen
  PROVE  IOver'
<1>1. total \in Nat /\ IsChain(chain, total) /\ chain \in Seq(Version) /\ Len(chain) \in Nat
  BY DEF IOver, OTypes, IsChain
<1>2. /\ UNCHANGED <<total, free, pg, chain, wal, leaked>>
      /\ iter' = [open |-> TRUE, copy |-> chain, slot |-> Len(chain), pid |-> NoPage,
                  got |-> <<>>, out |-> <<>>, stale |-> FALSE, failed |-> FALSE]
  BY DEF IterOpen
<1>3. << >> \in Seq(Datum) /\ << >> \in Seq(Seq(Datum)) /\ NoPage \in Ptr /\ NoPage < total
  BY <1>1 DEF Ptr, NoPage
<1>4. /\ iter' \in IterFields /\ iter'.copy = chain /\ iter'.slot = Len(chain)
      /\ iter'.pid = NoPage /\ iter'.got = << >> /\ iter'.out = << >>
  BY <1>1, <1>2, <1>3 DEF IterFields
<1>5. IterTypes'
  BY <1>1, <1>2, <1>3, <1>4 DEF IterTypes, IsChain
<1>6. CopyKept' /\ Reading' /\ Returned'
  <2>1. CopyKept'
    BY <1>2, <1>4 DEF CopyKept
  <2>2. Reading'
    BY <1>4 DEF Reading
  <2>3. Returned'
    <3>1. Len(iter'.out) = 0
      BY <1>4
    <3> QED BY <1>1, <1>4, <3>1 DEF Returned
  <2> QED BY <2>1, <2>2, <2>3
<1>7. IterReads'
  BY <1>6 DEF IterReads
<1> QED BY <1>2, <1>5, <1>7, PagesKept

\* garry_version_iter_close.
LEMMA CloseStep ==
  ASSUME IOver, IterClose
  PROVE  IOver'
<1>1. UNCHANGED <<total, free, pg, chain, wal, leaked>> /\ iter' = NoIter
  BY DEF IterClose
<1>2. IterTypes' /\ IterReads'
  BY <1>1 DEF IterTypes, IterReads, NoIter
<1> QED BY <1>1, <1>2, PagesKept

\* The state of an iterator that is running.
LEMMA Running ==
  ASSUME IOver, IterRunning
  PROVE  /\ iter \in IterFields /\ IsChain(iter.copy, total) /\ iter.copy \in Seq(Version)
         /\ iter.slot \in 1 .. Len(iter.copy) /\ Len(iter.copy) \in Nat /\ iter.slot \in Nat
         /\ iter.pid \in Ptr /\ iter.pid < total
         /\ iter.got \in Seq(Datum) /\ iter.out \in Seq(Seq(Datum)) /\ iter.open
         /\ total \in Nat /\ IsFile(pg, total)
         /\ iter.copy[iter.slot] \in Version /\ iter.copy[iter.slot].head < total
<1>1. iter.open /\ iter.slot > 0
  BY DEF IterRunning
<1>2. iter # NoIter
  BY <1>1 DEF NoIter
<1>3. /\ iter \in IterFields /\ IsChain(iter.copy, total)
      /\ iter.slot <= Len(iter.copy) /\ iter.pid < total
  BY <1>2 DEF IOver, IterTypes
<1>4. /\ iter.copy \in Seq(Version) /\ iter.slot \in Nat /\ iter.pid \in Ptr
      /\ iter.got \in Seq(Datum) /\ iter.out \in Seq(Seq(Datum))
  BY <1>3 DEF IterFields
<1>5. iter.slot \in 1 .. Len(iter.copy) /\ Len(iter.copy) \in Nat
  BY <1>1, <1>3, <1>4
<1>6. total \in Nat /\ IsFile(pg, total)
  BY DEF IOver, OTypes
<1>7. iter.copy[iter.slot] \in Version /\ iter.copy[iter.slot].head < total
  BY <1>3, <1>4, <1>5 DEF IsChain
<1> QED BY <1>1, <1>3, <1>4, <1>5, <1>6, <1>7

\* One value more has been returned, and it is the right one.
LEMMA ReturnedMore ==
  ASSUME IOver, IterRunning, Returned, NEW d \in Seq(Datum),
         IsLarge(iter.copy[iter.slot]) => d = Whole(iter.copy[iter.slot].val),
         iter'.copy = iter.copy, iter'.out = Append(iter.out, d), iter'.slot = iter.slot - 1
  PROVE  Returned'
<1> DEFINE c == iter.copy
           s == iter.slot
           o == iter.out
           L == Len(c)
           K == Len(o)
<1>1. s \in 1 .. L /\ L \in Nat /\ o \in Seq(Seq(Datum)) /\ K \in Nat
  BY Running
<1>2. /\ K = L - s
      /\ \A n \in 1 .. K : IsLarge(c[L + 1 - n]) => o[n] = Whole(c[L + 1 - n].val)
  BY DEF Returned, SlotOf
<1>3. PICK q : q = Append(o, d)
  OBVIOUS
<1>4. Len(q) = K + 1 /\ q[K + 1] = d /\ \A n \in 1 .. K : q[n] = o[n]
  BY <1>1, <1>3
<1>5. iter'.copy = c /\ iter'.out = q /\ iter'.slot = s - 1
  BY <1>3
<1>6. IsLarge(c[s]) => d = Whole(c[s].val)
  OBVIOUS
<1> HIDE DEF c, s, o, K, L
<1>7. ASSUME NEW n \in 1 .. K + 1, IsLarge(c[L + 1 - n]) PROVE q[n] = Whole(c[L + 1 - n].val)
  <2>1. CASE n = K + 1
    <3>1. L + 1 - n = s
      BY <1>1, <1>2, <2>1
    <3> QED BY <1>4, <1>6, <1>7, <2>1, <3>1
  <2>2. CASE n # K + 1
    <3>1. n \in 1 .. K
      BY <1>1, <2>2
    <3> QED BY <1>2, <1>4, <1>7, <3>1
  <2> QED BY <2>1, <2>2
<1>8. Len(q) = L - (s - 1)
  BY <1>1, <1>2, <1>4
<1>9. Len(iter'.copy) = L /\ Len(iter'.out) = K + 1
  BY <1>4, <1>5 DEF L
<1>10. Len(iter'.out) = Len(iter'.copy) - iter'.slot
  BY <1>4, <1>5, <1>8, <1>9
<1>11. \A n \in 1 .. Len(iter'.out) :
          IsLarge(iter'.copy[Len(iter'.copy) + 1 - n])
             => iter'.out[n] = Whole(iter'.copy[Len(iter'.copy) + 1 - n].val)
  BY <1>5, <1>7, <1>9
<1> QED BY <1>10, <1>11 DEF Returned, SlotOf

\* garry_version_iter_next on an inline value or a tombstone.
LEMMA SmallStep ==
  ASSUME IOver, IterInline
  PROVE  IOver'
<1>1. /\ UNCHANGED <<total, free, pg, chain, wal, leaked>> /\ IterRunning
      /\ ~ IsLarge(iter.copy[iter.slot])
      /\ iter' = [iter EXCEPT !.out = Append(@, <<>>), !.slot = @ - 1]
  BY DEF IterInline
<1>2. /\ iter \in IterFields /\ IsChain(iter.copy, total) /\ iter.slot \in 1 .. Len(iter.copy)
      /\ Len(iter.copy) \in Nat /\ iter.pid < total /\ iter.out \in Seq(Seq(Datum)) /\ iter.open
  BY <1>1, Running
<1>3. iter.slot - 1 \in Nat /\ iter.slot - 1 <= Len(iter.copy)
  BY <1>2
<1>4. << >> \in Seq(Datum) /\ Append(iter.out, << >>) \in Seq(Seq(Datum))
  BY <1>2
<1>5. /\ iter' \in IterFields /\ iter'.copy = iter.copy /\ iter'.slot = iter.slot - 1
      /\ iter'.pid = iter.pid /\ iter'.got = iter.got /\ iter'.out = Append(iter.out, << >>)
      /\ iter'.stale = iter.stale
  BY <1>1, <1>2, <1>3, <1>4 DEF IterFields
<1>6. IterTypes'
  BY <1>1, <1>2, <1>3, <1>5 DEF IterTypes, IsChain
<1>7. ASSUME ~ iter.stale PROVE CopyKept' /\ Reading' /\ Returned'
  <2>1. CopyKept /\ Reading /\ Returned
    BY <1>2, <1>7 DEF IOver, IterReads
  <2>2. CopyKept'
    BY <1>1, <1>5, <2>1 DEF CopyKept, IsLarge
  <2>3. iter.got = << >>
    BY <1>1, <2>1 DEF Reading
  <2>4. Reading'
    BY <1>5, <2>3 DEF Reading
  <2>5. Returned'
    BY <1>1, <1>4, <1>5, <2>1, ReturnedMore
  <2> QED BY <2>2, <2>4, <2>5
<1>8. IterReads'
  BY <1>5, <1>7 DEF IterReads
<1> QED BY <1>1, <1>6, <1>8, PagesKept

\* The page an iterator reads next.
NextPage == IF iter.got = << >> THEN iter.copy[iter.slot].head ELSE iter.pid

\* It is the next one on the path of the version, and has its next chunk.
LEMMA OnThePath ==
  ASSUME IOver, IterRunning, IsLarge(iter.copy[iter.slot]), CopyKept, Reading
  PROVE  LET e == iter.copy[iter.slot]
             k == Len(iter.got) + 1
         IN  /\ k \in 1 .. Chunks[e.val] /\ NextPage = PathOf(pg, e)[k]
             /\ \A j \in 1 .. Len(iter.got) : iter.got[j] = <<e.val, j>>
             /\ NextPage # NoPage => pg[NextPage].data = <<e.val, k>>
             /\ NextPage # NoPage /\ k # Chunks[e.val] => pg[NextPage].next = PathOf(pg, e)[k + 1]
<1>1. PICK e \in Version : e = iter.copy[iter.slot]
  BY Running
<1>2. PICK k : k = Len(iter.got) + 1
  OBVIOUS
<1>3. /\ iter.got \in Seq(Datum) /\ Len(iter.got) \in Nat /\ e.head < total /\ total \in Nat
      /\ IsFile(pg, total) /\ iter.slot \in 1 .. Len(iter.copy) /\ IsLarge(e)
  BY <1>1, Running
<1>4. e.val \in Values /\ Chunks[e.val] \in Nat /\ Chunks[e.val] > 0 /\ e.head \in Ptr
  BY <1>3, LargeChunks DEF Version
<1>5. Follows(PathOf(pg, e), pg, e.head, Chunks[e.val], total)
  BY <1>3, <1>4, PathUnfold DEF PathOf
<1>6. Carries(pg, e)
  <2>1. PICK i \in 1 .. Len(chain) : chain[i] = e
    BY <1>1, <1>3 DEF CopyKept
  <2> QED BY <2>1 DEF IOver, PathsCarry
<1>7. /\ k \in 1 .. Chunks[e.val] /\ NextPage = PathOf(pg, e)[k]
      /\ \A j \in 1 .. Len(iter.got) : iter.got[j] = <<e.val, j>>
  <2>1. CASE iter.got = << >>
    <3>1. Len(iter.got) = 0 /\ k = 1 /\ k \in 1 .. Chunks[e.val]
      BY <1>2, <1>4, <2>1
    <3>2. PathOf(pg, e)[1] = e.head
      BY <1>4, <1>5 DEF Follows
    <3> QED BY <1>1, <2>1, <3>1, <3>2 DEF NextPage
  <2>2. CASE iter.got # << >>
    <3>1. /\ Len(iter.got) < Chunks[e.val]
          /\ \A j \in 1 .. Len(iter.got) : iter.got[j] = <<e.val, j>>
          /\ iter.pid = PathOf(pg, e)[k]
      BY <1>1, <1>2, <2>2 DEF Reading
    <3>2. k \in 1 .. Chunks[e.val]
      BY <1>2, <1>3, <1>4, <3>1
    <3> QED BY <2>2, <3>1, <3>2 DEF NextPage
  <2> QED BY <2>1, <2>2
<1>8. NextPage # NoPage => pg[NextPage].data = <<e.val, k>>
  BY <1>3, <1>6, <1>7 DEF Carries
<1>9. NextPage # NoPage /\ k # Chunks[e.val] => pg[NextPage].next = PathOf(pg, e)[k + 1]
  <2>1. k # Chunks[e.val] => k < Chunks[e.val]
    BY <1>4, <1>7
  <2> QED BY <1>5, <1>7, <2>1 DEF Follows
<1> QED BY <1>1, <1>2, <1>7, <1>8, <1>9

\* One page of garry_overflow_read for an iterator.
LEMMA PageStep ==
  ASSUME IOver, IterPage
  PROVE  IOver'
<1> DEFINE e == iter.copy[iter.slot]
           g == Append(iter.got, pg[NextPage].data)
<1>1. /\ UNCHANGED <<total, free, pg, chain, wal, leaked>> /\ IterRunning /\ IsLarge(e)
      /\ iter' = IF NextPage = NoPage THEN [iter EXCEPT !.failed = TRUE]
                 ELSE IF Len(g) = Chunks[e.val]
                 THEN [iter EXCEPT !.out = Append(@, g), !.got = << >>,
                                   !.pid = NoPage, !.slot = @ - 1]
                 ELSE [iter EXCEPT !.got = g, !.pid = pg[NextPage].next]
  BY DEF IterPage, NextPage
<1>2. /\ iter \in IterFields /\ IsChain(iter.copy, total) /\ iter.slot \in 1 .. Len(iter.copy)
      /\ Len(iter.copy) \in Nat /\ iter.pid < total /\ iter.out \in Seq(Seq(Datum)) /\ iter.open
      /\ iter.got \in Seq(Datum) /\ iter.pid \in Ptr /\ total \in Nat /\ IsFile(pg, total)
      /\ e \in Version /\ e.head < total
  BY <1>1, Running
<1>3. e.val \in Values /\ Chunks[e.val] \in Nat /\ Chunks[e.val] > 0 /\ e.head \in Ptr
  BY <1>1, <1>2, LargeChunks DEF Version
<1>4. ~ iter.stale => CopyKept /\ Reading /\ Returned
  BY <1>2 DEF IOver, IterReads
<1>5. CASE NextPage = NoPage
  <2>1. iter' = [iter EXCEPT !.failed = TRUE]
    BY <1>1, <1>5
  <2>2. /\ iter' \in IterFields /\ iter'.copy = iter.copy /\ iter'.slot = iter.slot
        /\ iter'.pid = iter.pid /\ iter'.got = iter.got /\ iter'.out = iter.out
        /\ iter'.stale = iter.stale
    BY <1>2, <2>1 DEF IterFields
  <2>3. IterTypes'
    BY <1>1, <1>2, <2>2 DEF IterTypes, IsChain
  <2>4. ASSUME ~ iter.stale PROVE CopyKept' /\ Reading' /\ Returned'
    <3>1. CopyKept'
      BY <1>1, <1>4, <2>2, <2>4 DEF CopyKept
    <3>2. Reading'
      BY <1>1, <1>4, <2>2, <2>4 DEF Reading
    <3>3. Returned'
      BY <1>4, <2>2, <2>4 DEF Returned, SlotOf
    <3> QED BY <3>1, <3>2, <3>3
  <2>5. IterReads'
    BY <2>2, <2>4 DEF IterReads
  <2> QED BY <1>1, <2>3, <2>5, PagesKept
<1>6. ASSUME NextPage # NoPage
      PROVE  /\ g \in Seq(Datum) /\ Len(g) = Len(iter.got) + 1 /\ Len(iter.got) \in Nat
             /\ \A j \in 1 .. Len(iter.got) : g[j] = iter.got[j]
             /\ g[Len(iter.got) + 1] = pg[NextPage].data
             /\ pg[NextPage].next \in Ptr /\ pg[NextPage].next < total
  <2>1. NextPage \in Ptr /\ NextPage < total
    BY <1>2, <1>3 DEF NextPage
  <2>2. NextPage \in 0 .. total - 1
    BY <1>2, <1>6, <2>1 DEF Ptr
  <2>3. pg[NextPage] \in PageType /\ pg[NextPage].next < total
    BY <1>2, <2>2 DEF IsFile
  <2>4. pg[NextPage].data \in Datum /\ pg[NextPage].next \in Ptr
    BY <2>3 DEF PageType
  <2> HIDE DEF e
  <2> QED BY <1>2, <2>3, <2>4
<1>7. ASSUME NextPage # NoPage, ~ iter.stale
      PROVE  \A j \in 1 .. Len(g) : g[j] = <<e.val, j>>
  <2>1. /\ \A j \in 1 .. Len(iter.got) : iter.got[j] = <<e.val, j>>
        /\ pg[NextPage].data = <<e.val, Len(iter.got) + 1>>
    BY <1>1, <1>4, <1>7, OnThePath
  <2> HIDE DEF g, e
  <2>2. ASSUME NEW j \in 1 .. Len(g) PROVE j = Len(iter.got) + 1 \/ j \in 1 .. Len(iter.got)
    BY <1>6, <1>7
  <2> QED BY <1>6, <1>7, <2>1, <2>2
<1>8. CASE NextPage # NoPage /\ Len(g) = Chunks[e.val]
  <2>1. iter' = [iter EXCEPT !.out = Append(@, g), !.got = << >>, !.pid = NoPage, !.slot = @ - 1]
    BY <1>1, <1>8
  <2>2. g \in Seq(Datum)
    BY <1>6, <1>8
  <2>3. PICK d \in Seq(Datum) : d = g
    BY <2>2
  <2>4. /\ iter.slot - 1 \in Nat /\ iter.slot - 1 <= Len(iter.copy) /\ << >> \in Seq(Datum)
        /\ Append(iter.out, d) \in Seq(Seq(Datum)) /\ NoPage \in Ptr /\ NoPage < total
    BY <1>2 DEF Ptr, NoPage
  <2>5. ASSUME ~ iter.stale PROVE d = Whole(e.val)
    <3>1. Len(d) = Chunks[e.val] /\ \A j \in 1 .. Chunks[e.val] : d[j] = <<e.val, j>>
      BY <1>7, <1>8, <2>3, <2>5
    <3>2. d = [j \in 1 .. Chunks[e.val] |-> d[j]]
      BY <3>1
    <3> HIDE DEF e
    <3> QED BY <3>1, <3>2 DEF Whole
  <2> HIDE DEF g
  <2>6. /\ iter' \in IterFields /\ iter'.copy = iter.copy /\ iter'.slot = iter.slot - 1
        /\ iter'.pid = NoPage /\ iter'.got = << >> /\ iter'.out = Append(iter.out, d)
        /\ iter'.stale = iter.stale
    BY <1>2, <2>1, <2>3, <2>4 DEF IterFields
  <2>7. IterTypes'
    BY <1>1, <1>2, <2>4, <2>6 DEF IterTypes, IsChain
  <2>8. ASSUME ~ iter.stale PROVE CopyKept' /\ Reading' /\ Returned'
    <3>1. CopyKept'
      BY <1>1, <1>4, <2>6, <2>8 DEF CopyKept
    <3>2. Reading'
      BY <2>6 DEF Reading
    <3>3. Returned'
      BY <1>1, <1>4, <2>5, <2>6, <2>8, ReturnedMore
    <3> QED BY <3>1, <3>2, <3>3
  <2>9. IterReads'
    BY <2>6, <2>8 DEF IterReads
  <2> QED BY <1>1, <2>7, <2>9, PagesKept
<1>9. CASE NextPage # NoPage /\ Len(g) # Chunks[e.val]
  <2>1. iter' = [iter EXCEPT !.got = g, !.pid = pg[NextPage].next]
    BY <1>1, <1>9
  <2>2. PICK d \in Seq(Datum) : d = g
    BY <1>6, <1>9
  <2>3. PICK p \in Ptr : p = pg[NextPage].next /\ p < total
    BY <1>6, <1>9
  <2>4. ASSUME ~ iter.stale
        PROVE  /\ Len(d) < Chunks[e.val] /\ p = PathOf(pg, e)[Len(d) + 1]
               /\ \A j \in 1 .. Len(d) : d[j] = <<e.val, j>>
    <3>1. Len(d) = Len(iter.got) + 1 /\ Len(d) # Chunks[e.val]
      BY <1>6, <1>9, <2>2
    <3>2. Len(d) \in 1 .. Chunks[e.val] /\ pg[NextPage].next = PathOf(pg, e)[Len(d) + 1]
      BY <1>1, <1>4, <1>9, <2>4, <3>1, OnThePath
    <3> QED BY <1>3, <1>7, <1>9, <2>2, <2>3, <2>4, <3>1, <3>2
  <2>5. iter' = [iter EXCEPT !.got = d, !.pid = p]
    BY <2>1, <2>2, <2>3
  <2> HIDE DEF g
  <2>6. /\ iter' \in IterFields /\ iter'.copy = iter.copy /\ iter'.slot = iter.slot
        /\ iter'.pid = p /\ iter'.got = d /\ iter'.out = iter.out
        /\ iter'.stale = iter.stale
    BY <1>2, <2>5 DEF IterFields
  <2>7. IterTypes'
    BY <1>1, <1>2, <2>3, <2>6 DEF IterTypes, IsChain
  <2>8. ASSUME ~ iter.stale PROVE CopyKept' /\ Reading' /\ Returned'
    <3>1. CopyKept'
      BY <1>1, <1>4, <2>6, <2>8 DEF CopyKept
    <3>2. Reading'
      <4>1. iter.slot > 0
        BY <1>2
      <4>2. /\ iter'.slot > 0 /\ iter'.copy[iter'.slot] = e /\ IsLarge(e)
            /\ Len(iter'.got) < Chunks[e.val]
            /\ \A j \in 1 .. Len(iter'.got) : iter'.got[j] = <<e.val, j>>
            /\ iter'.pid = PathOf(pg', e)[Len(iter'.got) + 1]
        BY <1>1, <2>4, <2>6, <2>8, <4>1
      <4> HIDE DEF e
      <4> QED BY <4>2 DEF Reading
    <3>3. Returned'
      BY <1>4, <2>6, <2>8 DEF Returned, SlotOf
    <3> QED BY <3>1, <3>2, <3>3
  <2>9. IterReads'
    BY <2>6, <2>8 DEF IterReads
  <2> QED BY <1>1, <2>7, <2>9, PagesKept
<1> QED BY <1>5, <1>8, <1>9

-----------------------------------------------------------------------------
(* The invariant holds.                                                    *)

\* Before the first write there are no pages.
LEMMA OverflowInit ==
  ASSUME OInit
  PROVE  IOver
<1>1. /\ total = 0 /\ free = << >> /\ pg = << >> /\ chain = << >> /\ leaked = {} /\ iter = NoIter
  BY DEF OInit
<1>2. IsFile(pg, 0)
  BY <1>1 DEF IsFile
<1>3. OTypes
  BY <1>1, <1>2 DEF OTypes, IsChain
<1>4. PathsCarry /\ PagesOwned /\ LogKept
  <2>1. wal = << >>
    BY DEF OInit
  <2> QED BY <1>1, <2>1 DEF PathsCarry, PagesOwned, LogKept, LogLarge, LoggedIn, IsChain, Distinct, OneOwner
<1>5. IterTypes /\ IterReads
  BY <1>1 DEF IterTypes, IterReads, NoIter
<1> QED BY <1>3, <1>4, <1>5 DEF IOver

\* Every step of a set, a delete, the collector, an iterator or a transaction
\* keeps the invariant.
LEMMA OverflowStep ==
  ASSUME IOver, [ONext]_vars
  PROVE  IOver'
<1>1. CASE Begin
  BY <1>1, QuietStep DEF Begin
<1>2. ASSUME NEW t \in Txns, Commit(t) PROVE IOver'
  BY <1>2, QuietStep DEF Commit
<1>3. ASSUME NEW t \in Txns, Rollback(t) PROVE IOver'
  BY <1>3, QuietStep DEF Rollback
<1>4. ASSUME NEW t \in Txns, NEW v \in {Tombstone} \union {w \in Values : Chunks[w] = 0},
             SetInline(t, v)
      PROVE  IOver'
  BY <1>4, InlineStep
<1>5. ASSUME NEW t \in Txns, NEW v \in Values, NEW lost, SetLarge(t, v, lost) PROVE IOver'
  BY <1>5, LargeStep
<1>6. ASSUME NEW t \in Txns, NEW v \in Values, SetLargeFull(t, v) PROVE IOver'
  BY <1>6, FullStep
<1>7. ASSUME NEW t \in Txns, NEW v \in Values, NEW n \in 0 .. Chunks[v] - 1, NEW got \in {0, 1},
             SetLargeFails(t, v, n, got)
      PROVE  IOver'
  BY <1>7, FailStep
<1>8. ASSUME NEW t, NEW v, SetInlineFails(t, v) PROVE IOver'
  BY <1>8, QuietStep DEF SetInlineFails
<1>9. ASSUME NEW t \in Txns, NEW v \in Values, NEW lost, LogUpdate(t, v, lost) PROVE IOver'
  BY <1>9, LogStep
<1>10. ASSUME NEW t \in Txns, NEW v \in Values, NEW n \in 0 .. Chunks[LogForm[v]],
              NEW got \in {0, 1}, LogUpdateFails(t, v, n, got)
       PROVE  IOver'
  BY <1>10, LogFailStep
<1>11. ASSUME NEW pooled \in UNION {0 .. Chunks[v] : v \in Values}, GcPrune(pooled) PROVE IOver'
  <2>1. pooled \in Nat
    BY OverflowAssumption
  <2> QED BY <1>11, <2>1, PruneStep
<1>12. CASE IterOpen
  BY <1>12, OpenStep
<1>13. CASE IterInline
  BY <1>13, SmallStep
<1>14. CASE IterPage
  BY <1>14, PageStep
<1>15. CASE IterClose
  BY <1>15, CloseStep
<1>16. CASE UNCHANGED vars
  BY <1>16, QuietStep DEF vars
<1> QED BY <1>1, <1>2, <1>3, <1>4, <1>5, <1>6, <1>7, <1>11, <1>12, <1>13, <1>14, <1>15, <1>16,
          <1>8, <1>9, <1>10 DEF ONext

\* Where the pages are, what they carry and where an iterator is.
THEOREM OverflowInvariant == OSpec => []IOver
BY OverflowInit, OverflowStep, PTL DEF OSpec

-----------------------------------------------------------------------------
(* What follows from it.                                                   *)

\* A list without repetitions is as long as it has elements.
LEMMA DistinctLength ==
  ASSUME NEW s \in Seq(Nat), Distinct(s)
  PROVE  Len(s) = Cardinality(Range(s))
<1> DEFINE n == Len(s)
           S == Range(s)
<1>1. n \in Nat /\ DOMAIN s = 1 .. n /\ s \in [1 .. n -> Nat]
  OBVIOUS
<1>2. /\ s \in [1 .. n -> S] /\ \A y \in S : \E i \in 1 .. n : s[i] = y
      /\ \A i, j \in 1 .. n : s[i] = s[j] => i = j
  BY <1>1 DEF Range, Distinct
<1> HIDE DEF n, S
<1>3. s \in Bijection(1 .. n, S)
  BY <1>2 DEF Bijection, Injection, Surjection, IsInjective
<1>4. Cardinality(S) = n
  BY <1>1, <1>3, FS_CountingElements DEF ExistsBijection
<1> QED BY <1>4 DEF n, S

\* Every page has one owner: PagesAccounted of the state.
LEMMA AccountedIn ==
  ASSUME IOver
  PROVE  PagesAccounted
<1> DEFINE Of == Owned(pg, chain)
           n == Len(chain)
           Log == LoggedIn(pg, wal)
           away == leaked \union Log
<1>1. /\ total \in Nat /\ free \in Seq(Nat) /\ Distinct(free)
      /\ OneOwner(free, away, n, Of, total)
      /\ away \subseteq 0 .. total - 1 /\ chain \in Seq(Version) /\ wal \in Seq(Version)
      /\ \A i \in 1 .. Len(free) : free[i] < total
  BY LogInFile DEF IOver, OTypes, PagesOwned, IsChain, LogKept
<1>2. DOMAIN chain = 1 .. n /\ DOMAIN wal = 1 .. Len(wal)
  BY <1>1
<1>3. \A k \in 1 .. n : Of[k] = PathPages(pg, chain[k])
  BY DEF Owned
<1>4. \A y : y \in Range(free) <=> \E i \in 1 .. Len(free) : free[i] = y
  BY <1>1 DEF Range
<1>5. Logged = Log
  BY <1>2 DEF Logged, LoggedIn
<1> HIDE DEF Of
<1>6. \A y : y \in Reachable <=> \E k \in 1 .. n : y \in Of[k]
  BY <1>2, <1>3 DEF Reachable
<1> HIDE DEF n, Log
<1>7. Len(free) = Cardinality(Range(free))
  BY <1>1, DistinctLength
<1> HIDE DEF away
<1>8. /\ \A k \in 1 .. n : Of[k] \subseteq 0 .. total - 1 /\ Of[k] \intersect away = {}
      /\ \A y \in Range(free) : y \notin away /\ \A k \in 1 .. n : y \notin Of[k]
      /\ \A i, j \in 1 .. n : i # j => Of[i] \intersect Of[j] = {}
      /\ \A p \in 0 .. total - 1 : \/ p \in away \/ p \in Range(free)
                                  \/ \E k \in 1 .. n : p \in Of[k]
  <2>1. OneOwner(free, away, n, Of, total)
    BY <1>1
  <2>2. ASSUME NEW y \in Range(free)
        PROVE  y \notin away /\ \A k \in 1 .. n : y \notin Of[k]
    <3>1. PICK i \in 1 .. Len(free) : free[i] = y
      BY <1>4
    <3> QED BY <2>1, <3>1 DEF OneOwner
  <2>3. ASSUME NEW p \in 0 .. total - 1
        PROVE  p \in away \/ p \in Range(free) \/ \E k \in 1 .. n : p \in Of[k]
    BY <1>4, <2>1 DEF OneOwner
  <2>4. /\ \A k \in 1 .. n : Of[k] \subseteq 0 .. total - 1 /\ Of[k] \intersect away = {}
        /\ \A i, j \in 1 .. n : i # j => Of[i] \intersect Of[j] = {}
    BY <2>1 DEF OneOwner
  <2> QED BY <2>2, <2>3, <2>4
<1> USE DEF away
<1>9. Range(free) \intersect (Reachable \union Logged) = {} /\ Reachable \intersect Logged = {}
  BY <1>5, <1>6, <1>8
<1>10. /\ Log \intersect leaked = {}
       /\ \A i, j \in DOMAIN wal :
             i # j => PathPages(pg, wal[i]) \intersect PathPages(pg, wal[j]) = {}
  BY <1>2 DEF IOver, LogKept, LoggedIn, Log
<1>11. leaked \intersect (Range(free) \union Reachable \union Logged) = {}
  BY <1>5, <1>6, <1>8, <1>10
<1>12. \A i, j \in DOMAIN chain :
         i # j => PathPages(pg, chain[i]) \intersect PathPages(pg, chain[j]) = {}
  BY <1>2, <1>3, <1>8
<1>13. 0 .. total - 1 = Range(free) \union Reachable \union Logged \union leaked
  <2>1. ASSUME NEW p \in 0 .. total - 1
        PROVE  p \in Range(free) \union Reachable \union Logged \union leaked
    BY <1>5, <1>6, <1>8
  <2>2. ASSUME NEW p \in Range(free) PROVE p \in 0 .. total - 1
    <3>1. PICK i \in 1 .. Len(free) : free[i] = p
      BY <1>4
    <3>2. p \in Nat /\ p < total
      BY <1>1, <3>1
    <3> QED BY <1>1, <3>2
  <2>3. ASSUME NEW p \in Reachable PROVE p \in 0 .. total - 1
    BY <1>6, <1>8
  <2> QED BY <1>1, <1>5, <2>1, <2>2, <2>3
<1> QED BY <1>7, <1>9, <1>10, <1>11, <1>12, <1>13 DEF PagesAccounted

\* What garry_overflow_read gives for a version or a log record.
LEMMA ReadGives ==
  ASSUME NEW e, IsLarge(e), Carries(pg, e)
  PROVE  /\ ~ e.cut => OverflowRead(pg, e).ok
         /\ OverflowRead(pg, e).ok => OverflowRead(pg, e).data = Whole(e.val)
<1>1. IsLarge(e) /\ Carries(pg, e)
  OBVIOUS
<1> DEFINE p == PathOf(pg, e)
           n == Chunks[e.val]
<1>2. /\ OverflowRead(pg, e).ok <=> \A j \in 1 .. n : p[j] # NoPage
      /\ OverflowRead(pg, e).ok => OverflowRead(pg, e).data = [j \in 1 .. n |-> pg[p[j]].data]
  BY DEF OverflowRead, PathOf
<1>3. \A j \in 1 .. n : /\ p[j] # NoPage => pg[p[j]].data = <<e.val, j>>
                        /\ ~ e.cut => p[j] # NoPage
  BY <1>1 DEF Carries
<1>4. Whole(e.val) = [j \in 1 .. n |-> <<e.val, j>>]
  BY DEF Whole
<1> HIDE DEF p, n
<1>5. ~ e.cut => OverflowRead(pg, e).ok
  BY <1>2, <1>3
<1>6. OverflowRead(pg, e).ok => OverflowRead(pg, e).data = Whole(e.val)
  BY <1>2, <1>3, <1>4
<1> QED BY <1>5, <1>6

\* The newest of some slots of the chain is one of them, and the last.
LEMMA NewestIs ==
  ASSUME IOver, NEW S, S \subseteq 1 .. Len(chain), S # {}
  PROVE  Newest(S) \in S /\ \A j \in S : j <= Newest(S)
<1>1. Len(chain) \in Nat
  BY DEF IOver, OTypes, IsChain
<1>2. S \in SUBSET Nat /\ \A x \in S : x <= Len(chain)
  BY <1>1
<1>3. \E x \in S : \A y \in S : y <= x
  BY <1>1, <1>2, GreatestNat
<1> QED BY <1>3 DEF Newest

Readable(i, unread) ==
  ~ IsLarge(chain[i]) \/ (i \notin unread /\ OverflowRead(pg, chain[i]).ok)

ReadSlots(t, unread) == {i \in VisibleAt(chain, t, active) : Readable(i, unread)}

\* What a get gives.
LEMMA FindGives ==
  ASSUME IOver, NEW t, NEW unread
  PROVE  LET S == ReadSlots(t, unread)
             e == chain[Newest(S)]
             r == FindLarge(t, unread)
         IN  /\ S = {} \/ e.val = Tombstone => r.val = NotFound
             /\ S # {} /\ e.val # Tombstone =>
                  /\ r.val = e.val
                  /\ IsLarge(e) => r.data = OverflowRead(pg, e).data
                  /\ ~ IsLarge(e) => r.data = << >>
<1> DEFINE S == ReadSlots(t, unread)
           e == chain[Newest(S)]
<1>1. FindLarge(t, unread) =
        IF S = {} \/ e.val = Tombstone THEN [val |-> NotFound, data |-> <<>>]
        ELSE [val |-> e.val, data |-> IF IsLarge(e) THEN OverflowRead(pg, e).data ELSE <<>>]
  BY DEF FindLarge, ReadSlots, Readable
<1> QED BY <1>1

\* NoTornRead of the state.
LEMMA WholeIn ==
  ASSUME IOver
  PROVE  NoTornRead
<1> SUFFICES ASSUME NEW t, NEW unread, FindLarge(t, unread).val # NotFound
             PROVE  /\ FindLarge(t, unread).data = Whole(FindLarge(t, unread).val)
                    /\ \E i \in VisibleAt(chain, t, active) : chain[i].val = FindLarge(t, unread).val
  BY DEF NoTornRead
<1> DEFINE S == ReadSlots(t, unread)
<1>1. PICK r : r = FindLarge(t, unread)
  OBVIOUS
<1>2. PICK k : k = Newest(S)
  OBVIOUS
<1>3. /\ S # {} /\ chain[k].val # Tombstone /\ r.val = chain[k].val
      /\ IsLarge(chain[k]) => r.data = OverflowRead(pg, chain[k]).data
      /\ ~ IsLarge(chain[k]) => r.data = << >>
  BY <1>1, <1>2, FindGives
<1>4. S \subseteq 1 .. Len(chain) /\ S \subseteq VisibleAt(chain, t, active)
  BY DEF ReadSlots, VisibleAt
<1>5. k \in S /\ k \in 1 .. Len(chain) /\ k \in VisibleAt(chain, t, active)
  <2> HIDE DEF S
  <2> QED BY <1>2, <1>3, <1>4, NewestIs
<1>6. chain[k] \in Version /\ chain[k].val \in Values /\ Chunks[chain[k].val] \in Nat
  <2>1. chain[k] \in Version
    BY <1>5 DEF IOver, OTypes, IsChain
  <2> QED BY <1>3, <2>1, OverflowAssumption DEF Version
<1>7. CASE IsLarge(chain[k])
  <2>1. OverflowRead(pg, chain[k]).ok
    BY <1>5, <1>7 DEF ReadSlots, Readable
  <2>2. r.data = Whole(chain[k].val)
    <3>1. Carries(pg, chain[k])
      BY <1>5 DEF IOver, PathsCarry
    <3> QED BY <1>3, <1>7, <2>1, <3>1, ReadGives
  <2> QED BY <1>1, <1>3, <1>5, <2>2
<1>8. CASE ~ IsLarge(chain[k])
  <2>1. Chunks[chain[k].val] = 0
    BY <1>3, <1>6, <1>8 DEF IsLarge
  <2>2. Whole(chain[k].val) = << >>
    BY <2>1 DEF Whole
  <2> QED BY <1>1, <1>3, <1>5, <1>8, <2>2
<1> QED BY <1>7, <1>8

\* ReadsNewest of the state.
LEMMA NewestIn ==
  ASSUME IOver
  PROVE  ReadsNewest
<1> SUFFICES ASSUME NEW t, VisibleAt(chain, t, active) # {},
                    ~ chain[Newest(VisibleAt(chain, t, active))].cut
             PROVE  FindLarge(t, {}).val = FindVisible(chain, t, active)
  BY DEF ReadsNewest
<1> DEFINE S == VisibleAt(chain, t, active)
           Q == ReadSlots(t, {})
<1>1. PICK k : k = Newest(S)
  OBVIOUS
<1>2. S \subseteq 1 .. Len(chain) /\ Q \subseteq S /\ S # {}
  BY DEF ReadSlots, VisibleAt
<1>3. k \in S /\ k \in 1 .. Len(chain) /\ \A j \in S : j <= k
  <2> HIDE DEF S, Q
  <2> QED BY <1>1, <1>2, NewestIs
<1>4. k \in Q
  <2>1. ~ chain[k].cut
    BY <1>1
  <2>2. Readable(k, {})
    <3>1. Carries(pg, chain[k])
      BY <1>3 DEF IOver, PathsCarry
    <3> QED BY <2>1, <3>1, ReadGives DEF Readable
  <2> QED BY <1>3, <2>2 DEF ReadSlots
<1>5. PICK m : m = Newest(Q)
  OBVIOUS
<1> HIDE DEF S, Q
<1>6. m \in Q /\ \A j \in Q : j <= m
  BY <1>2, <1>4, <1>5, NewestIs
<1>7. m = k
  BY <1>2, <1>3, <1>4, <1>6
<1>8. /\ chain[k].val = Tombstone => FindLarge(t, {}).val = NotFound
      /\ chain[k].val # Tombstone => FindLarge(t, {}).val = chain[k].val
  BY <1>4, <1>5, <1>7, FindGives DEF Q
<1>9. FindVisible(chain, t, active) = IF chain[k].val = Tombstone THEN NotFound ELSE chain[k].val
  BY <1>1, <1>2 DEF FindVisible, S
<1> QED BY <1>8, <1>9

\* Every overflow page is on the free list once, in exactly one version, in
\* exactly one log record, or was lost by a write or a free that failed.
THEOREM OverflowPagesAccounted == OSpec => []PagesAccounted
BY OverflowInvariant, AccountedIn, PTL

\* Recovery can read the value of every log record none of whose links was lost.
THEOREM LogStaysReadable == OSpec => []LogRecordsWhole
<1>1. IOver => LogRecordsWhole
  <2> SUFFICES ASSUME IOver, NEW i \in DOMAIN wal, ~ wal[i].cut
               PROVE  OverflowRead(pg, wal[i]) = [ok |-> TRUE, data |-> Whole(wal[i].val)]
    BY DEF LogRecordsWhole
  <2>1. PICK e : e = wal[i]
    OBVIOUS
  <2>2. IsLarge(e) /\ Carries(pg, e) /\ ~ e.cut
    BY <2>1 DEF IOver, LogKept, LogLarge, IsChain
  <2>3. OverflowRead(pg, e) = [ok |-> OverflowRead(pg, e).ok, data |-> OverflowRead(pg, e).data]
    BY DEF OverflowRead
  <2>4. OverflowRead(pg, e).ok = TRUE /\ OverflowRead(pg, e).data = Whole(e.val)
    BY <2>2, ReadGives
  <2> QED BY <2>1, <2>3, <2>4
<1> QED BY <1>1, OverflowInvariant, PTL

\* A get returns all bytes of one visible version and no others, whichever
\* pages can be read.
THEOREM GetsAreWhole == OSpec => []NoTornRead
BY OverflowInvariant, WholeIn, PTL

\* A get of a version none of whose links was lost returns the newest visible
\* one.
THEOREM GetsReadNewest == OSpec => []ReadsNewest
BY OverflowInvariant, NewestIn, PTL

\* An iterator returns the values of the versions it copied, newest first,
\* unless a large version was discarded meanwhile.
THEOREM IteratorsAreWhole == OSpec => []IterWhole
<1>1. IOver => IterWhole
  <2> SUFFICES ASSUME IOver, iter.open, ~ iter.stale, NEW i \in DOMAIN iter.out,
                      IsLarge(iter.copy[Len(iter.copy) + 1 - i])
               PROVE  iter.out[i] = Whole(iter.copy[Len(iter.copy) + 1 - i].val)
    BY DEF IterWhole
  <2>1. iter # NoIter /\ Returned
    BY DEF NoIter, IOver, IterReads
  <2>2. iter.out \in Seq(Seq(Datum))
    BY <2>1 DEF IOver, IterTypes, IterFields
  <2>3. i \in 1 .. Len(iter.out)
    BY <2>2
  <2> QED BY <2>1, <2>3 DEF Returned, SlotOf
<1> QED BY <1>1, OverflowInvariant, PTL
=============================================================================
