--------------------------- MODULE KeyCodecProofs ---------------------------
(***************************************************************************)
(* Proofs about KeyCodec: the readers of hierarchical keys find what the   *)
(* builders wrote, byte prefixes are subtrees, separators and compressed   *)
(* keys keep the order and the bytes of the keys, and splitting and        *)
(* joining are inverse to each other, for every set of segments and        *)
(* integers, every depth and every number of keys.                         *)
(***************************************************************************)
EXTENDS KeyCodec, SequenceTheorems, WellFoundedInduction, TLAPS

\* Induction over the naturals for a set of numbers.
LEMMA NatSetInduction ==
  ASSUME NEW T, 0 \in T, \A n \in Nat : n \in T => n + 1 \in T
  PROVE  Nat \subseteq T
<1> DEFINE B == Nat \ T
<1> SUFFICES ASSUME B # {} PROVE FALSE
  OBVIOUS
<1>1. B \in SUBSET Nat
  OBVIOUS
<1>2. PICK x \in B : \A y \in B : ~ (<<y, x>> \in OpToRel(<, Nat))
  BY <1>1, NatLessThanWellFounded, WFMin
<1>3. x \in Nat /\ x # 0 /\ x - 1 \in Nat
  OBVIOUS
<1>4. \A y \in B : ~ (y < x)
  BY <1>2 DEF OpToRel
<1>5. x - 1 \in T
  BY <1>3, <1>4
<1> QED
  BY <1>3, <1>5

\* Two functions begin alike and go on alike,
Alike(f, g, N) ==
  f[0] = g[0] /\ \A n \in 1 .. N : f[n - 1] = g[n - 1] => f[n] = g[n]

\* so they have the same value at N.
LEMMA SameSteps ==
  ASSUME NEW N \in Nat, NEW f, NEW g, Alike(f, g, N)
  PROVE  f[N] = g[N]
<1> DEFINE T == {n \in Nat : n <= N => f[n] = g[n]}
<1>1. 0 \in T
  BY DEF Alike
<1>2. ASSUME NEW n \in Nat, n \in T PROVE n + 1 \in T
  <2> SUFFICES ASSUME n + 1 <= N PROVE f[n + 1] = g[n + 1]
    OBVIOUS
  <2>1. n + 1 \in 1 .. N /\ (n + 1) - 1 = n /\ n <= N
    OBVIOUS
  <2>2. f[n] = g[n]
    BY <1>2, <2>1
  <2> QED BY <2>1, <2>2 DEF Alike
<1>3. Nat \subseteq T
  <2> HIDE DEF T
  <2> QED BY <1>1, <1>2, NatSetInduction
<1> QED BY <1>3

-----------------------------------------------------------------------------
(* One subscript. *)

\* An octet as a number with bounds.
LEMMA OctetsAre == \A n : n \in Octets <=> n \in Nat /\ n < 256
BY DEF Octets

\* Concatenation: its type, its length and its two parts.
LEMMA Join ==
  ASSUME NEW a \in Seq(Octets), NEW b \in Seq(Octets), NEW m, m = Len(a), NEW n, n = Len(b)
  PROVE  /\ a \o b \in Seq(Octets) /\ Len(a \o b) = m + n
         /\ m \in Nat /\ n \in Nat
         /\ \A j \in 1 .. m : (a \o b)[j] = a[j]
         /\ \A j \in 1 .. n : (a \o b)[m + j] = b[j]
<1>1. m \in Nat /\ n \in Nat
  OBVIOUS
<1>2. ASSUME NEW j \in 1 .. m PROVE (a \o b)[j] = a[j]
  OBVIOUS
<1>3. ASSUME NEW j \in 1 .. n PROVE (a \o b)[m + j] = b[j]
  OBVIOUS
<1>4. a \o b \in Seq(Octets) /\ Len(a \o b) = m + n
  BY ConcatProperties
<1> QED BY <1>1, <1>2, <1>3, <1>4

\* The prefix of a length: one byte, or the marker and two bytes.
LEMMA PrefixShape ==
  ASSUME NEW n \in Nat, n < 65536
  PROVE  LET p == LengthPrefix(n) IN
         /\ p \in Seq(Octets) /\ Len(p) = LengthPrefixSize(n)
         /\ n < 128 => LengthPrefixSize(n) = 1 /\ p[1] = n
         /\ n >= 128 => LengthPrefixSize(n) = 3 /\ p[1] = 255 /\ p[2] * 256 + p[3] = n
<1> DEFINE p == LengthPrefix(n)
<1>1. CASE n < 128
  <2>1. p = <<n>> /\ LengthPrefixSize(n) = 1
    BY <1>1 DEF LengthPrefix, LengthPrefixSize, InlineMax
  <2>2. n \in Octets
    BY <1>1, OctetsAre
  <2>3. <<n>> \in Seq(Octets) /\ Len(<<n>>) = 1 /\ <<n>>[1] = n
    BY <2>2
  <2> QED BY <1>1, <2>1, <2>3
<1>2. CASE n >= 128
  <2> DEFINE a == (n \div 256) % 256
             b == n % 256
  <2>1. p = <<255, a, b>> /\ LengthPrefixSize(n) = 3
    BY <1>2 DEF LengthPrefix, LengthPrefixSize, InlineMax, LongMarker
  <2>2. a \in Nat /\ a < 256 /\ b \in Nat /\ b < 256 /\ a * 256 + b = n
    OBVIOUS
  <2> HIDE DEF a, b
  <2>3. 255 \in Octets /\ a \in Octets /\ b \in Octets
    BY <2>2, OctetsAre
  <2>4. <<255, a, b>> \in Seq(Octets)
    BY <2>3
  <2> QED BY <1>2, <2>1, <2>2, <2>4
<1> QED BY <1>1, <1>2

\* The subscript s and its prefix are the bytes o .. e - 1 of k.
SegmentAt(k, o, s, e) ==
  /\ s \in Seq(Octets) /\ Len(s) < 65536
  /\ e = o + LengthPrefixSize(Len(s)) + Len(s)
  /\ e <= Len(k)
  /\ \A j \in 1 .. LengthPrefixSize(Len(s)) : k[o + j] = LengthPrefix(Len(s))[j]
  /\ \A j \in 1 .. Len(s) : k[o + LengthPrefixSize(Len(s)) + j] = s[j]

\* What the readers make of a subscript.
LEMMA SegmentReads ==
  ASSUME NEW k \in Seq(Octets), NEW o \in Nat, NEW s, NEW e, SegmentAt(k, o, s, e)
  PROVE  /\ e \in Nat /\ o < e /\ o < Len(k) /\ e <= Len(k)
         /\ DecodeLengthPrefix(k, o) = Len(s)
         /\ Behind(k, o) = e
         /\ (IF ByteAt(k, o) = LongMarker THEN 3 ELSE 1) = LengthPrefixSize(Len(s))
         /\ Bytes(k, o + LengthPrefixSize(Len(s)), Len(s)) = s
<1> DEFINE n == Len(s)
           h == LengthPrefixSize(n)
           p == LengthPrefix(n)
<1>1. /\ s \in Seq(Octets) /\ n \in Nat /\ n < 65536 /\ e = o + h + n /\ e <= Len(k)
      /\ \A j \in 1 .. h : k[o + j] = p[j]
      /\ \A j \in 1 .. n : k[o + h + j] = s[j]
      /\ Len(k) \in Nat
  BY DEF SegmentAt
<1>2. /\ p \in Seq(Octets) /\ Len(p) = h
      /\ n < 128 => h = 1 /\ p[1] = n
      /\ n >= 128 => h = 3 /\ p[1] = 255 /\ p[2] * 256 + p[3] = n
  BY <1>1, PrefixShape
<1> HIDE DEF n, h, p
<1>3. h \in Nat /\ h >= 1
  BY <1>1, <1>2
<1>4. e \in Nat /\ o < e /\ o < Len(k)
  BY <1>1, <1>3
<1>5. DecodeLengthPrefix(k, o) = n /\ (IF ByteAt(k, o) = LongMarker THEN 3 ELSE 1) = h
  <2>1. CASE n < 128
    <3>1. h = 1 /\ k[o + 1] = n
      BY <1>1, <1>2, <2>1
    <3>2. ByteAt(k, o) = n
      BY <1>4, <3>1 DEF ByteAt
    <3> QED BY <1>1, <2>1, <3>1, <3>2 DEF DecodeLengthPrefix, LongMarker
  <2>2. CASE n >= 128
    <3>1. h = 3 /\ p[1] = 255 /\ p[2] * 256 + p[3] = n
      BY <1>2, <2>2
    <3>2. k[o + 1] = 255 /\ k[o + 2] = p[2] /\ k[o + 3] = p[3]
      BY <1>1, <3>1
    <3>3. o + 2 < Len(k)
      BY <1>1, <3>1
    <3>4. ByteAt(k, o) = 255 /\ ByteAt(k, o + 1) = p[2] /\ ByteAt(k, o + 2) = p[3]
      <4>1. o < Len(k) /\ o + 1 < Len(k) /\ (o + 1) + 1 = o + 2 /\ (o + 2) + 1 = o + 3
        BY <1>1, <3>3
      <4> QED BY <3>2, <3>3, <4>1 DEF ByteAt
    <3> QED BY <3>1, <3>4 DEF DecodeLengthPrefix, LongMarker
  <2> QED BY <1>1, <2>1, <2>2
<1>6. Behind(k, o) = e
  BY <1>1, <1>5 DEF Behind, h
<1>7. Bytes(k, o + h, n) = s
  <2>1. Least(o + h + n, Len(k)) = e
    BY <1>1, <1>3, <1>4 DEF Least
  <2>2. Bytes(k, o + h, n) = SubSeq(k, o + h + 1, e)
    BY <2>1 DEF Bytes
  <2> DEFINE q == SubSeq(k, o + h + 1, e)
  <2>3. q \in Seq(Octets) /\ Len(q) = n /\ \A j \in 1 .. n : q[j] = k[o + h + j]
    <3>1. q \in Seq(Octets)
      BY <1>1, <1>3, <1>4
    <3>2. Len(q) = n
      BY <1>1, <1>3, <1>4
    <3>3. ASSUME NEW j \in 1 .. n PROVE q[j] = k[o + h + j]
      <4>1. q[j] = k[(o + h + 1) + j - 1]
        BY <1>1, <1>3, <1>4
      <4>2. (o + h + 1) + j - 1 = o + h + j
        BY <1>3
      <4> QED BY <4>1, <4>2
    <3> QED BY <3>1, <3>2, <3>3
  <2> HIDE DEF q
  <2>4. q = s
    BY <1>1, <2>3, SeqEqual DEF n
  <2> QED BY <2>2, <2>4 DEF q
<1> QED BY <1>1, <1>4, <1>5, <1>6, <1>7 DEF n, h

\* The keys k and r have the same bytes o .. e - 1.
Agree(k, r, o, e) == \A j \in o + 1 .. e : k[j] = r[j]

\* A key that agrees with another one on a subscript of it has that subscript.
LEMMA SegmentCarries ==
  ASSUME NEW k \in Seq(Octets), NEW r \in Seq(Octets), NEW o \in Nat, NEW s, NEW e,
         SegmentAt(r, o, s, e), e <= Len(k), Agree(k, r, o, e)
  PROVE  SegmentAt(k, o, s, e)
<1> DEFINE n == Len(s)
           h == LengthPrefixSize(n)
           p == LengthPrefix(n)
<1>1. s \in Seq(Octets) /\ n \in Nat /\ n < 65536 /\ e = o + h + n
  BY DEF SegmentAt
<1>2. h \in {1, 3}
  BY <1>1 DEF LengthPrefixSize
<1>3. \A j \in 1 .. h : r[o + j] = p[j]
  BY DEF SegmentAt
<1>4. \A j \in 1 .. n : r[o + h + j] = s[j]
  BY DEF SegmentAt
<1> HIDE DEF n, h, p
<1>5. ASSUME NEW j \in 1 .. h PROVE k[o + j] = p[j]
  <2>1. o + j \in o + 1 .. e
    BY <1>1, <1>2
  <2>2. k[o + j] = r[o + j]
    BY <2>1 DEF Agree
  <2> QED BY <1>3, <2>2
<1>6. ASSUME NEW j \in 1 .. n PROVE k[o + h + j] = s[j]
  <2>1. o + h + j \in o + 1 .. e
    BY <1>1, <1>2
  <2>2. k[o + h + j] = r[o + h + j]
    BY <2>1 DEF Agree
  <2> QED BY <1>4, <2>2
<1>7. /\ \A j \in 1 .. h : k[o + j] = p[j]
      /\ \A j \in 1 .. n : k[o + h + j] = s[j]
  BY <1>5, <1>6
<1> QED BY <1>1, <1>7 DEF SegmentAt, n, h, p

\* And the other way round: where both have the subscript they agree.
LEMMA SegmentFixes ==
  ASSUME NEW k \in Seq(Octets), NEW r \in Seq(Octets), NEW o \in Nat, NEW s, NEW e, NEW f,
         SegmentAt(r, o, s, e), SegmentAt(k, o, s, f)
  PROVE  e = f /\ Agree(k, r, o, e)
<1> DEFINE n == Len(s)
           h == LengthPrefixSize(n)
           p == LengthPrefix(n)
<1>1. /\ n \in Nat /\ e = o + h + n /\ f = o + h + n
      /\ \A j \in 1 .. h : r[o + j] = p[j] /\ k[o + j] = p[j]
      /\ \A j \in 1 .. n : r[o + h + j] = s[j] /\ k[o + h + j] = s[j]
  BY DEF SegmentAt
<1>2. h \in {1, 3}
  BY <1>1 DEF LengthPrefixSize
<1> HIDE DEF n, h, p
<1>3. ASSUME NEW j \in o + 1 .. e PROVE k[j] = r[j]
  <2>1. CASE j <= o + h
    <3>1. j - o \in 1 .. h /\ o + (j - o) = j
      BY <1>1, <1>2, <2>1
    <3> QED BY <1>1, <3>1
  <2>2. CASE j > o + h
    <3>1. j - (o + h) \in 1 .. n /\ o + h + (j - (o + h)) = j
      BY <1>1, <1>2, <2>2
    <3> QED BY <1>1, <3>1
  <2> QED BY <1>1, <1>2, <2>1, <2>2
<1> QED BY <1>1, <1>3 DEF Agree

-----------------------------------------------------------------------------
(* A whole key. *)

\* The key k is made of the subscripts t, one behind the other; off[i] is the
\* offset behind the i-th.
Laid(k, t, off) ==
  /\ k \in Seq(Octets) /\ t \in Seq(Seq(Octets))
  /\ off \in [0 .. Len(t) -> Nat]
  /\ off[0] = 0 /\ off[Len(t)] = Len(k)
  /\ \A i \in 1 .. Len(t) : SegmentAt(k, off[i - 1], t[i], off[i])

\* The parts of Laid.
LEMMA LaidFacts ==
  ASSUME NEW k, NEW t, NEW off, Laid(k, t, off)
  PROVE  /\ k \in Seq(Octets) /\ Len(k) \in Nat
         /\ t \in Seq(Seq(Octets)) /\ Len(t) \in Nat
         /\ off[0] = 0 /\ off[Len(t)] = Len(k)
         /\ \A i \in 0 .. Len(t) : off[i] \in Nat /\ off[i] <= Len(k)
<1>1. /\ k \in Seq(Octets) /\ t \in Seq(Seq(Octets)) /\ off \in [0 .. Len(t) -> Nat]
      /\ off[0] = 0 /\ off[Len(t)] = Len(k)
  BY DEF Laid
<1>2. Len(k) \in Nat /\ Len(t) \in Nat
  BY <1>1
<1>3. ASSUME NEW i \in 0 .. Len(t) PROVE off[i] \in Nat /\ off[i] <= Len(k)
  <2>1. off[i] \in Nat
    BY <1>1
  <2>2. CASE i = 0
    BY <1>1, <1>2, <2>2
  <2>3. CASE i # 0
    <3>1. i \in 1 .. Len(t)
      BY <1>2, <2>3
    <3>2. SegmentAt(k, off[i - 1], t[i], off[i])
      BY <3>1 DEF Laid
    <3> QED BY <2>1, <3>2 DEF SegmentAt
  <2> QED BY <2>2, <2>3
<1> QED BY <1>1, <1>2, <1>3

\* One subscript of a key, as its readers see it.
LEMMA LaidSegment ==
  ASSUME NEW k, NEW t, NEW off, Laid(k, t, off), NEW i \in 1 .. Len(t)
  PROVE  /\ off[i - 1] \in Nat /\ off[i] \in Nat
         /\ off[i - 1] < off[i] /\ off[i - 1] < Len(k) /\ off[i] <= Len(k)
         /\ t[i] \in Seq(Octets) /\ Len(t[i]) \in Nat
         /\ off[i] = off[i - 1] + LengthPrefixSize(Len(t[i])) + Len(t[i])
         /\ SegmentAt(k, off[i - 1], t[i], off[i])
         /\ DecodeLengthPrefix(k, off[i - 1]) = Len(t[i])
         /\ Behind(k, off[i - 1]) = off[i]
         /\ (IF ByteAt(k, off[i - 1]) = LongMarker THEN 3 ELSE 1) = LengthPrefixSize(Len(t[i]))
         /\ Bytes(k, off[i - 1] + LengthPrefixSize(Len(t[i])), Len(t[i])) = t[i]
<1> DEFINE o == off[i - 1]
           e == off[i]
           s == t[i]
<1>1. k \in Seq(Octets) /\ SegmentAt(k, o, s, e)
  BY DEF Laid
<1>2. o \in Nat
  <2>1. i - 1 \in 0 .. Len(t)
    BY LaidFacts
  <2> QED BY <2>1, LaidFacts
<1>3. s \in Seq(Octets) /\ e = o + LengthPrefixSize(Len(s)) + Len(s) /\ Len(s) \in Nat
  BY <1>1 DEF SegmentAt
<1> HIDE DEF o, e, s
<1>4. /\ e \in Nat /\ o < e /\ o < Len(k) /\ e <= Len(k)
      /\ DecodeLengthPrefix(k, o) = Len(s)
      /\ Behind(k, o) = e
      /\ (IF ByteAt(k, o) = LongMarker THEN 3 ELSE 1) = LengthPrefixSize(Len(s))
      /\ Bytes(k, o + LengthPrefixSize(Len(s)), Len(s)) = s
  BY <1>1, <1>2, SegmentReads
<1> QED BY <1>1, <1>2, <1>3, <1>4 DEF o, e, s

\* A key has at least as many bytes as subscripts.
LEMMA LaidLonger ==
  ASSUME NEW k, NEW t, NEW off, Laid(k, t, off)
  PROVE  Len(t) <= Len(k)
<1> DEFINE T == {i \in Nat : i <= Len(t) => i <= off[i]}
<1>1. 0 \in T
  BY LaidFacts
<1>2. ASSUME NEW i \in Nat, i \in T PROVE i + 1 \in T
  <2> SUFFICES ASSUME i + 1 <= Len(t) PROVE i + 1 <= off[i + 1]
    OBVIOUS
  <2>1. Len(t) \in Nat
    BY LaidFacts
  <2>2. i + 1 \in 1 .. Len(t) /\ (i + 1) - 1 = i /\ i <= Len(t)
    BY <2>1
  <2>3. off[i] \in Nat /\ off[i + 1] \in Nat /\ off[i] < off[i + 1]
    BY <2>2, LaidSegment
  <2> QED BY <1>2, <2>2, <2>3
<1>3. Nat \subseteq T
  <2> HIDE DEF T
  <2> QED BY <1>1, <1>2, NatSetInduction
<1> QED BY <1>3, LaidFacts

-----------------------------------------------------------------------------
(* The readers of hierarchical.c. *)

\* get_subscript_offset finds every subscript, and nothing behind the last one.
LEMMA OffsetIs ==
  ASSUME NEW k, NEW t, NEW off, Laid(k, t, off), NEW N \in 0 .. Len(t) + 1
  PROVE  SubscriptOffset(k, N) = IF N <= Len(t) THEN off[N] ELSE -1
<1> DEFINE M == Len(t)
           G == [i \in 0 .. N |-> IF i <= M THEN off[i] ELSE -1]
           Eq(g) == g = [i \in 0 .. N |-> IF i = 0 THEN 0 ELSE OffsetNext(k, g[i - 1])]
           f == CHOOSE g : Eq(g)
<1>1. M \in Nat /\ Len(k) \in Nat /\ off[0] = 0 /\ off[M] = Len(k) /\ N \in Nat /\ N <= M + 1
  BY LaidFacts
<1>2. SubscriptOffset(k, N) = f[N]
  BY DEF SubscriptOffset
<1>3. ASSUME NEW i \in 1 .. M
      PROVE  OffsetNext(k, off[i - 1]) = off[i]
  <2>1. /\ off[i - 1] \in Nat /\ off[i - 1] < Len(k) /\ off[i] <= Len(k) /\ off[i] \in Nat
        /\ Behind(k, off[i - 1]) = off[i]
    BY LaidSegment
  <2> QED BY <1>1, <2>1 DEF OffsetNext
<1>4. OffsetNext(k, off[M]) = -1
  BY <1>1 DEF OffsetNext
<1> HIDE DEF M
<1>5. ASSUME NEW i \in 0 .. N PROVE G[i] = IF i = 0 THEN 0 ELSE OffsetNext(k, G[i - 1])
  <2>1. CASE i = 0
    BY <1>1, <2>1
  <2>2. CASE i # 0 /\ i <= M
    <3>1. i \in 1 .. M /\ i - 1 \in 0 .. N /\ i - 1 <= M
      BY <1>1, <2>2
    <3>2. G[i] = off[i] /\ G[i - 1] = off[i - 1]
      BY <2>2, <3>1
    <3> QED BY <1>3, <2>2, <3>1, <3>2
  <2>3. CASE i # 0 /\ ~ (i <= M)
    <3>1. i = M + 1 /\ i - 1 \in 0 .. N /\ i - 1 = M /\ M <= M
      BY <1>1, <2>3
    <3>2. G[i] = -1 /\ G[i - 1] = off[M]
      BY <2>3, <3>1
    <3> QED BY <1>4, <2>3, <3>2
  <2> QED BY <2>1, <2>2, <2>3
<1>6. G = [i \in 0 .. N |-> G[i]]
  OBVIOUS
<1>7. G[N] = IF N <= M THEN off[N] ELSE -1
  BY <1>1
<1> HIDE DEF G
<1>8. Eq(G)
  BY <1>5, <1>6
<1>9. Eq(f)
  BY <1>8
<1> HIDE DEF f
<1>10. Alike(f, G, N)
  <2>1. 0 \in 0 .. N /\ \A i \in 1 .. N : i \in 0 .. N /\ i # 0
    BY <1>1
  <2> QED BY <1>8, <1>9, <2>1 DEF Alike
<1>11. f[N] = G[N]
  BY <1>1, <1>10, SameSteps
<1> QED BY <1>2, <1>7, <1>11 DEF M

\* The loop of subscript_count is at off[n] after n turns.
LEMMA AfterIs ==
  ASSUME NEW k, NEW t, NEW off, Laid(k, t, off), NEW N \in 0 .. Len(t)
  PROVE  OffsetAfter(k, N) = off[N]
<1> DEFINE M == Len(t)
           G == [i \in 0 .. N |-> off[i]]
           Eq(g) == g = [i \in 0 .. N |-> IF i = 0 THEN 0 ELSE Behind(k, g[i - 1])]
           f == CHOOSE g : Eq(g)
<1>1. M \in Nat /\ off[0] = 0 /\ N \in Nat /\ N <= M
  BY LaidFacts
<1>2. OffsetAfter(k, N) = f[N]
  BY DEF OffsetAfter
<1>3. ASSUME NEW i \in 1 .. M PROVE Behind(k, off[i - 1]) = off[i]
  BY LaidSegment
<1> HIDE DEF M
<1>4. ASSUME NEW i \in 0 .. N PROVE G[i] = IF i = 0 THEN 0 ELSE Behind(k, G[i - 1])
  <2>1. CASE i = 0
    BY <1>1, <2>1
  <2>2. CASE i # 0
    <3>1. i \in 1 .. M /\ i - 1 \in 0 .. N
      BY <1>1, <2>2
    <3>2. G[i] = off[i] /\ G[i - 1] = off[i - 1]
      BY <3>1
    <3> QED BY <1>3, <2>2, <3>1, <3>2
  <2> QED BY <2>1, <2>2
<1>5. G = [i \in 0 .. N |-> G[i]] /\ G[N] = off[N]
  BY <1>1
<1> HIDE DEF G
<1>6. Eq(G)
  BY <1>4, <1>5
<1>7. Eq(f)
  BY <1>6
<1> HIDE DEF f
<1>8. Alike(f, G, N)
  <2>1. 0 \in 0 .. N /\ \A i \in 1 .. N : i \in 0 .. N /\ i # 0
    BY <1>1
  <2> QED BY <1>6, <1>7, <2>1 DEF Alike
<1>9. f[N] = G[N]
  BY <1>1, <1>8, SameSteps
<1> QED BY <1>2, <1>5, <1>9

\* subscript_count counts the subscripts.
LEMMA CountIs ==
  ASSUME NEW k, NEW t, NEW off, Laid(k, t, off)
  PROVE  SubscriptCount(k) = Len(t)
<1> DEFINE M == Len(t)
           L == Len(k)
           Ends(n) == OffsetAfter(k, n) >= L /\ \A m \in 0 .. (n - 1) : OffsetAfter(k, m) < L
<1>1. M \in Nat /\ L \in Nat /\ M <= L
  BY LaidFacts, LaidLonger
<1>2. OffsetAfter(k, M) = L
  BY <1>1, AfterIs, LaidFacts
<1>3. ASSUME NEW m \in 0 .. (M - 1) PROVE OffsetAfter(k, m) < L
  <2>1. m \in 0 .. M /\ m + 1 \in 1 .. M /\ (m + 1) - 1 = m
    BY <1>1
  <2>2. OffsetAfter(k, m) = off[m]
    BY <2>1, AfterIs
  <2>3. off[(m + 1) - 1] < L
    BY <2>1, LaidSegment
  <2> QED BY <2>1, <2>2, <2>3
<1>4. SubscriptCount(k) = CHOOSE n \in 0 .. L : Ends(n)
  BY DEF SubscriptCount
<1>5. M \in 0 .. L /\ Ends(M)
  BY <1>1, <1>2, <1>3
<1>6. ASSUME NEW n \in 0 .. L, Ends(n) PROVE n = M
  <2>1. ~ (n < M)
    <3> SUFFICES ASSUME n < M PROVE FALSE
      OBVIOUS
    <3>1. n \in 0 .. (M - 1)
      BY <1>1
    <3>2. OffsetAfter(k, n) < L
      BY <1>3, <3>1
    <3>3. OffsetAfter(k, n) \in Nat
      <4>1. n \in 0 .. M
        BY <1>1, <3>1
      <4> QED BY <4>1, AfterIs, LaidFacts
    <3> QED BY <1>1, <1>6, <3>2, <3>3
  <2>2. ~ (M < n)
    <3> SUFFICES ASSUME M < n PROVE FALSE
      OBVIOUS
    <3>1. M \in 0 .. (n - 1)
      BY <1>1
    <3> QED BY <1>1, <1>2, <1>6, <3>1
  <2> QED BY <1>1, <2>1, <2>2
<1> HIDE DEF M, L, Ends
<1> QED BY <1>4, <1>5, <1>6 DEF M

\* extract_subscript copies the subscript.
LEMMA ExtractIs ==
  ASSUME NEW k, NEW t, NEW off, Laid(k, t, off), NEW i \in 1 .. Len(t)
  PROVE  /\ SubscriptOffset(k, i - 1) = off[i - 1]
         /\ ExtractSubscript(k, i - 1) = t[i]
<1>1. Len(t) \in Nat
  BY LaidFacts
<1>2. i - 1 \in 0 .. Len(t) + 1 /\ i - 1 <= Len(t)
  BY <1>1
<1>3. SubscriptOffset(k, i - 1) = off[i - 1]
  BY <1>2, OffsetIs
<1>4. /\ DecodeLengthPrefix(k, off[i - 1]) = Len(t[i])
      /\ Bytes(k, off[i - 1] + LengthPrefixSize(Len(t[i])), Len(t[i])) = t[i]
  BY LaidSegment
<1> QED BY <1>3, <1>4 DEF ExtractSubscript

-----------------------------------------------------------------------------
(* The encoder and the decoder of key_encoding.c. *)

\* The bytes up to the end of a subscript are those before it, its prefix and
\* itself.
LEMMA SegmentJoins ==
  ASSUME NEW k \in Seq(Octets), NEW o \in Nat, NEW s, NEW e, SegmentAt(k, o, s, e)
  PROVE  SubSeq(k, 1, e) = (SubSeq(k, 1, o) \o LengthPrefix(Len(s))) \o s
<1> DEFINE n == Len(s)
           h == LengthPrefixSize(n)
           p == LengthPrefix(n)
           a == SubSeq(k, 1, o)
           x == a \o p
           y == x \o s
           z == SubSeq(k, 1, e)
<1>1. /\ s \in Seq(Octets) /\ n \in Nat /\ n < 65536 /\ e = o + h + n /\ e <= Len(k)
      /\ \A j \in 1 .. h : k[o + j] = p[j]
      /\ \A j \in 1 .. n : k[o + h + j] = s[j]
      /\ Len(k) \in Nat
  BY DEF SegmentAt
<1>2. p \in Seq(Octets) /\ Len(p) = h /\ h \in Nat
  <2>1. h \in Nat
    BY DEF LengthPrefixSize
  <2> QED BY <1>1, <2>1, PrefixShape
<1> HIDE DEF n, h, p
<1>3. a \in Seq(Octets) /\ Len(a) = o /\ \A j \in 1 .. o : a[j] = k[j]
  BY <1>1, <1>2
<1>4. z \in Seq(Octets) /\ Len(z) = e /\ \A j \in 1 .. e : z[j] = k[j]
  BY <1>1, <1>2
<1> HIDE DEF a, z
<1>5. x \in Seq(Octets) /\ Len(x) = o + h
  BY <1>2, <1>3
<1>6. \A j \in 1 .. o : x[j] = k[j]
  <2> SUFFICES ASSUME NEW j \in 1 .. o PROVE x[j] = k[j]
    OBVIOUS
  <2>1. x[j] = a[j]
    BY <1>2, <1>3
  <2> QED BY <1>3, <2>1
<1>7. \A j \in o + 1 .. o + h : x[j] = k[j]
  <2> SUFFICES ASSUME NEW j \in o + 1 .. o + h PROVE x[j] = k[j]
    OBVIOUS
  <2>1. j - o \in 1 .. h /\ o + (j - o) = j
    BY <1>2
  <2>2. x[j] = p[j - o]
    BY <1>2, <1>3, <2>1
  <2> QED BY <1>1, <2>1, <2>2
<1> HIDE DEF x
<1>8. y \in Seq(Octets) /\ Len(y) = e
  <2>1. Len(s) = n /\ s \in Seq(Octets)
    BY <1>1 DEF n
  <2>2. y \in Seq(Octets) /\ Len(y) = Len(x) + Len(s)
    BY <1>5, <2>1, ConcatProperties
  <2> QED BY <1>1, <1>2, <1>5, <2>1, <2>2
<1>9. ASSUME NEW j \in 1 .. e PROVE y[j] = k[j]
  <2>1. CASE j <= o + h
    <3>1. j \in 1 .. Len(x)
      BY <1>2, <1>5, <2>1
    <3>2. y[j] = x[j]
      BY <1>1, <1>5, <3>1
    <3>3. j \in 1 .. o \/ j \in o + 1 .. o + h
      BY <1>2, <2>1
    <3> QED BY <1>6, <1>7, <3>2, <3>3
  <2>2. CASE ~ (j <= o + h)
    <3>1. j - (o + h) \in 1 .. n /\ o + h + (j - (o + h)) = j
      BY <1>1, <1>2, <2>2
    <3>2. y[j] = s[j - (o + h)]
      <4>1. x \in Seq(Octets) /\ s \in Seq(Octets)
        BY <1>1, <1>5
      <4>2. j \in 1 .. Len(x) + Len(s) /\ Len(x) = o + h
        BY <1>1, <1>2, <1>5 DEF n
      <4>3. y[j] = IF j <= Len(x) THEN x[j] ELSE s[j - Len(x)]
        BY <4>1, <4>2, ConcatProperties
      <4> QED BY <2>2, <4>2, <4>3
    <3> QED BY <1>1, <3>1, <3>2
  <2> QED BY <2>1, <2>2
<1> HIDE DEF y
<1>10. y = z
  BY <1>4, <1>8, <1>9, SeqEqual
<1> QED BY <1>10 DEF y, x, a, p, n, z

\* encode_key_tuple writes the key the subscripts make.
LEMMA EncodeIs ==
  ASSUME NEW k, NEW t, NEW off, Laid(k, t, off)
  PROVE  EncodeKeyTuple(t) = k
<1> DEFINE N == Len(t)
           Add(x, i) == (x \o LengthPrefix(Len(t[i]))) \o t[i]
           G == [i \in 0 .. N |-> SubSeq(k, 1, off[i])]
           Eq(g) == g = [i \in 0 .. N |-> IF i = 0 THEN <<>> ELSE Add(g[i - 1], i)]
           f == CHOOSE g : Eq(g)
<1>1. N \in Nat /\ off[0] = 0 /\ off[N] = Len(k) /\ k \in Seq(Octets)
  BY LaidFacts
<1>2. EncodeKeyTuple(t) = f[N]
  BY DEF EncodeKeyTuple
<1>3. ASSUME NEW i \in 1 .. N PROVE SubSeq(k, 1, off[i]) = Add(SubSeq(k, 1, off[i - 1]), i)
  <2>1. off[i - 1] \in Nat /\ SegmentAt(k, off[i - 1], t[i], off[i])
    BY LaidSegment
  <2> DEFINE o == off[i - 1]
             e == off[i]
             s == t[i]
  <2> HIDE DEF o, e, s
  <2>2. k \in Seq(Octets) /\ o \in Nat /\ SegmentAt(k, o, s, e)
    BY <1>1, <2>1 DEF o, e, s
  <2>3. SubSeq(k, 1, e) = (SubSeq(k, 1, o) \o LengthPrefix(Len(s))) \o s
    BY <2>2, SegmentJoins
  <2> QED BY <2>3 DEF o, e, s
<1>4. SubSeq(k, 1, 0) = <<>> /\ SubSeq(k, 1, Len(k)) = k
  BY <1>1, SubSeqFull
<1> HIDE DEF Add, N
<1>5. ASSUME NEW i \in 0 .. N PROVE G[i] = IF i = 0 THEN <<>> ELSE Add(G[i - 1], i)
  <2>1. CASE i = 0
    BY <1>1, <1>4, <2>1
  <2>2. CASE i # 0
    <3>1. i \in 1 .. N /\ i - 1 \in 0 .. N
      BY <1>1, <2>2
    <3>2. G[i] = SubSeq(k, 1, off[i]) /\ G[i - 1] = SubSeq(k, 1, off[i - 1])
      BY <3>1
    <3> QED BY <1>3, <2>2, <3>1, <3>2
  <2> QED BY <2>1, <2>2
<1>6. G = [i \in 0 .. N |-> G[i]] /\ G[N] = k
  <2>1. G[N] = SubSeq(k, 1, off[N])
    BY <1>1
  <2> QED BY <1>1, <1>4, <2>1
<1> HIDE DEF G
<1>7. Eq(G)
  BY <1>5, <1>6
<1>8. Eq(f)
  BY <1>7
<1> HIDE DEF f
<1>9. Alike(f, G, N)
  <2>1. 0 \in 0 .. N /\ \A i \in 1 .. N : i \in 0 .. N /\ i # 0
    BY <1>1
  <2> QED BY <1>7, <1>8, <2>1 DEF Alike
<1>10. f[N] = G[N]
  BY <1>1, <1>9, SameSteps
<1> QED BY <1>2, <1>6, <1>10

\* tuple_length announces its length.
LEMMA LengthIs ==
  ASSUME NEW k, NEW t, NEW off, Laid(k, t, off)
  PROVE  TupleLength(t) = Len(k)
<1> DEFINE N == Len(t)
           Add(x, i) == x + LengthPrefixSize(Len(t[i])) + Len(t[i])
           G == [i \in 0 .. N |-> off[i]]
           Eq(g) == g = [i \in 0 .. N |-> IF i = 0 THEN 0 ELSE Add(g[i - 1], i)]
           f == CHOOSE g : Eq(g)
<1>1. N \in Nat /\ off[0] = 0 /\ off[N] = Len(k)
  BY LaidFacts
<1>2. TupleLength(t) = f[N]
  BY DEF TupleLength
<1>3. ASSUME NEW i \in 1 .. N PROVE off[i] = Add(off[i - 1], i)
  BY LaidSegment
<1> HIDE DEF Add, N
<1>4. ASSUME NEW i \in 0 .. N PROVE G[i] = IF i = 0 THEN 0 ELSE Add(G[i - 1], i)
  <2>1. CASE i = 0
    BY <1>1, <2>1
  <2>2. CASE i # 0
    <3>1. i \in 1 .. N /\ i - 1 \in 0 .. N
      BY <1>1, <2>2
    <3>2. G[i] = off[i] /\ G[i - 1] = off[i - 1]
      BY <3>1
    <3> QED BY <1>3, <2>2, <3>1, <3>2
  <2> QED BY <2>1, <2>2
<1>5. G = [i \in 0 .. N |-> G[i]] /\ G[N] = Len(k)
  BY <1>1
<1> HIDE DEF G
<1>6. Eq(G)
  BY <1>4, <1>5
<1>7. Eq(f)
  BY <1>6
<1> HIDE DEF f
<1>8. Alike(f, G, N)
  <2>1. 0 \in 0 .. N /\ \A i \in 1 .. N : i \in 0 .. N /\ i # 0
    BY <1>1
  <2> QED BY <1>6, <1>7, <2>1 DEF Alike
<1>9. f[N] = G[N]
  BY <1>1, <1>8, SameSteps
<1> QED BY <1>2, <1>5, <1>9

\* decode_key_tuple gives the subscripts back, up to the number it has room for.
LEMMA DecodeIs ==
  ASSUME NEW k, NEW t, NEW off, Laid(k, t, off)
  PROVE  DecodeKeyTuple(k) = SubSeq(t, 1, Least(Len(t), MaxSubscripts))
<1> DEFINE N == MaxSubscripts
           M == Len(t)
           m(n) == Least(M, n)
           First(i) == SubSeq(t, 1, i)
           c == [o |-> 0, out |-> <<>>]
           G == [n \in 0 .. N |-> [o |-> off[m(n)], out |-> First(m(n))]]
           Eq(g) == g = [n \in 0 .. N |-> IF n = 0 THEN c ELSE DecodeNext(k, g[n - 1])]
           f == CHOOSE g : Eq(g)
<1>1. /\ M \in Nat /\ off[0] = 0 /\ off[M] = Len(k) /\ Len(k) \in Nat /\ N \in Nat
      /\ t \in Seq(Seq(Octets))
  BY LaidFacts DEF MaxSubscripts
<1>2. DecodeKeyTuple(k) = f[N].out
  BY DEF DecodeKeyTuple
<1>3. ASSUME NEW i \in 1 .. M
      PROVE  DecodeNext(k, [o |-> off[i - 1], out |-> First(i - 1)])
               = [o |-> off[i], out |-> First(i)]
  <2> DEFINE o == off[i - 1]
             h == LengthPrefixSize(Len(t[i]))
  <2>1. /\ o \in Nat /\ o < Len(k) /\ off[i] = o + h + Len(t[i])
        /\ DecodeLengthPrefix(k, o) = Len(t[i])
        /\ (IF ByteAt(k, o) = LongMarker THEN 3 ELSE 1) = h
        /\ Bytes(k, o + h, Len(t[i])) = t[i]
    BY LaidSegment
  <2>2. Append(First(i - 1), t[i]) = First(i)
    <3>1. First(i) = First(i - 1) \o <<t[i]>>
      <4>1. 1 \in 1 .. Len(t) /\ i \in 1 .. Len(t)
        BY <1>1
      <4> QED BY <1>1, <4>1, SubSeqRecursiveSecond
    <3>2. First(i - 1) \in Seq(Seq(Octets)) /\ t[i] \in Seq(Octets)
      BY <1>1
    <3> QED BY <3>1, <3>2, AppendIsConcat
  <2> HIDE DEF o, h, First
  <2> DEFINE b == [o |-> o, out |-> First(i - 1)]
  <2>3. b.o = o /\ b.out = First(i - 1)
    OBVIOUS
  <2> HIDE DEF b
  <2>4. DecodeNext(k, b) = [o |-> o + h + Len(t[i]), out |-> Append(b.out, t[i])]
    <3>1. ~ (o >= Len(k))
      BY <1>1, <2>1
    <3> QED BY <2>1, <2>3, <3>1, Zenon DEF DecodeNext
  <2> QED BY <2>1, <2>2, <2>3, <2>4 DEF o, b
<1>4. DecodeNext(k, [o |-> off[M], out |-> First(M)]) = [o |-> off[M], out |-> First(M)]
  BY <1>1 DEF DecodeNext
<1>5. First(0) = <<>>
  BY <1>1
<1>6. m(0) = 0 /\ \A n \in 1 .. N : \/ n <= M /\ m(n) = n /\ m(n - 1) = n - 1
                                    \/ n > M /\ m(n) = M /\ m(n - 1) = M
  BY <1>1 DEF Least
<1> HIDE DEF M, N, First, m
<1>7. ASSUME NEW n \in 0 .. N PROVE G[n] = IF n = 0 THEN c ELSE DecodeNext(k, G[n - 1])
  <2>1. CASE n = 0
    BY <1>1, <1>5, <1>6, <2>1
  <2>2. CASE n # 0
    <3>1. n \in 1 .. N /\ n - 1 \in 0 .. N
      BY <1>1, <2>2
    <3>2. /\ G[n] = [o |-> off[m(n)], out |-> First(m(n))]
          /\ G[n - 1] = [o |-> off[m(n - 1)], out |-> First(m(n - 1))]
      BY <3>1
    <3>3. CASE n <= M /\ m(n) = n /\ m(n - 1) = n - 1
      <4>1. n \in 1 .. M
        BY <1>1, <3>1, <3>3
      <4> QED BY <1>3, <2>2, <3>2, <3>3, <4>1
    <3>4. CASE n > M /\ m(n) = M /\ m(n - 1) = M
      BY <1>4, <2>2, <3>2, <3>4
    <3> QED BY <1>6, <3>1, <3>3, <3>4
  <2> QED BY <2>1, <2>2
<1>8. G = [n \in 0 .. N |-> G[n]] /\ G[N].out = First(m(N))
  BY <1>1
<1> HIDE DEF G, c
<1>9. Eq(G)
  BY <1>7, <1>8
<1>10. Eq(f)
  BY <1>9
<1> HIDE DEF f
<1>11. Alike(f, G, N)
  <2>1. 0 \in 0 .. N /\ \A i \in 1 .. N : i \in 0 .. N /\ i # 0
    BY <1>1
  <2> QED BY <1>9, <1>10, <2>1 DEF Alike
<1>12. f[N] = G[N]
  BY <1>1, <1>11, SameSteps
<1> QED BY <1>2, <1>8, <1>12 DEF First, m, M, N

-----------------------------------------------------------------------------
(* Building and cutting keys. *)

\* The offsets grow.
LEMMA OffsetsGrow ==
  ASSUME NEW k, NEW t, NEW off, Laid(k, t, off), NEW n \in 0 .. Len(t), NEW i \in 0 .. n
  PROVE  off[i] <= off[n]
<1> DEFINE M == Len(t)
           T == {d \in Nat : i + d <= M => off[i] <= off[i + d]}
<1>1. M \in Nat /\ n \in Nat /\ i \in Nat /\ i <= n /\ n <= M
  BY LaidFacts
<1>2. 0 \in T
  <2>1. off[i] \in Nat
    BY <1>1, LaidFacts
  <2> QED BY <1>1, <2>1
<1>3. ASSUME NEW d \in Nat, d \in T PROVE d + 1 \in T
  <2> SUFFICES ASSUME i + (d + 1) <= M PROVE off[i] <= off[i + (d + 1)]
    OBVIOUS
  <2>1. i + d <= M /\ i + (d + 1) \in 1 .. M /\ (i + (d + 1)) - 1 = i + d
    BY <1>1
  <2>2. off[i] <= off[i + d]
    BY <1>3, <2>1
  <2> DEFINE j == i + (d + 1)
  <2>3. off[j - 1] \in Nat /\ off[j] \in Nat /\ off[j - 1] < off[j]
    <3> HIDE DEF j
    <3>1. j \in 1 .. Len(t)
      BY <2>1 DEF j
    <3> QED BY <3>1, LaidSegment
  <2>4. off[i] \in Nat
    BY <1>1, LaidFacts
  <2> QED BY <2>1, <2>2, <2>3, <2>4
<1>4. Nat \subseteq T
  <2> HIDE DEF T
  <2> QED BY <1>2, <1>3, NatSetInduction
<1>5. n - i \in Nat /\ i + (n - i) = n
  BY <1>1
<1> QED BY <1>1, <1>4, <1>5

\* concat_prefix: a child of a key.
LEMMA ChildLaid ==
  ASSUME NEW k, NEW t, NEW off, Laid(k, t, off), NEW s \in Seq(Octets), Len(s) < 65536
  PROVE  \E new : Laid(ConcatPrefix(k, s), Append(t, s), new)
<1> DEFINE M == Len(t)
           L == Len(k)
           n == Len(s)
           h == LengthPrefixSize(n)
           p == LengthPrefix(n)
           x == k \o p
           y == x \o s
           u == Append(t, s)
           new == [i \in 0 .. M + 1 |-> IF i <= M THEN off[i] ELSE L + h + n]
<1>1. /\ k \in Seq(Octets) /\ L \in Nat /\ t \in Seq(Seq(Octets)) /\ M \in Nat
      /\ off[0] = 0 /\ off[M] = L
      /\ \A i \in 0 .. M : off[i] \in Nat /\ off[i] <= L
  BY LaidFacts
<1>2. n \in Nat /\ n < 65536
  OBVIOUS
<1>3. p \in Seq(Octets) /\ Len(p) = h /\ h \in Nat
  <2>1. h \in Nat
    BY DEF LengthPrefixSize
  <2> QED BY <1>2, <2>1, PrefixShape
<1> HIDE DEF M, L, h, p
<1>4. ConcatPrefix(k, s) = y
  BY DEF ConcatPrefix, p
<1>5. /\ x \in Seq(Octets) /\ Len(x) = L + h
      /\ \A j \in 1 .. L : x[j] = k[j]
      /\ \A j \in 1 .. h : x[L + j] = p[j]
  <2>1. k \in Seq(Octets) /\ L = Len(k) /\ p \in Seq(Octets) /\ h = Len(p)
    BY <1>1, <1>3 DEF L
  <2> QED BY <2>1, Join
<1> HIDE DEF x
<1>6. /\ y \in Seq(Octets) /\ Len(y) = L + h + n
      /\ \A j \in 1 .. L + h : y[j] = x[j]
      /\ \A j \in 1 .. n : y[L + h + j] = s[j]
  <2>1. x \in Seq(Octets) /\ L + h = Len(x) /\ n = Len(s)
    BY <1>5
  <2> QED BY <2>1, Join
<1> HIDE DEF y
<1>7. ASSUME NEW j \in 1 .. L PROVE y[j] = k[j]
  <2>1. j \in 1 .. L + h
    BY <1>1, <1>3
  <2> QED BY <1>5, <1>6, <2>1
<1>8. ASSUME NEW j \in 1 .. h PROVE y[L + j] = p[j]
  <2>1. L + j \in 1 .. L + h
    BY <1>1, <1>3
  <2>2. y[L + j] = x[L + j]
    BY <1>6, <2>1
  <2> QED BY <1>5, <2>2
<1>9. ASSUME NEW j \in 1 .. n PROVE y[L + h + j] = s[j]
  BY <1>6
<1>10. SegmentAt(y, L, s, L + h + n)
  <2>1. L + h + n <= Len(y)
    BY <1>1, <1>2, <1>3, <1>6
  <2>2. /\ \A j \in 1 .. h : y[L + j] = p[j]
        /\ \A j \in 1 .. n : y[L + h + j] = s[j]
    BY <1>8, <1>9
  <2> QED BY <1>2, <2>1, <2>2 DEF SegmentAt, h, p
<1>11. /\ u \in Seq(Seq(Octets)) /\ Len(u) = M + 1 /\ u[M + 1] = s
       /\ \A i \in 1 .. M : u[i] = t[i]
  BY <1>1, AppendProperties DEF M
<1>12. new \in [0 .. Len(u) -> Nat] /\ new[0] = 0 /\ new[Len(u)] = Len(y)
  BY <1>1, <1>2, <1>3, <1>6, <1>11
<1>13. ASSUME NEW i \in 1 .. Len(u) PROVE SegmentAt(y, new[i - 1], u[i], new[i])
  <2>1. CASE i <= M
    <3>1. i \in 1 .. M /\ i - 1 <= M /\ i - 1 \in 0 .. M + 1 /\ i \in 0 .. M + 1
      BY <1>1, <1>11, <2>1
    <3>2. new[i - 1] = off[i - 1] /\ new[i] = off[i] /\ u[i] = t[i]
      BY <1>11, <2>1, <3>1
    <3>3. /\ off[i - 1] \in Nat /\ off[i] \in Nat /\ off[i] <= L
          /\ SegmentAt(k, off[i - 1], t[i], off[i])
      BY <3>1, LaidSegment DEF M, L
    <3>4. Agree(y, k, off[i - 1], off[i])
      <4> SUFFICES ASSUME NEW j \in off[i - 1] + 1 .. off[i] PROVE y[j] = k[j]
        BY DEF Agree
      <4>1. j \in 1 .. L
        BY <1>1, <3>3
      <4> QED BY <1>7, <4>1
    <3>5. off[i] <= Len(y)
      <4>1. Len(y) = L + h + n
        BY <1>6
      <4> QED BY <1>1, <1>2, <1>3, <3>3, <4>1
    <3>6. SegmentAt(y, off[i - 1], t[i], off[i])
      BY <1>1, <1>6, <3>3, <3>4, <3>5, SegmentCarries
    <3> QED BY <3>2, <3>6
  <2>2. CASE ~ (i <= M)
    <3>1. i = M + 1 /\ i - 1 = M /\ M \in 0 .. M + 1 /\ M + 1 \in 0 .. M + 1
      BY <1>1, <1>11, <2>2
    <3>2. new[i - 1] = L /\ new[i] = L + h + n /\ u[i] = s
      BY <1>1, <1>11, <2>2, <3>1
    <3> QED BY <1>10, <3>2
  <2> QED BY <2>1, <2>2
<1> HIDE DEF new, u
<1>14. Laid(y, u, new)
  BY <1>6, <1>11, <1>12, <1>13 DEF Laid
<1> QED BY <1>4, <1>14 DEF u

\* key_prefix: an ancestor of a key.
LEMMA AncestorLaid ==
  ASSUME NEW k, NEW t, NEW off, Laid(k, t, off), NEW n \in 0 .. Len(t)
  PROVE  \E new : Laid(KeyPrefix(k, n), SubSeq(t, 1, n), new)
<1> DEFINE M == Len(t)
           L == Len(k)
           e == off[n]
           y == SubSeq(k, 1, e)
           u == SubSeq(t, 1, n)
           new == [i \in 0 .. n |-> off[i]]
<1>1. /\ k \in Seq(Octets) /\ L \in Nat /\ t \in Seq(Seq(Octets)) /\ M \in Nat
      /\ off[0] = 0 /\ n \in Nat /\ n <= M /\ e \in Nat /\ e <= L
      /\ \A i \in 0 .. M : off[i] \in Nat
  BY LaidFacts
<1>2. KeyPrefix(k, n) = y
  <2>1. SubscriptOffset(k, n) = e
    <3>1. n \in 0 .. Len(t) + 1 /\ n <= Len(t)
      BY <1>1
    <3> QED BY <3>1, OffsetIs
  <2> HIDE DEF e, L
  <2>2. Least(0 + e, Len(k)) = e /\ 0 + 1 = 1
    BY <1>1 DEF Least, L
  <2> QED BY <2>1, <2>2 DEF KeyPrefix, Bytes
<1> HIDE DEF e, L, M
<1>3. y \in Seq(Octets) /\ Len(y) = e /\ \A j \in 1 .. e : y[j] = k[j]
  BY <1>1 DEF L
<1>4. u \in Seq(Seq(Octets)) /\ Len(u) = n /\ \A i \in 1 .. n : u[i] = t[i]
  BY <1>1 DEF M
<1> HIDE DEF y, u
<1>5. new \in [0 .. Len(u) -> Nat] /\ new[0] = 0 /\ new[Len(u)] = Len(y)
  BY <1>1, <1>3, <1>4 DEF e
<1>6. ASSUME NEW i \in 1 .. Len(u) PROVE SegmentAt(y, new[i - 1], u[i], new[i])
  <2>1. i \in 1 .. M /\ i \in 0 .. n /\ i - 1 \in 0 .. n /\ i \in 1 .. n
    BY <1>1, <1>4
  <2>2. new[i - 1] = off[i - 1] /\ new[i] = off[i] /\ u[i] = t[i]
    BY <1>4, <2>1
  <2>3. off[i - 1] \in Nat /\ off[i] \in Nat /\ SegmentAt(k, off[i - 1], t[i], off[i])
    BY <2>1, LaidSegment DEF M
  <2>4. off[i] <= e
    BY <2>1, OffsetsGrow DEF e
  <2>5. Agree(y, k, off[i - 1], off[i])
    <3> SUFFICES ASSUME NEW j \in off[i - 1] + 1 .. off[i] PROVE y[j] = k[j]
      BY DEF Agree
    <3>1. j \in 1 .. e
      BY <1>1, <2>3, <2>4
    <3> QED BY <1>3, <3>1
  <2>6. off[i] <= Len(y)
    BY <1>3, <2>4
  <2>7. SegmentAt(y, off[i - 1], t[i], off[i])
    BY <1>1, <1>3, <2>3, <2>5, <2>6, SegmentCarries
  <2> QED BY <2>2, <2>7
<1> HIDE DEF new
<1>7. Laid(y, u, new)
  BY <1>3, <1>4, <1>5, <1>6 DEF Laid
<1> QED BY <1>2, <1>7 DEF u

\* A tuple of empty subscripts is written as that many zeros.
LEMMA EmptiesLaid ==
  ASSUME NEW d \in Nat
  PROVE  \E k, off : Laid(k, [i \in 1 .. d |-> <<>>], off)
<1> DEFINE k == [i \in 1 .. d |-> 0]
           t == [i \in 1 .. d |-> <<>>]
           off == [i \in 0 .. d |-> i]
<1>1. 0 \in Octets /\ <<>> \in Seq(Octets)
  BY OctetsAre
<1>2. k \in Seq(Octets) /\ Len(k) = d
  BY <1>1
<1>3. t \in Seq(Seq(Octets)) /\ Len(t) = d
  BY <1>1
<1>4. off \in [0 .. d -> Nat] /\ off[0] = 0 /\ off[d] = d
  OBVIOUS
<1>5. ASSUME NEW i \in 1 .. d PROVE SegmentAt(k, off[i - 1], t[i], off[i])
  <2>1. /\ off[i - 1] = i - 1 /\ off[i] = i /\ t[i] = <<>> /\ k[i] = 0
        /\ i <= d /\ (i - 1) + 1 = i /\ i \in Nat
    OBVIOUS
  <2>2. Len(<<>>) = 0 /\ LengthPrefixSize(0) = 1 /\ LengthPrefix(0) = <<0>>
    BY DEF LengthPrefixSize, LengthPrefix, InlineMax
  <2>3. \A j \in 1 .. 1 : k[(i - 1) + j] = <<0>>[j]
    BY <2>1
  <2>4. i = (i - 1) + 1 + 0
    BY <2>1
  <2> HIDE DEF k, t, off
  <2>5. SegmentAt(k, i - 1, <<>>, i)
    BY <1>1, <1>2, <2>1, <2>2, <2>3, <2>4 DEF SegmentAt
  <2> QED BY <2>1, <2>5
<1> HIDE DEF k, t, off
<1>6. Laid(k, t, off)
  BY <1>2, <1>3, <1>4, <1>5 DEF Laid
<1> QED BY <1>6 DEF t

-----------------------------------------------------------------------------
(* Byte prefixes and subtrees. *)

\* IsPrefix, element by element.
LEMMA PrefixPointwise ==
  ASSUME NEW S, NEW u \in Seq(S), NEW t \in Seq(S)
  PROVE  IsPrefix(u, t) <=> Len(u) <= Len(t) /\ \A i \in 1 .. Len(u) : u[i] = t[i]
<1> DEFINE n == Len(u)
           v == SubSeq(t, 1, n)
<1>1. n \in Nat /\ Len(t) \in Nat /\ SubSeq(u, 1, n) = u
  BY SubSeqFull
<1>2. IsPrefix(u, t) <=> n <= Len(t) /\ u = v
  BY <1>1 DEF IsPrefix
<1>3. ASSUME n <= Len(t)
      PROVE  v \in Seq(S) /\ Len(v) = n /\ \A i \in 1 .. n : v[i] = t[i]
  BY <1>1, <1>3
<1>4. ASSUME n <= Len(t) PROVE u = v <=> \A i \in 1 .. n : u[i] = t[i]
  <2> HIDE DEF v
  <2>1. ASSUME u = v PROVE \A i \in 1 .. n : u[i] = t[i]
    BY <1>3, <1>4, <2>1
  <2>2. ASSUME \A i \in 1 .. n : u[i] = t[i] PROVE u = v
    <3>1. v \in Seq(S) /\ Len(v) = Len(u)
      BY <1>3, <1>4
    <3>2. \A i \in 1 .. Len(u) : u[i] = v[i]
      BY <1>3, <1>4, <2>2
    <3> QED BY <3>1, <3>2, SeqEqual
  <2> QED BY <2>1, <2>2
<1> QED BY <1>2, <1>4

\* A key that begins with the bytes of another one begins with its subscripts.
LEMMA BytesToSubscripts ==
  ASSUME NEW k, NEW t, NEW off, Laid(k, t, off), NEW r, NEW u, NEW low, Laid(r, u, low),
         HasPrefix(k, r)
  PROVE  Len(u) <= Len(t) /\ \A i \in 1 .. Len(u) : u[i] = t[i]
<1> DEFINE Same(i) == i <= Len(t) /\ low[i] = off[i] /\ (i >= 1 => u[i] = t[i])
           T == {i \in Nat : i <= Len(u) => Same(i)}
<1>1. /\ k \in Seq(Octets) /\ Len(k) \in Nat /\ r \in Seq(Octets) /\ Len(r) \in Nat
      /\ Len(t) \in Nat /\ Len(u) \in Nat /\ off[0] = 0 /\ low[0] = 0 /\ off[Len(t)] = Len(k)
  BY LaidFacts
<1>2. Len(r) <= Len(k) /\ \A j \in 1 .. Len(r) : k[j] = r[j]
  BY DEF HasPrefix
<1>3. 0 \in T
  BY <1>1
<1>4. ASSUME NEW i \in Nat, i \in T PROVE i + 1 \in T
  <2> SUFFICES ASSUME i + 1 <= Len(u) PROVE Same(i + 1)
    OBVIOUS
  <2>1. i <= Len(t) /\ low[i] = off[i]
    BY <1>1, <1>4
  <2> DEFINE o == low[i]
             a == u[i + 1]
             e == low[i + 1]
             b == t[i + 1]
             f == off[i + 1]
  <2>2. o \in Nat /\ e \in Nat /\ o < Len(r) /\ e <= Len(r) /\ SegmentAt(r, o, a, e)
    <3>1. i + 1 \in 1 .. Len(u) /\ (i + 1) - 1 = i
      BY <1>1
    <3>2. /\ low[(i + 1) - 1] \in Nat /\ e \in Nat /\ low[(i + 1) - 1] < Len(r) /\ e <= Len(r)
          /\ SegmentAt(r, low[(i + 1) - 1], a, e)
      BY <3>1, LaidSegment
    <3> QED BY <3>1, <3>2
  <2>3. i + 1 <= Len(t)
    <3>1. i # Len(t)
      BY <1>1, <1>2, <2>1, <2>2
    <3> QED BY <1>1, <2>1, <3>1
  <2>4. SegmentAt(k, o, b, f)
    <3>1. i + 1 \in 1 .. Len(t) /\ (i + 1) - 1 = i
      BY <1>1, <2>3
    <3>2. SegmentAt(k, off[(i + 1) - 1], b, f)
      BY <3>1, LaidSegment
    <3> QED BY <2>1, <3>1, <3>2
  <2> HIDE DEF o, a, e, b, f
  <2>5. Agree(k, r, o, e)
    <3> SUFFICES ASSUME NEW j \in o + 1 .. e PROVE k[j] = r[j]
      BY DEF Agree
    <3>1. j \in 1 .. Len(r)
      BY <1>1, <2>2
    <3> QED BY <1>2, <3>1
  <2>6. SegmentAt(k, o, a, e)
    <3>1. e <= Len(k)
      BY <1>1, <1>2, <2>2
    <3> QED BY <1>1, <2>2, <2>5, <3>1, SegmentCarries
  <2>7. /\ DecodeLengthPrefix(k, o) = Len(a) /\ Behind(k, o) = e
        /\ Bytes(k, o + LengthPrefixSize(Len(a)), Len(a)) = a
    BY <1>1, <2>2, <2>6, SegmentReads
  <2>8. /\ DecodeLengthPrefix(k, o) = Len(b) /\ Behind(k, o) = f
        /\ Bytes(k, o + LengthPrefixSize(Len(b)), Len(b)) = b
    BY <1>1, <2>2, <2>4, SegmentReads
  <2>9. a = b /\ e = f
    BY <2>7, <2>8, Zenon
  <2> QED BY <2>3, <2>9 DEF a, b, e, f
<1>5. Nat \subseteq T
  <2> HIDE DEF T
  <2> QED BY <1>3, <1>4, NatSetInduction
<1>6. Len(u) <= Len(t)
  BY <1>1, <1>5
<1>7. ASSUME NEW i \in 1 .. Len(u) PROVE u[i] = t[i]
  <2>1. i \in Nat /\ i <= Len(u) /\ i >= 1
    BY <1>1
  <2> QED BY <1>5, <2>1
<1> QED BY <1>6, <1>7

\* A key that begins with the subscripts of another one begins with its bytes.
LEMMA SubscriptsToBytes ==
  ASSUME NEW k, NEW t, NEW off, Laid(k, t, off), NEW r, NEW u, NEW low, Laid(r, u, low),
         Len(u) <= Len(t), \A i \in 1 .. Len(u) : u[i] = t[i]
  PROVE  HasPrefix(k, r)
<1> DEFINE Same(i) == low[i] = off[i] /\ Agree(k, r, 0, low[i])
           T == {i \in Nat : i <= Len(u) => Same(i)}
<1>1. /\ k \in Seq(Octets) /\ Len(k) \in Nat /\ r \in Seq(Octets) /\ Len(r) \in Nat
      /\ Len(t) \in Nat /\ Len(u) \in Nat /\ off[0] = 0 /\ low[0] = 0 /\ low[Len(u)] = Len(r)
  BY LaidFacts
<1>2. 0 \in T
  <2>1. Agree(k, r, 0, 0)
    BY DEF Agree
  <2> QED BY <1>1, <2>1
<1>3. ASSUME NEW i \in Nat, i \in T PROVE i + 1 \in T
  <2> SUFFICES ASSUME i + 1 <= Len(u) PROVE Same(i + 1)
    OBVIOUS
  <2>1. low[i] = off[i] /\ Agree(k, r, 0, low[i])
    BY <1>1, <1>3
  <2> DEFINE o == low[i]
             a == u[i + 1]
             e == low[i + 1]
             f == off[i + 1]
  <2>2. i + 1 \in 1 .. Len(u) /\ i + 1 \in 1 .. Len(t) /\ (i + 1) - 1 = i
    BY <1>1
  <2>3. o \in Nat /\ e \in Nat /\ SegmentAt(r, o, a, e)
    <3>1. low[(i + 1) - 1] \in Nat /\ e \in Nat /\ SegmentAt(r, low[(i + 1) - 1], a, e)
      BY <2>2, LaidSegment
    <3> QED BY <2>2, <3>1
  <2>4. SegmentAt(k, o, a, f)
    <3>1. SegmentAt(k, off[(i + 1) - 1], t[i + 1], f)
      BY <2>2, LaidSegment
    <3>2. a = t[i + 1]
      BY <2>2
    <3> QED BY <2>1, <2>2, <3>1, <3>2
  <2> HIDE DEF o, a, e, f
  <2>5. e = f /\ Agree(k, r, o, e)
    BY <1>1, <2>3, <2>4, SegmentFixes
  <2>6. Agree(k, r, 0, o)
    BY <2>1 DEF o
  <2>7. Agree(k, r, 0, e)
    <3> SUFFICES ASSUME NEW j \in 0 + 1 .. e PROVE k[j] = r[j]
      BY DEF Agree
    <3>1. j \in 0 + 1 .. o \/ j \in o + 1 .. e
      BY <2>3
    <3> QED BY <2>5, <2>6, <3>1 DEF Agree
  <2> QED BY <2>5, <2>7 DEF e, f
<1>4. Nat \subseteq T
  <2> HIDE DEF T
  <2> QED BY <1>2, <1>3, NatSetInduction
<1>5. Same(Len(u))
  BY <1>1, <1>4
<1>6. Len(r) <= Len(k)
  <2>1. Len(u) \in 0 .. Len(t)
    BY <1>1
  <2>2. off[Len(u)] <= Len(k)
    BY <2>1, LaidFacts
  <2> QED BY <1>1, <1>5, <2>2
<1>7. ASSUME NEW j \in 1 .. Len(r) PROVE k[j] = r[j]
  <2>1. j \in 0 + 1 .. Len(r)
    BY <1>1
  <2> QED BY <1>1, <1>5, <2>1 DEF Agree
<1> QED BY <1>1, <1>6, <1>7 DEF HasPrefix

-----------------------------------------------------------------------------
(* Integer subscripts. *)

\* A number of 32 bits is its four bytes, the uppermost with its sign.
LEMMA FourBytes ==
  ASSUME NEW n \in Int, -1 - MaxInt32 <= n, n <= MaxInt32
  PROVE  LET b1 == n % 256
             b2 == (n \div 256) % 256
             b3 == (n \div 65536) % 256
             b4 == (n \div 16777216) % 256
             top == IF b4 >= 128 THEN b4 - 256 ELSE b4
         IN /\ b1 \in Octets /\ b2 \in Octets /\ b3 \in Octets /\ b4 \in Octets
            /\ ((top * 256 + b3) * 256 + b2) * 256 + b1 = n
<1> DEFINE a == n \div 256
           b == a \div 256
           c == b \div 256
           b1 == n % 256
           b2 == a % 256
           b3 == b % 256
           b4 == c % 256
           top == IF b4 >= 128 THEN b4 - 256 ELSE b4
<1>1. a \in Int /\ b1 \in 0 .. 255 /\ n = 256 * a + b1
  BY SMT
<1>2. b \in Int /\ b2 \in 0 .. 255 /\ a = 256 * b + b2
  BY <1>1, SMT
<1>3. c \in Int /\ b3 \in 0 .. 255 /\ b = 256 * c + b3
  BY <1>2, SMT
<1>4. n \div 65536 = b
  BY <1>1, <1>2, SMT
<1>5. n \div 16777216 = c
  BY <1>1, <1>2, <1>3, SMT
<1>6. -128 <= c /\ c <= 127
  BY <1>1, <1>2, <1>3, SMT DEF MaxInt32
<1>7. b4 \in 0 .. 255 /\ top = c
  BY <1>3, <1>6, SMT
<1> HIDE DEF a, b, c, b1, b2, b3, b4, top
<1>8. ((top * 256 + b3) * 256 + b2) * 256 + b1 = n
  BY <1>1, <1>2, <1>3, <1>7, SMT
<1>9. b1 \in Octets /\ b2 \in Octets /\ b3 \in Octets /\ b4 \in Octets
  BY <1>1, <1>2, <1>3, <1>7 DEF Octets
<1> QED
  BY <1>4, <1>5, <1>8, <1>9, SMT DEF a, b, c, b1, b2, b3, b4, top

\* The greatest number of 32 bits, for the provers.
LEMMA MaxIsNat == MaxInt32 \in Nat
BY SMT DEF MaxInt32

\* So an integer subscript is a sequence of octets that reads as the integer.
LEMMA IntegerReads ==
  ASSUME NEW n \in -1 - MaxInt32 .. MaxInt32
  PROVE  /\ EncodeIntegerSubscript(n) \in Seq(Octets)
         /\ DecodeIntegerSubscript(EncodeIntegerSubscript(n), 0) = n
<1> DEFINE b1 == n % 256
           b2 == (n \div 256) % 256
           b3 == (n \div 65536) % 256
           b4 == (n \div 16777216) % 256
           top == IF b4 >= 128 THEN b4 - 256 ELSE b4
           e == <<2, b1, b2, b3, b4, 0, 0, 0, 0>>
<1>1. n \in Int /\ -1 - MaxInt32 <= n /\ n <= MaxInt32
  <2> HIDE DEF b1, b2, b3, b4
  <2> QED BY MaxIsNat
<1>2. /\ b1 \in Octets /\ b2 \in Octets /\ b3 \in Octets /\ b4 \in Octets
      /\ ((top * 256 + b3) * 256 + b2) * 256 + b1 = n
  BY <1>1, FourBytes, SMT
<1>3. EncodeIntegerSubscript(n) = e
  BY SMT DEF EncodeIntegerSubscript
<1> HIDE DEF b1, b2, b3, b4
<1>4. e \in Seq(Octets)
  <2>1. 2 \in Octets /\ 0 \in Octets
    BY OctetsAre
  <2> QED BY <1>2, <2>1
<1>5. Len(e) = 9 /\ e[2] = b1 /\ e[3] = b2 /\ e[4] = b3 /\ e[5] = b4
  OBVIOUS
<1>6. /\ ByteAt(e, 0 + 1) = b1 /\ ByteAt(e, 0 + 2) = b2
      /\ ByteAt(e, 0 + 3) = b3 /\ ByteAt(e, 0 + 4) = b4
  BY <1>5 DEF ByteAt
<1> HIDE DEF e
<1>7. DecodeIntegerSubscript(e, 0) = ((top * 256 + b3) * 256 + b2) * 256 + b1
  BY <1>6, SMT DEF DecodeIntegerSubscript
<1> QED BY <1>2, <1>3, <1>4, <1>7

-----------------------------------------------------------------------------
(* The keys a program builds. *)

\* Each key is the subscripts of its history, laid one behind the other.
IKey ==
  /\ DOMAIN parts = Which /\ DOMAIN key = Which
  /\ \A w \in Which : \E off : Laid(key[w], parts[w], off)

\* A subscript is a sequence of octets.
LEMMA SubscriptsAre == Subscripts \subseteq Seq(Octets)
<1> SUFFICES ASSUME NEW s \in Subscripts PROVE s \in Seq(Octets)
  OBVIOUS
<1>1. CASE s \in Segments
  BY <1>1, KeyAssumption
<1>2. CASE \E n \in Integers32 : s = EncodeIntegerSubscript(n)
  <2>1. PICK n \in Integers32 : s = EncodeIntegerSubscript(n)
    BY <1>2
  <2>2. n \in -1 - MaxInt32 .. MaxInt32
    BY KeyAssumption
  <2> QED BY <2>1, <2>2, IntegerReads
<1> QED BY <1>1, <1>2 DEF Subscripts

\* The keys a program starts with: empty subscripts written by encode_key_tuple.
LEMMA InitLaid == KInit => IKey
<1> SUFFICES ASSUME KInit PROVE IKey
  OBVIOUS
<1>1. PICK depth \in [Which -> StartDepths] :
        /\ parts = [w \in Which |-> [i \in 1..depth[w] |-> <<>>]]
        /\ key = [w \in Which |-> EncodeKeyTuple([i \in 1..depth[w] |-> <<>>])]
  BY DEF KInit
<1>2. DOMAIN parts = Which /\ DOMAIN key = Which
  BY <1>1
<1>3. ASSUME NEW w \in Which PROVE \E off : Laid(key[w], parts[w], off)
  <2> DEFINE t == [i \in 1..depth[w] |-> <<>>]
  <2>1. depth[w] \in Nat
    BY KeyAssumption
  <2>2. PICK k, off : Laid(k, t, off)
    BY <2>1, EmptiesLaid
  <2>3. parts[w] = t /\ key[w] = EncodeKeyTuple(t)
    BY <1>1
  <2> HIDE DEF t
  <2>4. EncodeKeyTuple(t) = k
    BY <2>2, EncodeIs
  <2> QED BY <2>2, <2>3, <2>4
<1> QED BY <1>2, <1>3 DEF IKey

\* concat_prefix lays the new subscript behind the others.
LEMMA DescendLaid ==
  ASSUME IKey, NEW w \in Which, NEW s \in Subscripts, Descend(w, s)
  PROVE  IKey'
<1>1. /\ key' = [key EXCEPT ![w] = ConcatPrefix(key[w], s)]
      /\ parts' = [parts EXCEPT ![w] = Append(parts[w], s)]
      /\ ConcatFits(key[w], s)
  BY DEF Descend
<1>2. DOMAIN parts = Which /\ DOMAIN key = Which
  BY DEF IKey
<1>3. DOMAIN parts' = Which /\ DOMAIN key' = Which
  BY <1>1, <1>2
<1>4. ASSUME NEW v \in Which PROVE \E off : Laid(key'[v], parts'[v], off)
  <2>1. CASE v # w
    <3>1. key'[v] = key[v] /\ parts'[v] = parts[v]
      BY <1>1, <1>2, <2>1
    <3> QED BY <3>1 DEF IKey
  <2>2. CASE v = w
    <3>1. key'[v] = ConcatPrefix(key[w], s) /\ parts'[v] = Append(parts[w], s)
      BY <1>1, <1>2, <2>2
    <3>2. PICK off : Laid(key[w], parts[w], off)
      BY DEF IKey
    <3>3. s \in Seq(Octets) /\ Len(s) \in Nat
      BY SubscriptsAre
    <3>4. Len(key[w]) \in Nat
      BY <3>2, LaidFacts
    <3>5. Len(s) < 65536
      <4>1. LengthPrefixSize(Len(s)) \in Nat
        BY DEF LengthPrefixSize
      <4>2. Len(key[w]) + LengthPrefixSize(Len(s)) + Len(s) <= 256
        BY <1>1 DEF ConcatFits, MaxKeySize
      <4> QED BY <3>3, <3>4, <4>1, <4>2
    <3>6. \E new : Laid(ConcatPrefix(key[w], s), Append(parts[w], s), new)
      BY <3>2, <3>3, <3>5, ChildLaid
    <3> QED BY <3>1, <3>6
  <2> QED BY <2>1, <2>2
<1> QED BY <1>3, <1>4 DEF IKey

\* key_prefix leaves the first subscripts as they are laid.
LEMMA AscendLaid ==
  ASSUME IKey, NEW w \in Which, NEW n \in 0 .. (Len(parts[w]) - 1), Ascend(w, n)
  PROVE  IKey'
<1>1. /\ key' = [key EXCEPT ![w] = KeyPrefix(key[w], n)]
      /\ parts' = [parts EXCEPT ![w] = SubSeq(parts[w], 1, n)]
  BY DEF Ascend
<1>2. DOMAIN parts = Which /\ DOMAIN key = Which
  BY DEF IKey
<1>3. DOMAIN parts' = Which /\ DOMAIN key' = Which
  BY <1>1, <1>2
<1>4. ASSUME NEW v \in Which PROVE \E off : Laid(key'[v], parts'[v], off)
  <2>1. CASE v # w
    <3>1. key'[v] = key[v] /\ parts'[v] = parts[v]
      BY <1>1, <1>2, <2>1
    <3> QED BY <3>1 DEF IKey
  <2>2. CASE v = w
    <3>1. key'[v] = KeyPrefix(key[w], n) /\ parts'[v] = SubSeq(parts[w], 1, n)
      BY <1>1, <1>2, <2>2
    <3>2. PICK off : Laid(key[w], parts[w], off)
      BY DEF IKey
    <3>3. Len(parts[w]) \in Nat
      BY <3>2, LaidFacts
    <3>4. n \in 0 .. Len(parts[w])
      BY <3>3
    <3>5. \E new : Laid(KeyPrefix(key[w], n), SubSeq(parts[w], 1, n), new)
      BY <3>2, <3>4, AncestorLaid
    <3> QED BY <3>1, <3>5
  <2> QED BY <2>1, <2>2
<1> QED BY <1>3, <1>4 DEF IKey

\* Every key a program reaches is laid out from its subscripts.
THEOREM KeysAreLaid == KeySpec => []IKey
<1>1. KInit => IKey
  BY InitLaid
<1>2. IKey /\ [KNext]_kvars => IKey'
  <2> SUFFICES ASSUME IKey, [KNext]_kvars PROVE IKey'
    OBVIOUS
  <2>1. CASE UNCHANGED kvars
    BY <2>1 DEF IKey, kvars
  <2>2. ASSUME NEW w \in Which, NEW s \in Subscripts, Descend(w, s) PROVE IKey'
    BY <2>2, DescendLaid
  <2>3. ASSUME NEW w \in Which, NEW n \in Depths \cap 0..(Len(parts[w]) - 1), Ascend(w, n)
        PROVE  IKey'
    <3>1. n \in 0 .. (Len(parts[w]) - 1)
      OBVIOUS
    <3> QED BY <2>3, <3>1, AscendLaid
  <2> QED BY <2>1, <2>2, <2>3 DEF KNext
<1> QED BY <1>1, <1>2, PTL DEF KeySpec

-----------------------------------------------------------------------------
(* What the readers find. *)

\* encode_key_tuple, concat_prefix and key_prefix write the same bytes for the
\* same subscripts, tuple_length announces their number and decode_key_tuple
\* finds the subscripts again, whatever the segments and the depth.
THEOREM TuplesRead == KeySpec => []TupleReads
<1>1. IKey => TupleReads
  <2> SUFFICES ASSUME IKey, NEW w \in Which
               PROVE  /\ key[w] = EncodeKeyTuple(parts[w])
                      /\ Len(key[w]) = TupleLength(parts[w])
                      /\ DecodeKeyTuple(key[w])
                           = SubSeq(parts[w], 1, Least(Len(parts[w]), MaxSubscripts))
    BY DEF TupleReads
  <2>1. PICK off : Laid(key[w], parts[w], off)
    BY DEF IKey
  <2> QED BY <2>1, EncodeIs, LengthIs, DecodeIs
<1> QED BY <1>1, KeysAreLaid, PTL

\* subscript_equal on a subscript of the key.
LEMMA EqualIs ==
  ASSUME NEW k, NEW t, NEW off, Laid(k, t, off), NEW i \in 1 .. Len(t),
         NEW s, CString(s) = s
  PROVE  SubscriptEqual(k, i - 1, s) <=> s = t[i]
<1>1. SubscriptOffset(k, i - 1) = off[i - 1] /\ ExtractSubscript(k, i - 1) = t[i]
  BY ExtractIs
<1>2. /\ off[i - 1] \in Nat /\ off[i - 1] < Len(k) /\ off[i] <= Len(k)
      /\ Behind(k, off[i - 1]) = off[i]
  BY LaidSegment
<1>3. off[i - 1] # -1
  BY <1>2
<1>4. SubscriptEqual(k, i - 1, s) <=> t[i] = CString(s)
  BY <1>1, <1>2, <1>3, Zenon DEF SubscriptEqual
<1> QED BY <1>4, Zenon

\* Behind the last subscript there is the end of the key, and nothing to read.
LEMMA NoneBehind ==
  ASSUME NEW k, NEW t, NEW off, Laid(k, t, off)
  PROVE  /\ SubscriptOffset(k, Len(t)) = Len(k)
         /\ SubscriptOffset(k, Len(t) + 1) = -1
         /\ \A s : ~SubscriptEqual(k, Len(t), s)
<1>1. Len(t) \in Nat /\ Len(k) \in Nat /\ off[Len(t)] = Len(k)
  BY LaidFacts
<1>2. SubscriptOffset(k, Len(t)) = Len(k)
  <2>1. Len(t) \in 0 .. Len(t) + 1
    BY <1>1
  <2> QED BY <1>1, <2>1, OffsetIs
<1>3. SubscriptOffset(k, Len(t) + 1) = -1
  <2>1. Len(t) + 1 \in 0 .. Len(t) + 1 /\ ~(Len(t) + 1 <= Len(t))
    BY <1>1
  <2> QED BY <1>1, <2>1, OffsetIs
<1>4. ASSUME NEW s PROVE ~SubscriptEqual(k, Len(t), s)
  <2>1. ~(Len(k) < Len(k))
    BY <1>1
  <2> QED BY <1>2, <2>1 DEF SubscriptEqual
<1> QED BY <1>2, <1>3, <1>4

\* Every reader of hierarchical.c finds in the bytes the subscripts the key was
\* built from, for keys of any depth and every 32-bit integer.
THEOREM HierarchiesRead == KeySpec => []HierarchyReads
<1>1. IKey => HierarchyReads
  <2> SUFFICES ASSUME IKey, NEW w \in Which
               PROVE  LET k == key[w] p == parts[w] IN
        /\ SubscriptCount(k) = Len(p)
        /\ SubscriptOffset(k, Len(p)) = Len(k) /\ SubscriptOffset(k, Len(p) + 1) = -1
        /\ \A i \in 1..Len(p) :
              /\ ExtractSubscript(k, i - 1) = p[i]
              /\ \A s \in Segments : CString(s) = s =>
                    (SubscriptEqual(k, i - 1, s) <=> s = p[i])
              /\ \A n \in Integers32 : p[i] = EncodeIntegerSubscript(n) =>
                    DecodeIntegerSubscript(ExtractSubscript(k, i - 1), 0) = n
        /\ \A s \in Segments : ~SubscriptEqual(k, Len(p), s)
    BY Zenon DEF HierarchyReads
  <2> DEFINE k == key[w]
             p == parts[w]
  <2>1. PICK off : Laid(k, p, off)
    BY DEF IKey
  <2> HIDE DEF k, p
  <2>2. SubscriptCount(k) = Len(p)
    BY <2>1, CountIs
  <2>3. /\ SubscriptOffset(k, Len(p)) = Len(k) /\ SubscriptOffset(k, Len(p) + 1) = -1
        /\ \A s \in Segments : ~SubscriptEqual(k, Len(p), s)
    BY <2>1, NoneBehind
  <2>4. ASSUME NEW i \in 1 .. Len(p) PROVE ExtractSubscript(k, i - 1) = p[i]
    BY <2>1, ExtractIs
  <2>5. ASSUME NEW i \in 1 .. Len(p), NEW s \in Segments, CString(s) = s
        PROVE  SubscriptEqual(k, i - 1, s) <=> s = p[i]
    BY <2>1, <2>5, EqualIs
  <2>6. ASSUME NEW i \in 1 .. Len(p), NEW n \in Integers32, p[i] = EncodeIntegerSubscript(n)
        PROVE  DecodeIntegerSubscript(ExtractSubscript(k, i - 1), 0) = n
    <3>1. n \in -1 - MaxInt32 .. MaxInt32
      BY KeyAssumption
    <3>2. DecodeIntegerSubscript(EncodeIntegerSubscript(n), 0) = n
      BY <3>1, IntegerReads
    <3> QED BY <2>4, <2>6, <3>2
  <2> QED BY <2>2, <2>3, <2>4, <2>5, <2>6, Zenon DEF k, p
<1> QED BY <1>1, KeysAreLaid, PTL

\* For any two keys, key_has_prefix on the bytes says whether one lies in the
\* subtree of the other.
THEOREM PrefixesMeanSubtrees == KeySpec => []PrefixMeansSubtree
<1>1. IKey => PrefixMeansSubtree
  <2> SUFFICES ASSUME IKey, NEW w \in Which, NEW v \in Which
               PROVE  HasPrefix(key[w], key[v]) <=> IsPrefix(parts[v], parts[w])
    BY DEF PrefixMeansSubtree
  <2> DEFINE k == key[w]
             t == parts[w]
             r == key[v]
             u == parts[v]
  <2>1. PICK off : Laid(k, t, off)
    BY DEF IKey
  <2>2. PICK low : Laid(r, u, low)
    BY DEF IKey
  <2> HIDE DEF k, t, r, u
  <2>3. t \in Seq(Seq(Octets)) /\ u \in Seq(Seq(Octets))
    BY <2>1, <2>2, LaidFacts
  <2>4. IsPrefix(u, t) <=> Len(u) <= Len(t) /\ \A i \in 1 .. Len(u) : u[i] = t[i]
    BY <2>3, PrefixPointwise
  <2>5. ASSUME HasPrefix(k, r) PROVE IsPrefix(u, t)
    BY <2>1, <2>2, <2>4, <2>5, BytesToSubscripts
  <2>6. ASSUME IsPrefix(u, t) PROVE HasPrefix(k, r)
    BY <2>1, <2>2, <2>4, <2>6, SubscriptsToBytes
  <2> QED BY <2>5, <2>6 DEF k, t, r, u
<1> QED BY <1>1, KeysAreLaid, PTL

-----------------------------------------------------------------------------
(* Comparison, separators and compression. *)

\* The keys a and b agree on n bytes and part there: one ends or they differ.
Parting(a, b, n) ==
  /\ n \in Nat /\ n <= Len(a) /\ n <= Len(b)
  /\ \A i \in 1 .. n : a[i] = b[i]
  /\ n < Len(a) /\ n < Len(b) => a[n + 1] # b[n + 1]

\* What byte_compare says of keys that part behind n bytes.
Verdict(a, b, n) ==
  IF n < Len(a) /\ n < Len(b) THEN (IF a[n + 1] < b[n + 1] THEN -1 ELSE 1)
  ELSE IF Len(a) < Len(b) THEN -1 ELSE IF Len(a) > Len(b) THEN 1 ELSE 0

\* byte_compare decides at the first byte that differs.
LEMMA CompareIs ==
  ASSUME NEW a \in Seq(Octets), NEW b \in Seq(Octets), NEW n, Parting(a, b, n)
  PROVE  ByteCompare(a, b) = Verdict(a, b, n)
<1> DEFINE limit == Least(Len(a), Len(b))
           differ == {i \in 1 .. limit : a[i] # b[i]}
           first == CHOOSE i \in differ : \A j \in differ : i <= j
           rest == IF Len(a) < Len(b) THEN -1 ELSE IF Len(a) > Len(b) THEN 1 ELSE 0
<1>1. Len(a) \in Nat /\ Len(b) \in Nat /\ n \in Nat /\ n <= Len(a) /\ n <= Len(b)
  BY DEF Parting
<1>2. ByteCompare(a, b) = IF differ # {} THEN (IF a[first] < b[first] THEN -1 ELSE 1) ELSE rest
  BY Zenon DEF ByteCompare
<1>3. limit \in Nat /\ n <= limit /\ (limit = Len(a) \/ limit = Len(b))
      /\ limit <= Len(a) /\ limit <= Len(b)
  BY <1>1 DEF Least
<1>4. \A i \in 1 .. n : a[i] = b[i]
  BY DEF Parting
<1>5. CASE n < Len(a) /\ n < Len(b)
  <2>1. a[n + 1] # b[n + 1]
    BY <1>5 DEF Parting
  <2>2. n + 1 \in differ
    BY <1>1, <1>3, <1>5, <2>1
  <2>3. ASSUME NEW j \in differ PROVE n + 1 <= j
    BY <1>1, <1>3, <1>4
  <2>4. \A i \in differ : i \in Int
    OBVIOUS
  <2> HIDE DEF differ
  <2>5. first \in differ /\ \A j \in differ : first <= j
    BY <2>2, <2>3
  <2>6. first = n + 1
    BY <1>1, <2>2, <2>3, <2>4, <2>5
  <2> QED BY <1>2, <1>5, <2>2, <2>6 DEF Verdict
<1>6. CASE ~(n < Len(a) /\ n < Len(b))
  <2>1. n = limit
    BY <1>1, <1>3, <1>6
  <2>2. differ = {}
    BY <1>4, <2>1
  <2> HIDE DEF differ
  <2> QED BY <1>2, <1>6, <2>2 DEF Verdict
<1> QED BY <1>5, <1>6

\* common_prefix_length is the point where the keys part.
LEMMA CommonIs ==
  ASSUME NEW a \in Seq(Octets), NEW b \in Seq(Octets)
  PROVE  Parting(a, b, CommonPrefixLength(a, b))
<1> DEFINE limit == Least(Len(a), Len(b))
           same == {m \in 0 .. limit : SubSeq(a, 1, m) = SubSeq(b, 1, m)}
           n == CHOOSE m \in same : \A j \in same : j <= m
<1>1. Len(a) \in Nat /\ Len(b) \in Nat
  OBVIOUS
<1>2. limit \in Nat /\ limit <= Len(a) /\ limit <= Len(b)
  BY <1>1 DEF Least
<1>3. CommonPrefixLength(a, b) = n
  BY DEF CommonPrefixLength
<1>4. 0 \in same
  BY <1>2
<1>5. \E m \in same : \A j \in same : j <= m
  <2> DEFINE T == {x \in Nat : limit - x \in same}
  <2>1. limit \in T
    BY <1>2, <1>4
  <2>2. PICK x \in T : \A y \in T : x <= y
    <3>1. T \in SUBSET Nat /\ T # {}
      BY <2>1
    <3>2. PICK x \in T : \A y \in T : ~ (<<y, x>> \in OpToRel(<, Nat))
      <4> HIDE DEF T
      <4> QED BY <3>1, NatLessThanWellFounded, WFMin
    <3>3. \A y \in T : ~ (y < x)
      BY <3>1, <3>2 DEF OpToRel
    <3> QED BY <3>1, <3>3
  <2>3. limit - x \in same
    OBVIOUS
  <2>4. ASSUME NEW j \in same PROVE j <= limit - x
    <3>1. j \in Nat /\ j <= limit /\ limit - j \in Nat /\ limit - (limit - j) = j
      BY <1>2
    <3>2. limit - j \in T
      BY <3>1
    <3>3. x <= limit - j
      BY <2>2, <3>2
    <3> QED BY <1>2, <3>1, <3>3
  <2> QED BY <2>3, <2>4
<1>6. n \in same /\ \A j \in same : j <= n
  <2> HIDE DEF same
  <2> QED BY <1>5
<1> HIDE DEF n
<1>7. n \in Nat /\ n <= limit /\ SubSeq(a, 1, n) = SubSeq(b, 1, n)
  <2> HIDE DEF limit
  <2> QED BY <1>2, <1>6
<1>8. ASSUME NEW i \in 1 .. n PROVE a[i] = b[i]
  <2>1. SubSeq(a, 1, n)[i] = a[i] /\ SubSeq(b, 1, n)[i] = b[i]
    BY <1>1, <1>2, <1>7
  <2> QED BY <1>7, <2>1
<1>9. ASSUME n < Len(a), n < Len(b), a[n + 1] = b[n + 1] PROVE FALSE
  <2>1. n + 1 \in 0 .. limit
    BY <1>1, <1>2, <1>7, <1>9 DEF Least
  <2> DEFINE x == SubSeq(a, 1, n + 1)
             y == SubSeq(b, 1, n + 1)
  <2>2. x \in Seq(Octets) /\ y \in Seq(Octets) /\ Len(x) = n + 1 /\ Len(y) = n + 1
    BY <1>1, <1>2, <1>7, <2>1
  <2>3. ASSUME NEW i \in 1 .. n + 1 PROVE x[i] = y[i]
    <3>1. x[i] = a[i] /\ y[i] = b[i]
      BY <1>1, <1>2, <1>7, <2>1
    <3>2. i \in 1 .. n \/ i = n + 1
      BY <1>7
    <3> QED BY <1>8, <1>9, <3>1, <3>2
  <2>4. x = y
    <3> HIDE DEF x, y
    <3>1. \A i \in 1 .. Len(x) : x[i] = y[i]
      BY <2>2, <2>3
    <3> QED BY <2>2, <3>1, SeqEqual
  <2>5. n + 1 \in same
    BY <2>1, <2>4
  <2>6. n + 1 <= n
    BY <1>6, <2>5
  <2> QED BY <1>7, <2>6
<1> QED BY <1>1, <1>2, <1>3, <1>7, <1>8, <1>9 DEF Parting

\* Two keys part the same way seen from either side.
LEMMA PartingTurns ==
  ASSUME NEW a, NEW b, NEW n, Parting(a, b, n)
  PROVE  Parting(b, a, n)
BY DEF Parting

\* byte_compare is antisymmetric and zero for equal keys only.
LEMMA CompareOrders ==
  ASSUME NEW a \in Seq(Octets), NEW b \in Seq(Octets)
  PROVE  /\ ByteCompare(a, b) = -ByteCompare(b, a)
         /\ ByteEqual(a, b) <=> ByteCompare(a, b) = 0
<1> DEFINE n == CommonPrefixLength(a, b)
<1>1. Parting(a, b, n) /\ Parting(b, a, n)
  BY CommonIs, PartingTurns
<1> HIDE DEF n
<1>2. ByteCompare(a, b) = Verdict(a, b, n) /\ ByteCompare(b, a) = Verdict(b, a, n)
  BY <1>1, CompareIs
<1>3. /\ Len(a) \in Nat /\ Len(b) \in Nat /\ n \in Nat /\ n <= Len(a) /\ n <= Len(b)
      /\ n < Len(a) /\ n < Len(b) => a[n + 1] # b[n + 1]
  BY <1>1 DEF Parting
<1>4. n < Len(a) /\ n < Len(b) => a[n + 1] \in Int /\ b[n + 1] \in Int
  BY <1>3, OctetsAre
<1>5. Verdict(a, b, n) = -Verdict(b, a, n)
  BY <1>3, <1>4 DEF Verdict
<1>6. Verdict(a, b, n) = 0 <=> n = Len(a) /\ n = Len(b)
  BY <1>3 DEF Verdict
<1>7. ByteEqual(a, b) <=> n = Len(a) /\ n = Len(b)
  <2>1. \A i \in 1 .. n : a[i] = b[i]
    BY <1>1 DEF Parting
  <2>2. ASSUME n = Len(a), n = Len(b) PROVE ByteEqual(a, b)
    BY <2>1, <2>2 DEF ByteEqual
  <2>3. ASSUME ByteEqual(a, b) PROVE n = Len(a) /\ n = Len(b)
    <3>1. Len(a) = Len(b) /\ \A i \in 1 .. Len(a) : a[i] = b[i]
      BY <2>3 DEF ByteEqual
    <3>2. CASE n < Len(a)
      <4>1. n + 1 \in 1 .. Len(a)
        BY <1>3, <3>2
      <4>2. a[n + 1] = b[n + 1]
        BY <3>1, <4>1
      <4> QED BY <1>3, <3>1, <3>2, <4>2
    <3> QED BY <1>3, <3>1, <3>2
  <2> QED BY <2>2, <2>3
<1> QED BY <1>2, <1>5, <1>6, <1>7

\* The first m bytes of a key.
LEMMA Beginning ==
  ASSUME NEW a \in Seq(Octets), NEW m \in Nat, m <= Len(a), NEW x, x = SubSeq(a, 1, m)
  PROVE  x \in Seq(Octets) /\ Len(x) = m /\ \A i \in 1 .. m : x[i] = a[i]
<1>1. Len(a) \in Nat
  OBVIOUS
<1>2. ASSUME NEW i \in 1 .. m PROVE x[i] = a[i]
  BY <1>1
<1>3. x \in Seq(Octets) /\ Len(x) = m
  BY <1>1
<1> QED BY <1>2, <1>3

\* A beginning of a key is not above the key.
LEMMA BeginningIsLow ==
  ASSUME NEW a \in Seq(Octets), NEW m \in Nat, m <= Len(a), NEW x, x = SubSeq(a, 1, m)
  PROVE  ByteCompare(x, a) <= 0
<1>1. x \in Seq(Octets) /\ Len(x) = m /\ Len(a) \in Nat
  BY Beginning
<1>2. Parting(x, a, m)
  <2>1. \A i \in 1 .. m : x[i] = a[i]
    BY Beginning
  <2> QED BY <1>1, <2>1 DEF Parting
<1>3. ByteCompare(x, a) = Verdict(x, a, m)
  BY <1>1, <1>2, CompareIs
<1>4. Verdict(x, a, m) \in {-1, 0}
  BY <1>1 DEF Verdict
<1> QED BY <1>3, <1>4

\* The separator of a key and a greater one: one byte more than they share.
LEMMA SeparatorIs ==
  ASSUME NEW a \in Seq(Octets), NEW b \in Seq(Octets), ByteCompare(a, b) < 0,
         NEW n, n = CommonPrefixLength(a, b)
  PROVE  LET sep == SubSeq(b, 1, n + 1) IN
         /\ n \in Nat /\ n + 1 <= Len(b) /\ n <= Len(a)
         /\ MinimumSeparator(a, b) = sep
         /\ ByteCompare(a, sep) < 0
<1> DEFINE sep == SubSeq(b, 1, n + 1)
<1>1. Parting(a, b, n)
  BY CommonIs
<1>2. ByteCompare(a, b) = Verdict(a, b, n)
  BY <1>1, CompareIs
<1>3. /\ Len(a) \in Nat /\ Len(b) \in Nat /\ n \in Nat /\ n <= Len(a) /\ n <= Len(b)
      /\ n < Len(a) /\ n < Len(b) => a[n + 1] # b[n + 1]
  BY <1>1 DEF Parting
<1>4. n + 1 <= Len(b) /\ (n < Len(a) => a[n + 1] < b[n + 1])
  BY <1>2, <1>3 DEF Verdict
<1>5. n + 1 \in Nat /\ sep \in Seq(Octets) /\ Len(sep) = n + 1
  BY <1>3, <1>4, Beginning
<1>6. \A i \in 1 .. n + 1 : sep[i] = b[i]
  BY <1>3, <1>4, Beginning
<1> HIDE DEF sep
<1>7. sep[n + 1] = b[n + 1]
  <2>1. n + 1 \in 1 .. n + 1
    BY <1>3
  <2> QED BY <1>6, <2>1
<1>8. Parting(a, sep, n) /\ Parting(sep, a, n)
  <2>1. ASSUME NEW i \in 1 .. n PROVE a[i] = sep[i]
    <3>1. i \in 1 .. n + 1
      BY <1>3
    <3>2. a[i] = b[i]
      BY <1>1 DEF Parting
    <3> QED BY <1>6, <3>1, <3>2
  <2>2. n < Len(a) => a[n + 1] # sep[n + 1]
    BY <1>3, <1>4, <1>7
  <2>3. n \in Nat /\ n <= Len(a) /\ n <= Len(sep)
    BY <1>3, <1>5
  <2>4. Parting(a, sep, n)
    BY <2>1, <2>2, <2>3 DEF Parting
  <2> QED BY <2>4, PartingTurns
<1>9. ByteCompare(a, sep) = -1 /\ ByteCompare(sep, a) = 1
  <2>1. ByteCompare(a, sep) = Verdict(a, sep, n) /\ ByteCompare(sep, a) = Verdict(sep, a, n)
    BY <1>5, <1>8, CompareIs
  <2>2. n < Len(a) => a[n + 1] < sep[n + 1] /\ ~(sep[n + 1] < a[n + 1])
    <3> SUFFICES ASSUME n < Len(a) PROVE a[n + 1] < sep[n + 1] /\ ~(sep[n + 1] < a[n + 1])
      OBVIOUS
    <3>1. n + 1 \in 1 .. Len(a) /\ n + 1 \in 1 .. Len(b)
      BY <1>3, <1>4
    <3>2. a[n + 1] \in Octets /\ b[n + 1] \in Octets
      BY <3>1
    <3>3. a[n + 1] \in Nat /\ b[n + 1] \in Nat
      BY <3>2, OctetsAre
    <3> QED BY <1>4, <1>7, <3>3
  <2>3. Verdict(a, sep, n) = -1
    BY <1>3, <1>5, <2>2 DEF Verdict
  <2>4. Verdict(sep, a, n) = 1
    BY <1>3, <1>5, <2>2 DEF Verdict
  <2> QED BY <2>1, <2>3, <2>4
<1>10. Bytes(b, 0, n + 1) = sep
  <2>1. Least(0 + (n + 1), Len(b)) = n + 1 /\ 0 + 1 = 1
    BY <1>3, <1>4 DEF Least
  <2> QED BY <2>1 DEF Bytes, sep
<1>11. MinimumSeparator(a, b) = sep
  <2>1. ~(ByteCompare(sep, a) <= 0)
    BY <1>9
  <2>2. MinimumSeparator(a, b) = IF ByteCompare(sep, a) <= 0 THEN Bytes(a, 0, MaxKeySize) ELSE sep
    BY <1>10, Zenon DEF MinimumSeparator
  <2> QED BY <2>1, <2>2
<1>12. ByteCompare(a, sep) < 0
  BY <1>9
<1> QED BY <1>3, <1>4, <1>11, <1>12 DEF sep

\* The separator is above the left key, not above the right one, and without
\* its last byte it would not be above the left key.
LEMMA Separates ==
  ASSUME NEW a \in Seq(Octets), NEW b \in Seq(Octets), ByteCompare(a, b) < 0
  PROVE  LET sep == MinimumSeparator(a, b) IN
         /\ ByteCompare(a, sep) < 0 /\ ByteCompare(sep, b) <= 0
         /\ ByteCompare(Bytes(sep, 0, Len(sep) - 1), a) <= 0
<1> DEFINE n == CommonPrefixLength(a, b)
           sep == SubSeq(b, 1, n + 1)
           low == SubSeq(a, 1, n)
<1>1. /\ n \in Nat /\ n + 1 <= Len(b) /\ n <= Len(a)
      /\ MinimumSeparator(a, b) = sep /\ ByteCompare(a, sep) < 0
  BY SeparatorIs
<1>2. Parting(a, b, n)
  BY CommonIs
<1> HIDE DEF n
<1>3. n + 1 \in Nat /\ Len(b) \in Nat /\ Len(a) \in Nat
  BY <1>1
<1>4. ByteCompare(sep, b) <= 0
  BY <1>1, <1>3, BeginningIsLow
<1>5. sep \in Seq(Octets) /\ Len(sep) = n + 1
  BY <1>1, <1>3, Beginning
<1>6. \A i \in 1 .. n + 1 : sep[i] = b[i]
  BY <1>1, <1>3, Beginning
<1>7. low \in Seq(Octets) /\ Len(low) = n
  BY <1>1, Beginning
<1>8. \A i \in 1 .. n : low[i] = a[i]
  BY <1>1, Beginning
<1> DEFINE cut == SubSeq(sep, 1, n)
<1> HIDE DEF sep, low
<1>9. Bytes(sep, 0, Len(sep) - 1) = cut
  <2>1. Least(0 + (Len(sep) - 1), Len(sep)) = n /\ 0 + 1 = 1
    BY <1>1, <1>5 DEF Least
  <2> QED BY <2>1 DEF Bytes
<1>10. cut = low
  <2>1. n <= Len(sep)
    BY <1>1, <1>5
  <2>2. cut \in Seq(Octets) /\ Len(cut) = n
    BY <1>1, <1>5, <2>1, Beginning
  <2>3. \A i \in 1 .. n : cut[i] = sep[i]
    BY <1>1, <1>5, <2>1, Beginning
  <2> HIDE DEF cut
  <2>4. ASSUME NEW i \in 1 .. n PROVE cut[i] = low[i]
    <3>1. i \in 1 .. n + 1
      BY <1>1
    <3>2. a[i] = b[i]
      BY <1>2 DEF Parting
    <3> QED BY <1>6, <1>8, <2>3, <3>1, <3>2
  <2> QED BY <1>7, <2>2, <2>4, SeqEqual
<1>11. ByteCompare(low, a) <= 0
  BY <1>1, BeginningIsLow DEF low
<1> QED BY <1>1, <1>4, <1>9, <1>10, <1>11

\* A key compressed against another one comes back from it.
LEMMA Decompresses ==
  ASSUME NEW a \in Seq(Octets), NEW b \in Seq(Octets), NEW n, Parting(a, b, n),
         n < 256, Len(b) - n <= MaxKeySize - 2
  PROVE  DecompressKey(CompressKey(b, n), a) = b
<1> DEFINE m == Len(b) - n
           h == <<n % 256, m % 256>>
           s == SubSeq(b, n + 1, Len(b))
           c == h \o s
           low == SubSeq(a, 1, n)
<1>1. Len(a) \in Nat /\ Len(b) \in Nat /\ n \in Nat /\ n <= Len(a) /\ n <= Len(b)
  BY DEF Parting
<1>2. m \in Nat /\ m < 256 /\ n % 256 = n /\ m % 256 = m
  BY <1>1 DEF MaxKeySize
<1>3. CompressKey(b, n) = c
  BY DEF CompressKey
<1>4. h \in Seq(Octets) /\ Len(h) = 2 /\ h[1] = n /\ h[2] = m
  <2>1. n \in Octets /\ m \in Octets
    BY <1>1, <1>2, OctetsAre
  <2> HIDE DEF m
  <2>2. h = <<n, m>>
    BY <1>2
  <2> QED BY <2>1, <2>2
<1>5. s \in Seq(Octets) /\ Len(s) = m
  BY <1>1
<1>6. ASSUME NEW j \in 1 .. m PROVE s[j] = b[n + j]
  BY <1>1
<1>7. low \in Seq(Octets) /\ Len(low) = n
  BY <1>1, Beginning
<1>8. \A i \in 1 .. n : low[i] = a[i]
  BY <1>1, Beginning
<1> HIDE DEF m, h, s, low
<1> DEFINE two == 2
<1>9. /\ c \in Seq(Octets) /\ Len(c) = two + m
      /\ \A j \in 1 .. two : c[j] = h[j]
      /\ \A j \in 1 .. m : c[two + j] = s[j]
  <2>1. h \in Seq(Octets) /\ two = Len(h) /\ s \in Seq(Octets) /\ m = Len(s)
    BY <1>4, <1>5
  <2> HIDE DEF two
  <2> QED BY <2>1, Join
<1>10. c[1] = n /\ c[2] = m /\ Len(c) = 2 + m
  <2> HIDE DEF c
  <2> QED BY <1>4, <1>9
<1>11. \A j \in 1 .. m : c[2 + j] = s[j]
  <2> HIDE DEF c
  <2> QED BY <1>9
<1> DEFINE t == SubSeq(c, 3, 2 + m)
<1> HIDE DEF c
<1>12. Bytes(a, 0, n) = low
  <2>1. Least(0 + n, Len(a)) = n /\ 0 + 1 = 1
    BY <1>1 DEF Least
  <2> QED BY <2>1 DEF Bytes, low
<1>13. Bytes(c, 2, m) = t
  <2>1. Least(2 + m, Len(c)) = 2 + m /\ 2 + 1 = 3
    BY <1>2, <1>10 DEF Least
  <2> QED BY <2>1 DEF Bytes
<1>14. t = s
  <2>1. t \in Seq(Octets) /\ Len(t) = m
    BY <1>2, <1>9, <1>10
  <2>2. ASSUME NEW j \in 1 .. m PROVE t[j] = s[j]
    <3>1. t[j] = c[2 + j]
      BY <1>2, <1>9, <1>10
    <3> QED BY <1>11, <3>1
  <2> HIDE DEF t
  <2> QED BY <1>5, <2>1, <2>2, SeqEqual
<1>15. DecompressKey(c, a) = low \o s
  BY <1>10, <1>12, <1>13, <1>14 DEF DecompressKey
<1> DEFINE r == low \o s
<1>16. /\ r \in Seq(Octets) /\ Len(r) = n + m
       /\ \A j \in 1 .. n : r[j] = low[j]
       /\ \A j \in 1 .. m : r[n + j] = s[j]
  <2>1. low \in Seq(Octets) /\ n = Len(low) /\ s \in Seq(Octets) /\ m = Len(s)
    BY <1>5, <1>7
  <2> QED BY <2>1, Join
<1> HIDE DEF r
<1>17. n + m = Len(b)
  BY <1>1 DEF m
<1>18. ASSUME NEW i \in 1 .. Len(b) PROVE r[i] = b[i]
  <2>1. CASE i <= n
    <3>1. i \in 1 .. n
      BY <1>1, <2>1
    <3>2. a[i] = b[i]
      BY <3>1 DEF Parting
    <3> QED BY <1>8, <1>16, <3>1, <3>2
  <2>2. CASE i > n
    <3>1. i - n \in 1 .. m /\ n + (i - n) = i
      BY <1>1, <1>2, <1>17, <2>2
    <3>2. r[n + (i - n)] = s[i - n] /\ s[i - n] = b[n + (i - n)]
      BY <1>6, <1>16, <3>1
    <3> QED BY <3>1, <3>2
  <2> QED BY <1>1, <2>1, <2>2
<1>19. r = b
  BY <1>16, <1>17, <1>18, SeqEqual
<1> QED BY <1>3, <1>15, <1>19 DEF r

\* For any two keys a program builds, byte_compare orders them, the separator
\* separates them with the fewest bytes and compression loses nothing.
THEOREM KeysCompressAlways == KeySpec => []KeysCompress
<1>1. IKey => KeysCompress
  <2> SUFFICES ASSUME IKey, NEW w \in Which, NEW u \in Which
               PROVE  LET left == key[w] right == key[u] IN
        /\ ByteCompare(left, right) = -ByteCompare(right, left)
        /\ ByteEqual(left, right) <=> ByteCompare(left, right) = 0
        /\ ByteCompare(left, right) < 0 =>
              LET sep == MinimumSeparator(left, right) IN
              /\ ByteCompare(left, sep) < 0 /\ ByteCompare(sep, right) <= 0
              /\ ByteCompare(Bytes(sep, 0, Len(sep) - 1), left) <= 0
        /\ LET n == CommonPrefixLength(left, right) IN
           n < 256 /\ Len(right) - n <= MaxKeySize - 2 =>
              DecompressKey(CompressKey(right, n), left) = right
    BY Zenon DEF KeysCompress
  <2> DEFINE left == key[w]
             right == key[u]
             n == CommonPrefixLength(left, right)
             sep == MinimumSeparator(left, right)
  <2>1. left \in Seq(Octets) /\ right \in Seq(Octets)
    <3>1. PICK off : Laid(left, parts[w], off)
      BY DEF IKey
    <3>2. PICK low : Laid(right, parts[u], low)
      BY DEF IKey
    <3> QED BY <3>1, <3>2, LaidFacts
  <2> HIDE DEF left, right
  <2>2. /\ ByteCompare(left, right) = -ByteCompare(right, left)
        /\ ByteEqual(left, right) <=> ByteCompare(left, right) = 0
    BY <2>1, CompareOrders
  <2>3. ASSUME ByteCompare(left, right) < 0
        PROVE  /\ ByteCompare(left, sep) < 0 /\ ByteCompare(sep, right) <= 0
               /\ ByteCompare(Bytes(sep, 0, Len(sep) - 1), left) <= 0
    BY <2>1, <2>3, Separates
  <2>4. ASSUME n < 256, Len(right) - n <= MaxKeySize - 2
        PROVE  DecompressKey(CompressKey(right, n), left) = right
    <3>1. Parting(left, right, n)
      BY <2>1, CommonIs
    <3> HIDE DEF n
    <3> QED BY <2>1, <2>4, <3>1, Decompresses
  <2> QED BY <2>2, <2>3, <2>4, Zenon DEF left, right
<1> QED BY <1>1, KeysAreLaid, PTL

-----------------------------------------------------------------------------
(* The encoding of keysplit.c. *)

\* At offset o of f the segment s with its byte of length begins, and ends at e.
FlatAt(f, o, s, e) ==
  /\ o \in Nat /\ e \in Nat /\ e <= Len(f)
  /\ s \in Seq(Octets) /\ Len(s) <= 255 /\ e = o + 1 + Len(s)
  /\ f[o + 1] = Len(s)
  /\ \A j \in 1 .. Len(s) : f[o + 1 + j] = s[j]

\* The parts of t lie one behind the other in f.
Flat(f, t, off) ==
  /\ f \in Seq(Octets) /\ t \in Seq(Seq(Octets))
  /\ off \in [0 .. Len(t) -> Nat]
  /\ off[0] = 0 /\ off[Len(t)] = Len(f)
  /\ \A i \in 1 .. Len(t) : FlatAt(f, off[i - 1], t[i], off[i])

\* The parts of Flat, at one part.
LEMMA FlatFacts ==
  ASSUME NEW f, NEW t, NEW off, Flat(f, t, off)
  PROVE  /\ f \in Seq(Octets) /\ Len(f) \in Nat
         /\ t \in Seq(Seq(Octets)) /\ Len(t) \in Nat
         /\ off[0] = 0 /\ off[Len(t)] = Len(f)
         /\ \A i \in 0 .. Len(t) : off[i] \in Nat
         /\ \A i \in 1 .. Len(t) : FlatAt(f, off[i - 1], t[i], off[i])
<1>1. /\ f \in Seq(Octets) /\ t \in Seq(Seq(Octets)) /\ off \in [0 .. Len(t) -> Nat]
      /\ off[0] = 0 /\ off[Len(t)] = Len(f)
  BY DEF Flat
<1>2. Len(f) \in Nat /\ Len(t) \in Nat
  BY <1>1
<1>3. \A i \in 0 .. Len(t) : off[i] \in Nat
  BY <1>1
<1>4. \A i \in 1 .. Len(t) : FlatAt(f, off[i - 1], t[i], off[i])
  BY DEF Flat
<1> QED BY <1>1, <1>2, <1>3, <1>4

\* A segment at o: its numbers.
LEMMA FlatNumbers ==
  ASSUME NEW f, NEW o, NEW s, NEW e, FlatAt(f, o, s, e)
  PROVE  /\ o \in Nat /\ e \in Nat /\ e <= Len(f) /\ s \in Seq(Octets)
         /\ Len(s) \in Nat /\ Len(s) <= 255 /\ e = o + 1 + Len(s) /\ o < e
         /\ f[o + 1] = Len(s)
<1>1. /\ o \in Nat /\ e \in Nat /\ e <= Len(f) /\ s \in Seq(Octets)
      /\ Len(s) <= 255 /\ e = o + 1 + Len(s) /\ f[o + 1] = Len(s)
  BY DEF FlatAt
<1>2. Len(s) \in Nat
  BY <1>1
<1>3. o < e
  BY <1>1, <1>2
<1> QED BY <1>1, <1>2, <1>3

\* A segment at o is read by its byte of length.
LEMMA FlatReadsAt ==
  ASSUME NEW f \in Seq(Octets), NEW o, NEW s, NEW e, FlatAt(f, o, s, e)
  PROVE  /\ ByteAt(f, o) = Len(s)
         /\ Bytes(f, o + 1, Len(s)) = s
<1>1. /\ o \in Nat /\ e \in Nat /\ e <= Len(f) /\ s \in Seq(Octets)
      /\ Len(s) \in Nat /\ e = o + 1 + Len(s) /\ f[o + 1] = Len(s)
  BY FlatNumbers
<1>2. Len(f) \in Nat
  OBVIOUS
<1>3. ByteAt(f, o) = Len(s)
  <2>1. o < Len(f)
    BY <1>1, <1>2
  <2> QED BY <1>1, <2>1 DEF ByteAt
<1> DEFINE n == Len(s)
           r == SubSeq(f, o + 2, e)
<1>4. Bytes(f, o + 1, n) = r
  <2>1. Least(o + 1 + n, Len(f)) = e /\ (o + 1) + 1 = o + 2
    BY <1>1, <1>2 DEF Least
  <2> QED BY <2>1 DEF Bytes
<1>5. r \in Seq(Octets) /\ Len(r) = n
  BY <1>1, <1>2
<1>6. ASSUME NEW j \in 1 .. n PROVE r[j] = s[j]
  <2>1. r[j] = f[o + 1 + j]
    BY <1>1, <1>2
  <2>2. f[o + 1 + j] = s[j]
    BY DEF FlatAt
  <2> QED BY <2>1, <2>2
<1>7. r = s
  <2> HIDE DEF r
  <2> QED BY <1>1, <1>5, <1>6, SeqEqual
<1> QED BY <1>3, <1>4, <1>7

\* The bytes up to the end of a segment are those before it and the segment.
LEMMA FlatJoins ==
  ASSUME NEW f \in Seq(Octets), NEW o, NEW s, NEW e, FlatAt(f, o, s, e)
  PROVE  SubSeq(f, 1, e) = SubSeq(f, 1, o) \o FlatSegment(s)
<1>1. /\ o \in Nat /\ e \in Nat /\ e <= Len(f) /\ s \in Seq(Octets)
      /\ Len(s) \in Nat /\ Len(s) <= 255 /\ e = o + 1 + Len(s) /\ f[o + 1] = Len(s)
  BY FlatNumbers
<1> DEFINE n == Len(s)
           a == SubSeq(f, 1, o)
           c == <<n>>
           g == c \o s
           y == a \o g
           z == SubSeq(f, 1, e)
           one == 1
<1>2. Len(f) \in Nat /\ o <= Len(f)
  BY <1>1
<1>3. a \in Seq(Octets) /\ o = Len(a) /\ \A j \in 1 .. o : a[j] = f[j]
  BY <1>1, <1>2, Beginning
<1>4. z \in Seq(Octets) /\ e = Len(z) /\ \A j \in 1 .. e : z[j] = f[j]
  BY <1>1, <1>2, Beginning
<1>5. c \in Seq(Octets) /\ one = Len(c) /\ c[1] = n
  <2>1. n \in Octets
    BY <1>1, OctetsAre
  <2> HIDE DEF n
  <2> QED BY <2>1
<1> DEFINE l == one + n
<1> HIDE DEF a, c, z, n
<1>6. /\ g \in Seq(Octets) /\ l = Len(g)
      /\ \A j \in 1 .. one : g[j] = c[j]
      /\ \A j \in 1 .. n : g[one + j] = s[j]
  <2>1. s \in Seq(Octets) /\ n = Len(s)
    BY <1>1 DEF n
  <2> HIDE DEF one
  <2> QED BY <1>5, <2>1, Join
<1> HIDE DEF g
<1>7. /\ y \in Seq(Octets) /\ Len(y) = o + l
      /\ \A j \in 1 .. o : y[j] = a[j]
      /\ \A j \in 1 .. l : y[o + j] = g[j]
  <2> HIDE DEF l
  <2> QED BY <1>3, <1>6, Join
<1> HIDE DEF y
<1>8. e = o + 1 + n /\ n \in Nat /\ f[o + 1] = n
  BY <1>1 DEF n
<1>9. ASSUME NEW i \in 1 .. e PROVE y[i] = z[i]
  <2>1. z[i] = f[i]
    BY <1>4
  <2>2. CASE i <= o
    <3>1. i \in 1 .. o
      BY <1>1, <2>2
    <3> QED BY <1>3, <1>7, <2>1, <3>1
  <2>3. CASE i = o + 1
    <3>1. 1 \in 1 .. l /\ 1 \in 1 .. one
      BY <1>8
    <3>2. y[o + 1] = g[1] /\ g[1] = c[1]
      BY <1>6, <1>7, <3>1
    <3> QED BY <1>5, <1>8, <2>1, <2>3, <3>2
  <2>4. CASE i > o + 1
    <3> DEFINE j == i - o - 1
    <3>1. j \in 1 .. n /\ 1 + j \in 1 .. l /\ o + (1 + j) = i /\ o + 1 + j = i
      BY <1>1, <1>8, <2>4
    <3> HIDE DEF j
    <3>2. y[o + (1 + j)] = g[1 + j]
      BY <1>7, <3>1
    <3>3. g[1 + j] = s[j]
      BY <1>6, <3>1
    <3>4. f[o + 1 + j] = s[j]
      BY <3>1 DEF FlatAt, n
    <3> QED BY <2>1, <3>1, <3>2, <3>3, <3>4
  <2> QED BY <1>1, <2>2, <2>3, <2>4
<1>10. y = z
  <2>1. Len(y) = e
    BY <1>1, <1>7, <1>8
  <2> QED BY <1>4, <1>7, <1>9, <2>1, SeqEqual
<1> QED BY <1>10 DEF y, z, a, g, c, n, FlatSegment

\* One segment more.
LEMMA FlatChild ==
  ASSUME NEW f, NEW t, NEW off, Flat(f, t, off), NEW s \in Seq(Octets), Len(s) <= 255
  PROVE  \E new : Flat(f \o FlatSegment(s), Append(t, s), new)
<1> DEFINE M == Len(t)
           L == Len(f)
           n == Len(s)
           c == <<n>>
           g == c \o s
           y == f \o g
           u == Append(t, s)
           one == 1
           new == [i \in 0 .. M + 1 |-> IF i <= M THEN off[i] ELSE L + 1 + n]
<1>1. /\ f \in Seq(Octets) /\ L \in Nat /\ t \in Seq(Seq(Octets)) /\ M \in Nat
      /\ off[0] = 0 /\ off[M] = L /\ n \in Nat
  BY FlatFacts
<1>2. \A i \in 0 .. M : off[i] \in Nat
  BY FlatFacts
<1>3. c \in Seq(Octets) /\ one = Len(c) /\ c[1] = n
  <2>1. n \in Nat /\ n < 256
    BY <1>1
  <2> HIDE DEF n
  <2>2. n \in Octets
    BY <2>1, OctetsAre
  <2> QED BY <2>2
<1> DEFINE l == one + n
<1> HIDE DEF c
<1>4. /\ g \in Seq(Octets) /\ l = Len(g)
      /\ \A j \in 1 .. one : g[j] = c[j]
      /\ \A j \in 1 .. n : g[one + j] = s[j]
  <2> HIDE DEF one
  <2> QED BY <1>3, Join
<1> HIDE DEF g
<1>5. /\ y \in Seq(Octets) /\ Len(y) = L + l
      /\ \A j \in 1 .. L : y[j] = f[j]
      /\ \A j \in 1 .. l : y[L + j] = g[j]
  <2>1. L = Len(f)
    OBVIOUS
  <2> HIDE DEF l, L
  <2> QED BY <1>1, <1>4, <2>1, Join
<1>6. u \in Seq(Seq(Octets)) /\ Len(u) = M + 1 /\ u[M + 1] = s
  BY <1>1
<1>7. ASSUME NEW i \in 1 .. M PROVE u[i] = t[i]
  BY <1>1
<1> HIDE DEF y, u, M, L, n
<1>8. /\ new \in [0 .. Len(u) -> Nat] /\ new[0] = 0 /\ new[Len(u)] = Len(y)
  <2>1. ASSUME NEW i \in 0 .. M + 1 PROVE (IF i <= M THEN off[i] ELSE L + 1 + n) \in Nat
    BY <1>1, <1>2
  <2>2. new \in [0 .. Len(u) -> Nat]
    BY <1>6, <2>1
  <2>3. new[0] = 0
    BY <1>1
  <2>4. new[M + 1] = L + 1 + n
    BY <1>1
  <2>5. Len(y) = L + 1 + n
    BY <1>1, <1>5
  <2> QED BY <1>6, <2>2, <2>3, <2>4, <2>5
<1>9. ASSUME NEW i \in 1 .. M + 1 PROVE FlatAt(y, new[i - 1], u[i], new[i])
  <2>1. CASE i <= M
    <3> DEFINE o == off[i - 1]
               e == off[i]
               a == t[i]
    <3>1. i \in 1 .. M /\ i - 1 \in 0 .. M + 1 /\ i - 1 <= M /\ i \in 0 .. M + 1
      BY <1>1, <2>1
    <3>2. new[i - 1] = o /\ new[i] = e /\ u[i] = a
      BY <1>7, <2>1, <3>1
    <3>3. FlatAt(f, o, a, e)
      BY <3>1, FlatFacts DEF M
    <3> HIDE DEF o, e, a
    <3>4. /\ o \in Nat /\ e \in Nat /\ e <= L /\ a \in Seq(Octets) /\ Len(a) \in Nat
          /\ Len(a) <= 255 /\ e = o + 1 + Len(a) /\ f[o + 1] = Len(a)
      BY <3>3, FlatNumbers DEF L
    <3>5. e <= Len(y)
      BY <1>1, <1>5, <3>4
    <3>6. y[o + 1] = Len(a)
      <4>1. o + 1 \in 1 .. L
        BY <1>1, <3>4
      <4> QED BY <1>5, <3>4, <4>1
    <3>7. ASSUME NEW j \in 1 .. Len(a) PROVE y[o + 1 + j] = a[j]
      <4>1. o + 1 + j \in 1 .. L
        BY <1>1, <3>4
      <4>2. f[o + 1 + j] = a[j]
        BY <3>3 DEF FlatAt
      <4> QED BY <1>5, <4>1, <4>2
    <3>8. FlatAt(y, o, a, e)
      BY <3>4, <3>5, <3>6, <3>7 DEF FlatAt
    <3> QED BY <3>2, <3>8
  <2>2. CASE i = M + 1
    <3>1. new[i - 1] = L /\ new[i] = L + 1 + n /\ u[i] = s
      BY <1>1, <1>6, <2>2
    <3>2. n = Len(s) /\ n <= 255
      BY DEF n
    <3>3. L + 1 + n <= Len(y)
      BY <1>1, <1>5
    <3>4. y[L + 1] = n
      <4>1. 1 \in 1 .. l /\ 1 \in 1 .. one
        BY <1>1
      <4> QED BY <1>3, <1>4, <1>5, <4>1
    <3>5. ASSUME NEW j \in 1 .. n PROVE y[L + 1 + j] = s[j]
      <4>1. 1 + j \in 1 .. l /\ L + (1 + j) = L + 1 + j
        BY <1>1
      <4>2. y[L + (1 + j)] = g[1 + j]
        BY <1>5, <4>1
      <4>3. g[1 + j] = s[j]
        BY <1>4
      <4> QED BY <4>1, <4>2, <4>3
    <3>6. L \in Nat /\ L + 1 + n \in Nat
      BY <1>1
    <3>7. FlatAt(y, L, s, L + 1 + n)
      BY <3>2, <3>3, <3>4, <3>5, <3>6 DEF FlatAt
    <3> QED BY <3>1, <3>7
  <2> QED BY <1>1, <2>1, <2>2
<1>10. Flat(y, u, new)
  <2> HIDE DEF new
  <2> QED BY <1>5, <1>6, <1>8, <1>9 DEF Flat
<1>11. y = f \o FlatSegment(s)
  BY DEF y, g, c, n, FlatSegment
<1> QED BY <1>10, <1>11 DEF u

\* So every list of parts that are short enough has a flat key.
LEMMA FlatExists ==
  ASSUME NEW t \in Seq(Seq(Octets)), \A i \in 1 .. Len(t) : Len(t[i]) <= 255
  PROVE  \E f, off : Flat(f, t, off)
<1> DEFINE M == Len(t)
           Has(u) == \E f, off : Flat(f, u, off)
           T == {n \in Nat : n <= M => Has(SubSeq(t, 1, n))}
<1>1. M \in Nat
  OBVIOUS
<1>2. 0 \in T
  <2>1. SubSeq(t, 1, 0) = <<>>
    OBVIOUS
  <2> DEFINE off == [i \in 0 .. 0 |-> 0]
  <2>2. <<>> \in Seq(Octets) /\ <<>> \in Seq(Seq(Octets)) /\ Len(<<>>) = 0
    OBVIOUS
  <2>3. off \in [0 .. 0 -> Nat] /\ off[0] = 0
    OBVIOUS
  <2> HIDE DEF off
  <2>4. Flat(<<>>, <<>>, off)
    BY <2>2, <2>3 DEF Flat
  <2> QED BY <2>1, <2>4
<1>3. ASSUME NEW n \in Nat, n \in T PROVE n + 1 \in T
  <2> SUFFICES ASSUME n + 1 <= M PROVE Has(SubSeq(t, 1, n + 1))
    OBVIOUS
  <2> DEFINE u == SubSeq(t, 1, n)
             s == t[n + 1]
  <2>1. n <= M /\ n + 1 \in 1 .. M
    BY <1>1
  <2>2. PICK f, off : Flat(f, u, off)
    BY <1>3, <2>1
  <2>3. s \in Seq(Octets) /\ Len(s) <= 255
    BY <2>1
  <2>4. SubSeq(t, 1, n + 1) = Append(u, s)
    BY <2>1
  <2> HIDE DEF u, s
  <2>5. \E new : Flat(f \o FlatSegment(s), Append(u, s), new)
    BY <2>2, <2>3, FlatChild
  <2> QED BY <2>4, <2>5
<1>4. Nat \subseteq T
  <2> HIDE DEF T
  <2> QED BY <1>2, <1>3, NatSetInduction
<1>5. Has(SubSeq(t, 1, M))
  BY <1>1, <1>4
<1>6. SubSeq(t, 1, M) = t
  BY SubSeqFull
<1> QED BY <1>5, <1>6

\* The offsets of a flat key grow.
LEMMA FlatGrows ==
  ASSUME NEW f, NEW t, NEW off, Flat(f, t, off), NEW n \in 0 .. Len(t), NEW i \in 0 .. n
  PROVE  off[i] + (n - i) <= off[n]
<1> DEFINE M == Len(t)
           T == {d \in Nat : i + d <= M => off[i] + d <= off[i + d]}
<1>1. M \in Nat /\ n \in Nat /\ i \in Nat /\ i <= n /\ n <= M
  BY FlatFacts
<1>2. \A j \in 0 .. M : off[j] \in Nat
  BY FlatFacts
<1>3. 0 \in T
  <2>1. i \in 0 .. M /\ i + 0 = i
    BY <1>1
  <2>2. off[i] \in Nat
    BY <1>2, <2>1
  <2> QED BY <2>1, <2>2
<1>4. ASSUME NEW d \in Nat, d \in T PROVE d + 1 \in T
  <2> SUFFICES ASSUME i + (d + 1) <= M PROVE off[i] + (d + 1) <= off[i + (d + 1)]
    OBVIOUS
  <2> DEFINE x == i + (d + 1)
  <2>1. x \in 1 .. M /\ x - 1 = i + d /\ i + d <= M /\ i \in 0 .. M /\ i + d \in 0 .. M
    BY <1>1
  <2>2. FlatAt(f, off[x - 1], t[x], off[x])
    BY <2>1, FlatFacts
  <2>3. off[x - 1] < off[x] /\ off[x] \in Nat
    BY <2>2, FlatNumbers
  <2>4. off[i] + d <= off[i + d] /\ off[i] \in Nat /\ off[i + d] \in Nat
    BY <1>2, <1>4, <2>1
  <2>5. off[i + d] < off[x]
    BY <2>1, <2>3
  <2> HIDE DEF x
  <2>6. off[i] + (d + 1) <= off[x]
    BY <2>3, <2>4, <2>5
  <2> QED BY <2>6 DEF x
<1>5. Nat \subseteq T
  <2> HIDE DEF T
  <2> QED BY <1>3, <1>4, NatSetInduction
<1>6. n - i \in Nat /\ i + (n - i) = n /\ n - i \in T
  BY <1>1, <1>5
<1> QED BY <1>1, <1>6

\* make_key_parts writes the flat key.
LEMMA PartsAre ==
  ASSUME NEW k, NEW t, NEW off, Flat(k, t, off), Len(t) <= MaxSubscripts, Len(k) <= MaxKeySize
  PROVE  MakeKeyParts(t) = k
<1> DEFINE N == Len(t)
           c == [k |-> <<>>, full |-> FALSE]
           State(i) == [k |-> SubSeq(k, 1, off[i]), full |-> FALSE]
           G == [i \in 0 .. N |-> State(i)]
           Eq(g) == g = [i \in 0 .. N |-> IF i = 0 THEN c ELSE PartNext(g[i - 1], Cut(t[i]))]
           f == CHOOSE g : Eq(g)
<1>1. N \in Nat /\ off[0] = 0 /\ off[N] = Len(k) /\ k \in Seq(Octets) /\ Len(k) \in Nat
  BY FlatFacts
<1>2. MakeKeyParts(t) = f[N].k
  <2>1. Least(Len(t), MaxSubscripts) = N
    BY DEF Least
  <2> QED BY <2>1, Zenon DEF MakeKeyParts
<1>3. ASSUME NEW i \in 1 .. N PROVE PartNext(State(i - 1), Cut(t[i])) = State(i)
  <2> DEFINE o == off[i - 1]
             e == off[i]
             s == t[i]
             b == State(i - 1)
  <2>1. FlatAt(k, o, s, e)
    BY FlatFacts
  <2> HIDE DEF o, e, s
  <2>2. /\ o \in Nat /\ e \in Nat /\ e <= Len(k) /\ s \in Seq(Octets) /\ Len(s) \in Nat
        /\ Len(s) <= 255 /\ e = o + 1 + Len(s)
    BY <2>1, FlatNumbers
  <2>3. SubSeq(k, 1, e) = SubSeq(k, 1, o) \o FlatSegment(s)
    BY <1>1, <2>1, FlatJoins
  <2>4. Cut(s) = s
    <3>1. Least(Len(s), MaxSegmentLen) = Len(s)
      BY <2>2 DEF Least, MaxSegmentLen
    <3>2. SubSeq(s, 1, Len(s)) = s
      BY <2>2, SubSeqFull
    <3> QED BY <3>1, <3>2 DEF Cut
  <2>5. b.k = SubSeq(k, 1, o) /\ b.full = FALSE
    BY DEF o
  <2>6. Len(SubSeq(k, 1, o)) = o
    <3>1. o <= Len(k)
      BY <1>1, <2>2
    <3> QED BY <1>1, <2>2, <3>1, Beginning
  <2> HIDE DEF b
  <2>7. ~(o + 1 + Len(s) > MaxKeySize)
    BY <1>1, <2>2 DEF MaxKeySize
  <2>8. PartNext(b, s) = [k |-> SubSeq(k, 1, o) \o FlatSegment(s), full |-> FALSE]
    BY <2>5, <2>6, <2>7, Zenon DEF PartNext
  <2>9. PartNext(b, s) = [k |-> SubSeq(k, 1, e), full |-> FALSE]
    BY <2>3, <2>8, Zenon
  <2> QED BY <2>4, <2>9 DEF b, s, e
<1>4. SubSeq(k, 1, 0) = <<>> /\ SubSeq(k, 1, Len(k)) = k
  BY <1>1, SubSeqFull
<1>5. State(0) = c /\ State(N).k = k
  BY <1>1, <1>4
<1> HIDE DEF State, N, c
<1>6. ASSUME NEW i \in 0 .. N PROVE G[i] = IF i = 0 THEN c ELSE PartNext(G[i - 1], Cut(t[i]))
  <2>1. CASE i = 0
    BY <1>1, <1>5, <2>1
  <2>2. CASE i # 0
    <3>1. i \in 1 .. N /\ i - 1 \in 0 .. N
      BY <1>1, <2>2
    <3>2. G[i] = State(i) /\ G[i - 1] = State(i - 1)
      BY <3>1
    <3> QED BY <1>3, <2>2, <3>1, <3>2
  <2> QED BY <2>1, <2>2
<1>7. G = [i \in 0 .. N |-> G[i]] /\ G[N].k = k
  <2>1. G[N] = State(N)
    BY <1>1
  <2> QED BY <1>5, <2>1
<1> HIDE DEF G
<1>8. Eq(G)
  BY <1>6, <1>7
<1>9. Eq(f)
  BY <1>8
<1> HIDE DEF f
<1>10. Alike(f, G, N)
  <2>1. 0 \in 0 .. N /\ \A i \in 1 .. N : i \in 0 .. N /\ i # 0
    BY <1>1
  <2> QED BY <1>8, <1>9, <2>1 DEF Alike
<1>11. f[N] = G[N]
  BY <1>1, <1>10, SameSteps
<1> QED BY <1>2, <1>7, <1>11

\* make_key is make_key_parts for one part.
LEMMA OnePart ==
  ASSUME NEW k, NEW t, NEW off, Flat(k, t, off), Len(t) = 1
  PROVE  k = MakeKey(t[1])
<1> DEFINE s == t[1]
<1>1. /\ off[0] = 0 /\ off[1] = Len(k) /\ k \in Seq(Octets) /\ FlatAt(k, off[1 - 1], s, off[1])
      /\ 1 - 1 = 0
  BY FlatFacts
<1>2. FlatAt(k, 0, s, Len(k))
  BY <1>1
<1> HIDE DEF s
<1>3. s \in Seq(Octets) /\ Len(s) \in Nat /\ Len(s) <= 255
  BY <1>2, FlatNumbers
<1>4. SubSeq(k, 1, Len(k)) = SubSeq(k, 1, 0) \o FlatSegment(s)
  BY <1>1, <1>2, FlatJoins
<1>5. SubSeq(k, 1, Len(k)) = k /\ SubSeq(k, 1, 0) = <<>>
  BY <1>1, SubSeqFull
<1>6. Cut(s) = s
  <2>1. Least(Len(s), MaxSegmentLen) = Len(s)
    BY <1>3 DEF Least, MaxSegmentLen
  <2>2. SubSeq(s, 1, Len(s)) = s
    BY <1>3, SubSeqFull
  <2> QED BY <2>1, <2>2 DEF Cut
<1>7. <<>> \o FlatSegment(s) = FlatSegment(s)
  <2>1. FlatSegment(s) \in Seq(Nat)
    <3>1. <<Len(s)>> \in Seq(Nat)
      BY <1>3
    <3>2. s \in Seq(Nat)
      BY <1>3, OctetsAre
    <3> QED BY <3>1, <3>2, ConcatProperties DEF FlatSegment
  <2> QED BY <2>1, ConcatEmptySeq
<1> QED BY <1>4, <1>5, <1>6, <1>7 DEF s, MakeKey

\* Where every part is short the two encodings are one.
LEMMA ShortIsFlat ==
  ASSUME NEW k, NEW t, NEW off, Laid(k, t, off), \A i \in 1 .. Len(t) : Len(t[i]) < 128
  PROVE  Flat(k, t, off)
<1>1. /\ k \in Seq(Octets) /\ t \in Seq(Seq(Octets)) /\ off \in [0 .. Len(t) -> Nat]
      /\ off[0] = 0 /\ off[Len(t)] = Len(k)
  BY DEF Laid
<1>2. ASSUME NEW i \in 1 .. Len(t) PROVE FlatAt(k, off[i - 1], t[i], off[i])
  <2> DEFINE o == off[i - 1]
             e == off[i]
             s == t[i]
  <2>1. /\ o \in Nat /\ e \in Nat /\ e <= Len(k) /\ s \in Seq(Octets) /\ Len(s) \in Nat
        /\ e = o + LengthPrefixSize(Len(s)) + Len(s) /\ SegmentAt(k, o, s, e)
    BY LaidSegment
  <2>2. Len(s) < 128
    OBVIOUS
  <2> HIDE DEF o, e, s
  <2>3. LengthPrefixSize(Len(s)) = 1 /\ LengthPrefix(Len(s))[1] = Len(s)
    <3>1. Len(s) < 65536
      BY <2>1, <2>2
    <3> QED BY <2>1, <2>2, <3>1, PrefixShape
  <2>4. k[o + 1] = Len(s)
    <3>1. 1 \in 1 .. LengthPrefixSize(Len(s))
      BY <2>3
    <3> QED BY <2>1, <2>3, <3>1 DEF SegmentAt
  <2>5. \A j \in 1 .. Len(s) : k[o + 1 + j] = s[j]
    BY <2>1, <2>3 DEF SegmentAt
  <2>6. e = o + 1 + Len(s) /\ Len(s) <= 255
    BY <2>1, <2>2, <2>3
  <2>7. FlatAt(k, o, s, e)
    BY <2>1, <2>4, <2>5, <2>6 DEF FlatAt
  <2> QED BY <2>7 DEF o, e, s
<1> QED BY <1>1, <1>2 DEF Flat

\* The flat key of the same parts is not longer.
LEMMA FlatIsShorter ==
  ASSUME NEW k, NEW t, NEW off, Laid(k, t, off), NEW f, NEW low, Flat(f, t, low)
  PROVE  Len(f) <= Len(k)
<1> DEFINE M == Len(t)
           T == {n \in Nat : n <= M => low[n] <= off[n]}
<1>1. M \in Nat /\ off[0] = 0 /\ low[0] = 0 /\ off[M] = Len(k) /\ low[M] = Len(f)
  BY LaidFacts, FlatFacts
<1>2. 0 \in T
  BY <1>1
<1>3. ASSUME NEW n \in Nat, n \in T PROVE n + 1 \in T
  <2> SUFFICES ASSUME n + 1 <= M PROVE low[n + 1] <= off[n + 1]
    OBVIOUS
  <2> DEFINE i == n + 1
  <2>1. i \in 1 .. M /\ i - 1 = n /\ n <= M
    BY <1>1
  <2>2. /\ off[i - 1] \in Nat /\ off[i] \in Nat /\ Len(t[i]) \in Nat
        /\ off[i] = off[i - 1] + LengthPrefixSize(Len(t[i])) + Len(t[i])
    BY <2>1, LaidSegment
  <2>3. FlatAt(f, low[i - 1], t[i], low[i])
    BY <2>1, FlatFacts
  <2>4. low[i - 1] \in Nat /\ low[i] = low[i - 1] + 1 + Len(t[i])
    BY <2>3, FlatNumbers
  <2>5. low[n] <= off[n]
    BY <1>3, <2>1
  <2>6. LengthPrefixSize(Len(t[i])) \in {1, 3}
    BY DEF LengthPrefixSize
  <2> DEFINE x == off[i - 1]
             y == low[i - 1]
             u == off[i]
             v == low[i]
             n1 == Len(t[i])
             h == LengthPrefixSize(n1)
  <2>7. y <= x
    BY <2>1, <2>5
  <2>8. x \in Nat /\ y \in Nat /\ n1 \in Nat /\ u = x + h + n1 /\ v = y + 1 + n1
    BY <2>2, <2>4
  <2> HIDE DEF x, y, u, v, h, n1
  <2>9. h \in Nat /\ h >= 1
    BY <2>6 DEF h, n1
  <2>10. v <= u
    BY <2>7, <2>8, <2>9
  <2> QED BY <2>10 DEF u, v
<1>4. Nat \subseteq T
  <2> HIDE DEF T
  <2> QED BY <1>2, <1>3, NatSetInduction
<1> QED BY <1>1, <1>4

\* decode_key_tuple reads the parts of a flat key, if none has the marker for
\* its length.
LEMMA FlatDecodes ==
  ASSUME NEW k, NEW t, NEW off, Flat(k, t, off), Len(t) <= MaxSubscripts,
         \A i \in 1 .. Len(t) : Len(t[i]) < LongMarker
  PROVE  DecodeKeyTuple(k) = t
<1> DEFINE N == MaxSubscripts
           M == Len(t)
           m(n) == Least(M, n)
           First(i) == SubSeq(t, 1, i)
           c == [o |-> 0, out |-> <<>>]
           State(i) == [o |-> off[i], out |-> First(i)]
           G == [n \in 0 .. N |-> State(m(n))]
           Eq(g) == g = [n \in 0 .. N |-> IF n = 0 THEN c ELSE DecodeNext(k, g[n - 1])]
           f == CHOOSE g : Eq(g)
<1>1. /\ M \in Nat /\ off[0] = 0 /\ off[M] = Len(k) /\ Len(k) \in Nat /\ N \in Nat
      /\ t \in Seq(Seq(Octets)) /\ k \in Seq(Octets) /\ M <= N
  BY FlatFacts DEF MaxSubscripts
<1>2. DecodeKeyTuple(k) = f[N].out
  BY DEF DecodeKeyTuple
<1>3. ASSUME NEW i \in 1 .. M PROVE DecodeNext(k, State(i - 1)) = State(i)
  <2> DEFINE o == off[i - 1]
             s == t[i]
             e == off[i]
             b == State(i - 1)
  <2>1. FlatAt(k, o, s, e)
    BY FlatFacts
  <2>2. Len(s) < LongMarker
    OBVIOUS
  <2>3. Append(First(i - 1), s) = First(i)
    <3>1. First(i) = First(i - 1) \o <<t[i]>>
      <4>1. 1 \in 1 .. Len(t) /\ i \in 1 .. Len(t)
        BY <1>1
      <4> QED BY <1>1, <4>1, SubSeqRecursiveSecond
    <3>2. First(i - 1) \in Seq(Seq(Octets)) /\ t[i] \in Seq(Octets)
      BY <1>1
    <3> QED BY <3>1, <3>2, AppendIsConcat
  <2>4. b.o = o /\ b.out = First(i - 1)
    OBVIOUS
  <2> HIDE DEF o, s, e, First, b
  <2>5. /\ o \in Nat /\ e \in Nat /\ o < e /\ e <= Len(k) /\ Len(s) \in Nat /\ e = o + 1 + Len(s)
    BY <2>1, FlatNumbers
  <2>6. ByteAt(k, o) = Len(s) /\ Bytes(k, o + 1, Len(s)) = s
    BY <1>1, <2>1, FlatReadsAt
  <2>7. Len(s) # LongMarker
    <3>1. LongMarker \in Nat
      BY DEF LongMarker
    <3> QED BY <2>2, <2>5, <3>1
  <2>8. DecodeLengthPrefix(k, o) = Len(s)
    BY <2>6, <2>7 DEF DecodeLengthPrefix
  <2>9. ~ (o >= Len(k))
    BY <1>1, <2>5
  <2>10. DecodeNext(k, b) = [o |-> o + 1 + Len(s), out |-> Append(b.out, s)]
    BY <2>4, <2>6, <2>7, <2>8, <2>9, Zenon DEF DecodeNext
  <2>11. DecodeNext(k, b) = [o |-> e, out |-> First(i)]
    BY <2>3, <2>4, <2>5, <2>10
  <2> QED BY <2>11 DEF b, e
<1>4. DecodeNext(k, State(M)) = State(M)
  BY <1>1 DEF DecodeNext
<1>5. State(0) = c /\ State(M).out = t
  <2>1. First(0) = <<>> /\ First(M) = t
    BY <1>1, SubSeqFull
  <2> QED BY <1>1, <2>1
<1>6. m(0) = 0 /\ \A n \in 1 .. N : \/ n <= M /\ m(n) = n /\ m(n - 1) = n - 1
                                    \/ n > M /\ m(n) = M /\ m(n - 1) = M
  BY <1>1 DEF Least
<1>7. m(N) = M
  BY <1>1 DEF Least
<1> HIDE DEF M, N, State, m, c
<1>8. ASSUME NEW n \in 0 .. N PROVE G[n] = IF n = 0 THEN c ELSE DecodeNext(k, G[n - 1])
  <2>1. CASE n = 0
    BY <1>1, <1>5, <1>6, <2>1
  <2>2. CASE n # 0
    <3>1. n \in 1 .. N /\ n - 1 \in 0 .. N
      BY <1>1, <2>2
    <3>2. G[n] = State(m(n)) /\ G[n - 1] = State(m(n - 1))
      BY <3>1
    <3>3. CASE n <= M /\ m(n) = n /\ m(n - 1) = n - 1
      <4>1. n \in 1 .. M
        BY <1>1, <3>1, <3>3
      <4> QED BY <1>3, <2>2, <3>2, <3>3, <4>1
    <3>4. CASE n > M /\ m(n) = M /\ m(n - 1) = M
      BY <1>4, <2>2, <3>2, <3>4
    <3> QED BY <1>6, <3>1, <3>3, <3>4
  <2> QED BY <2>1, <2>2
<1>9. G = [n \in 0 .. N |-> G[n]] /\ G[N].out = t
  <2>1. G[N] = State(m(N))
    BY <1>1
  <2> QED BY <1>5, <1>7, <2>1
<1> HIDE DEF G
<1>10. Eq(G)
  BY <1>8, <1>9
<1>11. Eq(f)
  BY <1>10
<1> HIDE DEF f
<1>12. Alike(f, G, N)
  <2>1. 0 \in 0 .. N /\ \A i \in 1 .. N : i \in 0 .. N /\ i # 0
    BY <1>1
  <2> QED BY <1>10, <1>11, <2>1 DEF Alike
<1>13. f[N] = G[N]
  BY <1>1, <1>12, SameSteps
<1> QED BY <1>2, <1>9, <1>13

-----------------------------------------------------------------------------
(* Splitting and joining strings. *)

\* The bytes a stand in s from offset o on.
Holds(s, o, a) ==
  /\ o \in Nat /\ a \in Seq(Octets) /\ o + Len(a) <= Len(s)
  /\ \A j \in 1 .. Len(a) : s[o + j] = a[j]

\* They are what Bytes reads, and they lengthen what is before them.
LEMMA HoldsReads ==
  ASSUME NEW s \in Seq(Octets), NEW o, NEW a, Holds(s, o, a), NEW n, n = Len(a)
  PROVE  /\ Bytes(s, o, n) = a
         /\ SubSeq(s, 1, o) \o a = SubSeq(s, 1, o + n)
<1>1. o \in Nat /\ a \in Seq(Octets) /\ n \in Nat /\ o + n <= Len(s) /\ Len(s) \in Nat
  BY DEF Holds
<1>2. \A j \in 1 .. n : s[o + j] = a[j]
  BY DEF Holds
<1> DEFINE r == SubSeq(s, o + 1, o + n)
           x == SubSeq(s, 1, o)
           y == x \o a
           z == SubSeq(s, 1, o + n)
<1>3. Bytes(s, o, n) = r
  <2>1. Least(o + n, Len(s)) = o + n
    BY <1>1 DEF Least
  <2> QED BY <2>1 DEF Bytes
<1>4. r = a
  <2>1. r \in Seq(Octets) /\ Len(r) = n
    BY <1>1
  <2>2. ASSUME NEW j \in 1 .. n PROVE r[j] = a[j]
    <3>1. r[j] = s[o + j]
      BY <1>1
    <3> QED BY <1>2, <3>1
  <2> HIDE DEF r
  <2> QED BY <1>1, <2>1, <2>2, SeqEqual
<1>5. x \in Seq(Octets) /\ o = Len(x) /\ \A j \in 1 .. o : x[j] = s[j]
  <2>1. o <= Len(s)
    BY <1>1
  <2> QED BY <1>1, <2>1, Beginning
<1>6. z \in Seq(Octets) /\ Len(z) = o + n /\ \A j \in 1 .. o + n : z[j] = s[j]
  <2>1. o + n \in Nat
    BY <1>1
  <2> QED BY <1>1, <2>1, Beginning
<1> HIDE DEF x, z
<1>7. /\ y \in Seq(Octets) /\ Len(y) = o + n
      /\ \A j \in 1 .. o : y[j] = x[j]
      /\ \A j \in 1 .. n : y[o + j] = a[j]
  BY <1>1, <1>5, Join
<1> HIDE DEF y
<1>8. ASSUME NEW i \in 1 .. o + n PROVE y[i] = z[i]
  <2>1. CASE i <= o
    <3>1. i \in 1 .. o
      BY <1>1, <2>1
    <3> QED BY <1>5, <1>6, <1>7, <3>1
  <2>2. CASE i > o
    <3> DEFINE j == i - o
    <3>1. j \in 1 .. n /\ o + j = i
      BY <1>1, <2>2
    <3> HIDE DEF j
    <3>2. y[o + j] = a[j] /\ s[o + j] = a[j]
      BY <1>2, <1>7, <3>1
    <3> QED BY <1>6, <3>1, <3>2
  <2> QED BY <1>1, <2>1, <2>2
<1>9. y = z
  BY <1>6, <1>7, <1>8, SeqEqual
<1> QED BY <1>3, <1>4, <1>9 DEF y, x, z

\* The two halves of it, for citing.
LEMMA HoldsBytes ==
  ASSUME NEW s \in Seq(Octets), NEW o, NEW a, Holds(s, o, a)
  PROVE  Bytes(s, o, Len(a)) = a
BY HoldsReads, Zenon

\* It continues the bytes before it.
LEMMA HoldsJoins ==
  ASSUME NEW s \in Seq(Octets), NEW o, NEW a, Holds(s, o, a)
  PROVE  SubSeq(s, 1, o) \o a = SubSeq(s, 1, o + Len(a))
BY HoldsReads, Zenon

\* No part has the delimiter, and the first and the last have bytes.
Plain(t) ==
  /\ \A i \in 1 .. Len(t) : \A j \in 1 .. Len(t[i]) : t[i][j] # Delimiter
  /\ Len(t) >= 1 => Len(t[1]) >= 1 /\ Len(t[Len(t)]) >= 1

\* The parts of a string are plain.
LEMMA StringsArePlain ==
  ASSUME NEW t \in Seq(Seq(Octets)), Strings(t)
  PROVE  Plain(t)
<1>1. ASSUME NEW i \in 1 .. Len(t), NEW j \in 1 .. Len(t[i]) PROVE t[i][j] # Delimiter
  <2>1. i \in DOMAIN t /\ j \in DOMAIN t[i]
    OBVIOUS
  <2>2. {0, Delimiter} \cap {t[i][x] : x \in DOMAIN t[i]} = {}
    BY <2>1 DEF Strings
  <2>3. t[i][j] \in {t[i][x] : x \in DOMAIN t[i]}
    BY <2>1
  <2> QED BY <2>2, <2>3
<1>2. ASSUME Len(t) >= 1 PROVE Len(t[1]) >= 1 /\ Len(t[Len(t)]) >= 1
  <2>1. t # <<>> /\ Len(t) \in Nat
    BY <1>2
  <2>2. t[1] # <<>> /\ t[Len(t)] # <<>>
    BY <2>1 DEF Strings, Last
  <2>3. t[1] \in Seq(Octets) /\ t[Len(t)] \in Seq(Octets)
    BY <1>2
  <2> QED BY <2>2, <2>3
<1> QED BY <1>1, <1>2 DEF Plain

\* The length of the string the parts make: one delimiter less than the flat key
\* has bytes of length.
JoinedLen(t, off) == IF Len(t) = 0 THEN 0 ELSE off[Len(t)] - 1

\* The string the parts make: part i at offset off[i - 1], where off are the
\* offsets of the flat key, and a delimiter in the place of the length of every
\* part but the first.
Joined(s, t, off) ==
  /\ s \in Seq(Octets) /\ Len(s) = JoinedLen(t, off)
  /\ \A i \in 1 .. Len(t) : \A j \in 1 .. Len(t[i]) : s[off[i - 1] + j] = t[i][j]
  /\ \A i \in 1 .. Len(t) : i < Len(t) => s[off[i]] = Delimiter

\* The delimiter is a byte.
LEMMA DelimiterIs == Delimiter \in Octets
<1>1. Delimiter \in 1 .. 255
  BY KeyAssumption
<1>2. Delimiter \in Nat /\ Delimiter < 256
  BY <1>1
<1> QED BY <1>2, OctetsAre

\* The place of part i in the string.
LEMMA PartPlace ==
  ASSUME NEW f, NEW t, NEW off, Flat(f, t, off), Plain(t), NEW i \in 1 .. Len(t),
         NEW L, L = JoinedLen(t, off)
  PROVE  /\ off[i - 1] \in Nat /\ off[i] \in Nat /\ L \in Nat
         /\ t[i] \in Seq(Octets) /\ Len(t[i]) \in Nat /\ Len(t[i]) <= 255
         /\ off[i] = off[i - 1] + 1 + Len(t[i])
         /\ off[i] <= Len(f)
         /\ off[i - 1] < L /\ off[i] - 1 <= L
         /\ i < Len(t) => off[i] - 1 < L
         /\ i = Len(t) => off[i] - 1 = L
<1> DEFINE M == Len(t)
<1>1. M \in Nat /\ M >= 1 /\ i \in Nat /\ off[M] = Len(f)
  BY FlatFacts
<1>2. FlatAt(f, off[i - 1], t[i], off[i])
  BY FlatFacts
<1>3. /\ off[i - 1] \in Nat /\ off[i] \in Nat /\ t[i] \in Seq(Octets) /\ Len(t[i]) \in Nat
      /\ Len(t[i]) <= 255 /\ off[i] = off[i - 1] + 1 + Len(t[i]) /\ off[i] <= Len(f)
  BY <1>2, FlatNumbers
<1>4. off[i] + (M - i) <= off[M]
  <2>1. M \in 0 .. Len(t) /\ i \in 0 .. M
    BY <1>1
  <2> QED BY <2>1, FlatGrows
<1>5. off[M] \in Nat
  <2>1. M \in 0 .. Len(t)
    BY <1>1
  <2> QED BY <2>1, FlatFacts
<1>6. L = off[M] - 1
  BY <1>1 DEF JoinedLen
<1> HIDE DEF M
<1>7. L \in Nat
  <2>1. off[M] >= 1
    <3>1. i <= M
      BY <1>1 DEF M
    <3> QED BY <1>1, <1>3, <1>4, <1>5, <3>1
  <2> QED BY <1>5, <1>6, <2>1
<1>8. i <= M
  BY <1>1 DEF M
<1>9. off[i] - 1 <= L /\ (i < M => off[i] - 1 < L)
  <2> DEFINE e == off[i]
             z == off[M]
             d == M - i
  <2>1. e \in Nat /\ z \in Nat /\ e + d <= z /\ L = z - 1
    BY <1>3, <1>4, <1>5, <1>6
  <2>2. d \in Nat /\ (i < M => d >= 1)
    BY <1>1, <1>8
  <2> HIDE DEF e, z, d
  <2>3. e - 1 <= L
    BY <2>1, <2>2
  <2>4. ASSUME i < M PROVE e - 1 < L
    <3>1. d >= 1
      BY <2>2, <2>4
    <3> QED BY <2>1, <3>1, <2>2
  <2> QED BY <2>3, <2>4 DEF e
<1>10. i = M => off[i] - 1 = L /\ off[i - 1] < L
  <2> SUFFICES ASSUME i = M PROVE off[i] - 1 = L /\ off[i - 1] < L
    OBVIOUS
  <2>1. Len(t[i]) >= 1
    <3>1. Len(t[Len(t)]) >= 1
      BY <1>1 DEF Plain, M
    <3> QED BY <3>1 DEF M
  <2> QED BY <1>3, <1>5, <1>6, <2>1
<1>11. off[i - 1] < L
  BY <1>1, <1>3, <1>7, <1>8, <1>9, <1>10
<1> QED BY <1>3, <1>7, <1>9, <1>10, <1>11 DEF M

\* The string exists.
LEMMA JoinedExists ==
  ASSUME NEW f, NEW t, NEW off, Flat(f, t, off), Plain(t)
  PROVE  \E s : Joined(s, t, off)
<1> DEFINE M == Len(t)
           L == JoinedLen(t, off)
           Sep(x) == \E i \in 1 .. M : i < M /\ x = off[i]
           s == [x \in 1 .. L |-> IF Sep(x) THEN Delimiter ELSE f[x + 1]]
<1>1. /\ f \in Seq(Octets) /\ M \in Nat /\ Len(f) \in Nat /\ off[M] = Len(f)
  BY FlatFacts
<1>2. L \in Nat /\ L <= Len(f) /\ (M >= 1 => L + 1 = Len(f))
  <2>1. CASE M = 0
    BY <1>1, <2>1 DEF JoinedLen
  <2>2. CASE M # 0
    <3>1. M \in 1 .. Len(t)
      BY <1>1, <2>2
    <3>2. L \in Nat
      BY <3>1, PartPlace
    <3>3. L = off[M] - 1
      BY <2>2 DEF JoinedLen
    <3> HIDE DEF L
    <3> QED BY <1>1, <3>2, <3>3
  <2> QED BY <2>1, <2>2
<1> HIDE DEF L, Sep
<1>3. ASSUME NEW x \in 1 .. L PROVE (IF Sep(x) THEN Delimiter ELSE f[x + 1]) \in Octets
  <2>1. M >= 1
    BY <1>1, <1>2 DEF L, JoinedLen
  <2>2. x + 1 \in 1 .. Len(f)
    BY <1>1, <1>2, <2>1
  <2>3. f[x + 1] \in Octets
    BY <1>1, <2>2
  <2> QED BY <2>3, DelimiterIs
<1>4. s \in Seq(Octets) /\ Len(s) = L
  BY <1>2, <1>3
<1>5. ASSUME NEW i \in 1 .. M, NEW j \in 1 .. Len(t[i]) PROVE s[off[i - 1] + j] = t[i][j]
  <2> DEFINE o == off[i - 1]
             x == o + j
  <2>1. /\ o \in Nat /\ off[i] \in Nat /\ Len(t[i]) \in Nat
        /\ off[i] = o + 1 + Len(t[i]) /\ off[i] - 1 <= L
    BY PartPlace DEF L
  <2>2. x \in Nat /\ o < x /\ x < off[i] /\ x \in 1 .. L
    <3> DEFINE n == Len(t[i])
               e == off[i]
    <3>1. j \in Nat /\ j >= 1 /\ j <= n /\ o \in Nat /\ n \in Nat /\ e \in Nat
          /\ e = o + 1 + n /\ e - 1 <= L /\ L \in Nat
      BY <1>2, <2>1
    <3> HIDE DEF o, n, e
    <3>2. x \in Nat /\ o < x /\ x < e /\ x \in 1 .. L
      BY <3>1
    <3> QED BY <3>2 DEF e
  <2>3. f[o + 1 + j] = t[i][j]
    <3>1. FlatAt(f, off[i - 1], t[i], off[i])
      BY FlatFacts
    <3> QED BY <3>1 DEF FlatAt
  <2>4. ~Sep(x)
    <3> SUFFICES ASSUME NEW h \in 1 .. M, x = off[h] PROVE FALSE
      BY DEF Sep
    <3>1. h \in Nat /\ i \in Nat /\ i <= M /\ h <= M
      BY <1>1
    <3>2. \A y \in 0 .. M : off[y] \in Nat
      BY FlatFacts
    <3>3. CASE h < i
      <4>1. i - 1 \in 0 .. Len(t) /\ h \in 0 .. (i - 1) /\ h \in 0 .. M
        BY <1>1, <3>1, <3>3
      <4>2. off[h] + ((i - 1) - h) <= off[i - 1]
        BY <4>1, FlatGrows
      <4>3. off[h] \in Nat
        BY <3>2, <4>1
      <4> HIDE DEF x
      <4>4. off[h] <= o
        BY <2>1, <3>1, <3>3, <4>2, <4>3
      <4> QED BY <2>1, <2>2, <4>3, <4>4
    <3>4. CASE h >= i
      <4>1. h \in 0 .. Len(t) /\ i \in 0 .. h
        BY <1>1, <3>1, <3>4
      <4>2. off[i] + (h - i) <= off[h]
        BY <4>1, FlatGrows
      <4>3. off[h] \in Nat
        BY <3>2, <4>1
      <4> HIDE DEF x
      <4>4. off[i] <= off[h]
        BY <2>1, <3>1, <3>4, <4>2, <4>3
      <4> QED BY <2>1, <2>2, <4>3, <4>4
    <3> QED BY <3>1, <3>3, <3>4
  <2>5. s[x] = f[x + 1]
    BY <2>2, <2>4
  <2>6. x + 1 = o + 1 + j
    BY <2>1
  <2> QED BY <2>3, <2>5, <2>6
<1>6. ASSUME NEW i \in 1 .. M, i < M PROVE s[off[i]] = Delimiter
  <2>1. off[i] \in Nat /\ off[i - 1] \in Nat /\ Len(t[i]) \in Nat
        /\ off[i] = off[i - 1] + 1 + Len(t[i]) /\ off[i] - 1 < L
    BY <1>6, PartPlace DEF L
  <2>2. off[i] \in 1 .. L
    BY <1>2, <2>1
  <2>3. Sep(off[i])
    BY <1>6 DEF Sep
  <2> QED BY <2>2, <2>3
<1>7. Joined(s, t, off)
  <2> HIDE DEF s
  <2> QED BY <1>4, <1>5, <1>6 DEF Joined, L
<1> QED BY <1>7

\* What the string has at part i.
LEMMA JoinedAt ==
  ASSUME NEW f, NEW t, NEW off, Flat(f, t, off), Plain(t), NEW s, Joined(s, t, off),
         NEW i \in 1 .. Len(t)
  PROVE  /\ Holds(s, off[i - 1], t[i])
         /\ i < Len(t) => Holds(s, off[i] - 1, <<Delimiter>>) /\ ByteAt(s, off[i] - 1) = Delimiter
<1>1. s \in Seq(Octets) /\ Len(s) = JoinedLen(t, off)
  BY DEF Joined
<1>2. /\ off[i - 1] \in Nat /\ off[i] \in Nat /\ Len(s) \in Nat
      /\ t[i] \in Seq(Octets) /\ Len(t[i]) \in Nat
      /\ off[i] = off[i - 1] + 1 + Len(t[i]) /\ off[i] - 1 <= Len(s)
      /\ i < Len(t) => off[i] - 1 < Len(s)
  BY <1>1, PartPlace
<1>3. Holds(s, off[i - 1], t[i])
  <2>1. off[i - 1] + Len(t[i]) <= Len(s)
    BY <1>2
  <2>2. \A j \in 1 .. Len(t[i]) : s[off[i - 1] + j] = t[i][j]
    BY DEF Joined
  <2> QED BY <1>2, <2>1, <2>2 DEF Holds
<1>4. ASSUME i < Len(t)
      PROVE  Holds(s, off[i] - 1, <<Delimiter>>) /\ ByteAt(s, off[i] - 1) = Delimiter
  <2> DEFINE o == off[i] - 1
             d == <<Delimiter>>
  <2>1. o \in Nat /\ o < Len(s) /\ o + 1 = off[i]
    BY <1>2, <1>4
  <2>2. s[off[i]] = Delimiter
    BY <1>4 DEF Joined
  <2> HIDE DEF o
  <2>3. ByteAt(s, o) = Delimiter
    BY <2>1, <2>2 DEF ByteAt
  <2>4. d \in Seq(Octets) /\ Len(d) = 1 /\ d[1] = Delimiter
    BY DelimiterIs
  <2>5. o + Len(d) <= Len(s)
    BY <1>2, <2>1, <2>4
  <2>6. ASSUME NEW j \in 1 .. Len(d) PROVE s[o + j] = d[j]
    <3>1. j = 1
      BY <2>4
    <3> QED BY <2>1, <2>2, <2>4, <3>1
  <2> HIDE DEF d
  <2>7. Holds(s, o, d)
    BY <2>1, <2>4, <2>5, <2>6 DEF Holds
  <2> QED BY <2>3, <2>7 DEF o, d
<1> QED BY <1>3, <1>4

\* The first n parts, joined.
JoinedTo(s, off, n) == IF n = 0 THEN <<>> ELSE SubSeq(s, 1, off[n] - 1)

\* A turn of key_unsplit takes what is joined after part i - 1 to part i.
LEMMA UnsplitTurn ==
  ASSUME NEW f, NEW t, NEW off, Flat(f, t, off), Plain(t), NEW s, Joined(s, t, off),
         Len(f) <= MaxKeySize, NEW i \in 1 .. Len(t)
  PROVE  UnsplitNext(f, MaxKeySize,
                     [o |-> off[i - 1], out |-> JoinedTo(s, off, i - 1), full |-> FALSE])
           = [o |-> off[i], out |-> JoinedTo(s, off, i), full |-> FALSE]
<1> DEFINE o == off[i - 1]
           e == off[i]
           a == t[i]
           n == Len(a)
           w == JoinedTo(s, off, i - 1)
           x == SubSeq(s, 1, o)
           z == SubSeq(s, 1, e - 1)
           b == [o |-> o, out |-> w, full |-> FALSE]
<1>1. s \in Seq(Octets) /\ Len(s) = JoinedLen(t, off) /\ f \in Seq(Octets)
  BY FlatFacts DEF Joined
<1>2. /\ o \in Nat /\ e \in Nat /\ Len(s) \in Nat /\ n \in Nat /\ e = o + 1 + n
      /\ e <= Len(f) /\ o < Len(s) /\ e - 1 <= Len(s)
  BY <1>1, PartPlace
<1>3. FlatAt(f, o, a, e)
  BY FlatFacts
<1>4. Holds(s, o, a)
  BY JoinedAt
<1>5. i \in Nat /\ i # 0 /\ Len(t) \in Nat /\ off[0] = 0 /\ Len(f) \in Nat
  BY FlatFacts
<1>6. JoinedTo(s, off, i) = z
  BY <1>5 DEF JoinedTo
<1>7. b.o = o /\ b.out = w /\ b.full = FALSE
  OBVIOUS
<1>8. \/ i = 1 /\ w = <<>> /\ x = <<>> /\ o = 0
      \/ w # <<>> /\ Append(w, Delimiter) = x /\ Len(w) < 256 /\ Len(w) \in Nat
  <2>1. CASE i = 1
    <3>1. i - 1 = 0 /\ o = 0
      BY <1>5, <2>1
    <3>2. SubSeq(s, 1, 0) = <<>>
      BY <1>1
    <3> QED BY <2>1, <3>1, <3>2 DEF JoinedTo
  <2>2. CASE i # 1
    <3> DEFINE h == i - 1
               l == off[h] - 1
               d == <<Delimiter>>
               one == 1
    <3>1. h \in 1 .. Len(t) /\ h < Len(t) /\ h # 0 /\ 1 \in 0 .. h /\ h \in 0 .. Len(t) /\ 1 \in 1 .. Len(t)
      BY <1>5, <2>2
    <3>2. w = SubSeq(s, 1, l)
      BY <3>1 DEF JoinedTo
    <3>3. Holds(s, l, d)
      BY <3>1, JoinedAt
    <3>4. l \in Nat /\ l <= Len(s) /\ l + 1 = o /\ l >= 1
      <4>1. off[1] + (h - 1) <= off[h]
        <5> HIDE DEF h
        <5> QED BY <3>1, FlatGrows
      <4>2. off[1] = off[1 - 1] + 1 + Len(t[1]) /\ off[1] \in Nat
        BY <3>1, PartPlace
      <4>3. Len(t[1]) >= 1 /\ Len(t[1]) \in Nat
        <5>1. Len(t[1]) >= 1
          BY <3>1 DEF Plain
        <5>2. Len(t[1]) \in Nat
          BY <3>1, PartPlace
        <5> QED BY <5>1, <5>2
      <4>4. off[1] >= 2
        BY <1>5, <4>2, <4>3
      <4>5. off[h] = o /\ h \in Nat /\ h >= 1
        BY <3>1
      <4> HIDE DEF h, o
      <4>6. o >= 2
        BY <1>2, <4>1, <4>2, <4>4, <4>5
      <4> QED BY <1>2, <4>5, <4>6
    <3>5. d \in Seq(Octets) /\ one = Len(d)
      BY DelimiterIs
    <3> HIDE DEF l, d, o, w, x
    <3>6. SubSeq(s, 1, l) \o d = SubSeq(s, 1, l + one)
      <4>1. SubSeq(s, 1, l) \o d = SubSeq(s, 1, l + Len(d))
        BY <1>1, <3>3, HoldsJoins
      <4> HIDE DEF one
      <4> QED BY <3>5, <4>1
    <3>7. w \in Seq(Octets) /\ Len(w) = l
      BY <1>1, <3>2, <3>4, Beginning
    <3>8. Append(w, Delimiter) = w \o <<Delimiter>>
      BY <3>7, DelimiterIs, AppendIsConcat
    <3>9. w # <<>>
      BY <3>4, <3>7
    <3>10. Append(w, Delimiter) = x
      BY <3>2, <3>4, <3>6, <3>8 DEF d, x
    <3>11. Len(w) < 256
      <4>1. Len(f) <= 256
        BY DEF MaxKeySize
      <4> HIDE DEF e, n
      <4>2. o <= Len(f)
        BY <1>2, <1>5
      <4> QED BY <1>2, <1>5, <3>4, <3>7, <4>1, <4>2
    <3> QED BY <3>4, <3>7, <3>9, <3>10, <3>11
  <2> QED BY <2>1, <2>2
<1> HIDE DEF o, e, a, w, b
<1>9. ByteAt(f, o) = n /\ Bytes(f, o + 1, n) = a
  BY <1>1, <1>3, FlatReadsAt
<1>10. x \o a = z
  <2>1. x \o a = SubSeq(s, 1, o + n)
    <3>1. n = Len(a)
      OBVIOUS
    <3>2. SubSeq(s, 1, o) \o a = SubSeq(s, 1, o + Len(a))
      BY <1>1, <1>4, HoldsJoins
    <3> HIDE DEF n
    <3> QED BY <3>1, <3>2
  <2>2. o + n = e - 1
    BY <1>2
  <2> QED BY <2>1, <2>2
<1>11. Len(x) = o
  <2>1. o <= Len(s)
    BY <1>2
  <2> QED BY <1>1, <1>2, <2>1, Beginning
<1> DEFINE sep == IF b.out # <<>> THEN Append(b.out, Delimiter) ELSE b.out
<1>12. sep = x /\ ~(b.out # <<>> /\ Len(b.out) >= MaxKeySize)
  <2>1. MaxKeySize = 256
    BY DEF MaxKeySize
  <2> HIDE DEF x
  <2> QED BY <1>7, <1>8, <2>1
<1> HIDE DEF x, z, n, sep
<1>13. /\ ~(b.full \/ b.o >= Len(f)) /\ ~(b.o + 1 + n > Len(f))
       /\ ~(Len(sep) + n > MaxKeySize)
  BY <1>2, <1>5, <1>7, <1>11, <1>12 DEF MaxKeySize
<1>14. UnsplitNext(f, MaxKeySize, b)
         = [o |-> b.o + 1 + n, out |-> sep \o Bytes(f, b.o + 1, n), full |-> FALSE]
  <2>1. ByteAt(f, b.o) = n
    BY <1>7, <1>9
  <2> QED BY <1>12, <1>13, <2>1, Zenon DEF UnsplitNext, sep
<1>15. UnsplitNext(f, MaxKeySize, b) = [o |-> e, out |-> z, full |-> FALSE]
  <2>1. b.o + 1 + n = e
    BY <1>2, <1>7
  <2>2. sep \o Bytes(f, b.o + 1, n) = z
    BY <1>7, <1>9, <1>10, <1>12
  <2> QED BY <1>14, <2>1, <2>2, Zenon
<1> QED BY <1>6, <1>15 DEF b, o, w, e

\* The state of key_unsplit behind part n.
UnsplitState(s, off, n) == [o |-> off[n], out |-> JoinedTo(s, off, n), full |-> FALSE]

\* The turns of key_unsplit: one for every part, and no change after the last.
LEMMA UnsplitTurns ==
  ASSUME NEW k, NEW t, NEW off, Flat(k, t, off), Plain(t), NEW s, Joined(s, t, off),
         Len(k) <= MaxKeySize, NEW N \in Nat
  PROVE  UnsplitAfter(k, MaxKeySize, N) = UnsplitState(s, off, Least(Len(t), N))
<1> DEFINE M == Len(t)
           m(n) == Least(M, n)
           c == [o |-> 0, out |-> <<>>, full |-> FALSE]
           State(i) == UnsplitState(s, off, i)
           G == [n \in 0 .. N |-> State(m(n))]
           Eq(g) == g = [n \in 0 .. N |-> IF n = 0 THEN c ELSE UnsplitNext(k, MaxKeySize, g[n - 1])]
           f == CHOOSE g : Eq(g)
<1>1. M \in Nat /\ off[0] = 0 /\ off[M] = Len(k) /\ Len(k) \in Nat
  BY FlatFacts
<1>2. UnsplitAfter(k, MaxKeySize, N) = f[N]
  BY DEF UnsplitAfter
<1>3. ASSUME NEW i \in 1 .. M PROVE UnsplitNext(k, MaxKeySize, State(i - 1)) = State(i)
  BY UnsplitTurn DEF UnsplitState
<1>4. UnsplitNext(k, MaxKeySize, State(M)) = State(M)
  <2> DEFINE b == State(M)
  <2>1. b.o = Len(k)
    BY <1>1 DEF UnsplitState
  <2> HIDE DEF b
  <2>2. b.o >= Len(k)
    BY <1>1, <2>1
  <2>3. UnsplitNext(k, MaxKeySize, b) = b
    BY <2>2, Zenon DEF UnsplitNext
  <2> QED BY <2>3 DEF b
<1>5. State(0) = c
  BY <1>1 DEF UnsplitState, JoinedTo
<1>6. m(0) = 0 /\ \A n \in 1 .. N : \/ n <= M /\ m(n) = n /\ m(n - 1) = n - 1
                                    \/ n > M /\ m(n) = M /\ m(n - 1) = M
  BY <1>1 DEF Least
<1> HIDE DEF M, State, m, c
<1>7. ASSUME NEW n \in 0 .. N
      PROVE  G[n] = IF n = 0 THEN c ELSE UnsplitNext(k, MaxKeySize, G[n - 1])
  <2>1. CASE n = 0
    BY <1>1, <1>5, <1>6, <2>1
  <2>2. CASE n # 0
    <3>1. n \in 1 .. N /\ n - 1 \in 0 .. N
      BY <1>1, <2>2
    <3>2. G[n] = State(m(n)) /\ G[n - 1] = State(m(n - 1))
      BY <3>1
    <3>3. CASE n <= M /\ m(n) = n /\ m(n - 1) = n - 1
      <4>1. n \in 1 .. M
        BY <1>1, <3>1, <3>3
      <4> QED BY <1>3, <2>2, <3>2, <3>3, <4>1
    <3>4. CASE n > M /\ m(n) = M /\ m(n - 1) = M
      BY <1>4, <2>2, <3>2, <3>4
    <3> QED BY <1>6, <3>1, <3>3, <3>4
  <2> QED BY <2>1, <2>2
<1>8. G = [n \in 0 .. N |-> G[n]] /\ G[N] = State(m(N))
  BY <1>1
<1> HIDE DEF G
<1>9. Eq(G)
  BY <1>7, <1>8
<1>10. Eq(f)
  BY <1>9
<1> HIDE DEF f
<1>11. Alike(f, G, N)
  <2>1. 0 \in 0 .. N /\ \A i \in 1 .. N : i \in 0 .. N /\ i # 0
    BY <1>1
  <2> QED BY <1>9, <1>10, <2>1 DEF Alike
<1>12. f[N] = G[N]
  BY <1>1, <1>11, SameSteps
<1> QED BY <1>2, <1>8, <1>12 DEF State, m, M

\* key_unsplit gives the joined string.
LEMMA UnsplitIs ==
  ASSUME NEW k, NEW t, NEW off, Flat(k, t, off), Plain(t), NEW s, Joined(s, t, off),
         Len(k) <= MaxKeySize
  PROVE  KeyUnsplit(k, MaxKeySize) = s
<1> DEFINE M == Len(t)
           L == Len(k)
           After(n) == UnsplitAfter(k, MaxKeySize, n)
           Ended(n) == After(n).full \/ After(n).o >= L
           n == CHOOSE x \in 0 .. L : Ended(x)
<1>1. M \in Nat /\ L \in Nat /\ off[0] = 0 /\ off[M] = L
  BY FlatFacts
<1>2. M <= L
  <2>1. M \in 0 .. Len(t) /\ 0 \in 0 .. M
    BY <1>1
  <2>2. off[0] + (M - 0) <= off[M]
    <3> HIDE DEF M
    <3> QED BY <2>1, FlatGrows
  <2> QED BY <1>1, <2>2
<1>3. KeyUnsplit(k, MaxKeySize) = After(n).out
  BY Zenon DEF KeyUnsplit
<1>4. ASSUME NEW x \in 0 .. L
      PROVE  After(x) = UnsplitState(s, off, Least(M, x))
  <2>1. x \in Nat
    BY <1>1
  <2> QED BY <2>1, UnsplitTurns
<1>5. ASSUME NEW x \in 0 .. L, x >= M PROVE After(x) = UnsplitState(s, off, M)
  <2>1. Least(M, x) = M
    BY <1>1, <1>5 DEF Least
  <2> QED BY <1>4, <2>1
<1>6. ASSUME NEW x \in 0 .. L, x < M PROVE ~Ended(x)
  <2>1. Least(M, x) = x
    BY <1>1, <1>6 DEF Least
  <2>2. After(x) = UnsplitState(s, off, x)
    BY <1>4, <2>1
  <2>3. After(x).full = FALSE /\ After(x).o = off[x]
    BY <2>2 DEF UnsplitState
  <2>4. off[x] + (M - x) <= off[M] /\ off[x] \in Nat
    <3>1. M \in 0 .. Len(t) /\ x \in 0 .. M /\ x \in 0 .. Len(t)
      BY <1>1, <1>6
    <3> HIDE DEF M
    <3> QED BY <3>1, FlatGrows, FlatFacts
  <2>5. ~(off[x] >= L)
    BY <1>1, <1>6, <2>4
  <2> QED BY <2>3, <2>5
<1>7. M \in 0 .. L /\ Ended(M)
  <2>1. M \in 0 .. L
    BY <1>1, <1>2
  <2>2. After(M) = UnsplitState(s, off, M)
    BY <1>1, <1>5, <2>1
  <2>3. After(M).o = L
    BY <1>1, <2>2 DEF UnsplitState
  <2> HIDE DEF After
  <2> QED BY <1>1, <2>1, <2>3
<1> HIDE DEF Ended
<1>8. n \in 0 .. L /\ Ended(n)
  BY <1>7
<1> HIDE DEF n
<1>9. n >= M
  BY <1>1, <1>6, <1>8
<1>10. After(n) = UnsplitState(s, off, M)
  BY <1>5, <1>8, <1>9
<1>11. After(n).out = JoinedTo(s, off, M)
  BY <1>10 DEF UnsplitState
<1>12. JoinedTo(s, off, M) = s
  <2>1. s \in Seq(Octets) /\ Len(s) = JoinedLen(t, off) /\ SubSeq(s, 1, Len(s)) = s
    BY SubSeqFull DEF Joined
  <2>2. CASE M = 0
    <3>1. Len(s) = 0
      BY <2>1, <2>2 DEF JoinedLen
    <3>2. s = <<>>
      BY <2>1, <3>1
    <3> QED BY <2>2, <3>2 DEF JoinedTo
  <2>3. CASE M # 0
    <3>1. Len(s) = off[M] - 1
      BY <2>1, <2>3 DEF JoinedLen
    <3> QED BY <2>1, <2>3, <3>1 DEF JoinedTo
  <2> QED BY <2>2, <2>3
<1> QED BY <1>3, <1>11, <1>12

\* key_split finds the end of part i where the part ends.
LEMMA SegmentEnds ==
  ASSUME NEW f, NEW t, NEW off, Flat(f, t, off), Plain(t), NEW s, Joined(s, t, off),
         NEW i \in 1 .. Len(t)
  PROVE  SegmentEnd(s, off[i - 1]) = off[i] - 1
<1> DEFINE o == off[i - 1]
           e == off[i] - 1
           a == t[i]
           n == Len(a)
           L == Len(s)
           ends == {x \in o .. L : x = L \/ ByteAt(s, x) = Delimiter \/ x - o = MaxSegmentLen}
<1>1. s \in Seq(Octets) /\ L = JoinedLen(t, off)
  BY DEF Joined
<1>2. /\ o \in Nat /\ e \in Nat /\ L \in Nat /\ n \in Nat /\ n <= 255 /\ e = o + n
      /\ o < L /\ e <= L /\ (i < Len(t) => e < L) /\ (i = Len(t) => e = L)
  <2>1. /\ o \in Nat /\ off[i] \in Nat /\ L \in Nat /\ n \in Nat /\ n <= 255
        /\ off[i] = o + 1 + n
    BY <1>1, PartPlace
  <2>2. o < L /\ e <= L /\ (i < Len(t) => e < L) /\ (i = Len(t) => e = L)
    BY <1>1, PartPlace
  <2> HIDE DEF o, n, L
  <2>3. e \in Nat /\ e = o + n
    BY <2>1
  <2> QED BY <2>1, <2>2, <2>3
<1>3. i \in Nat /\ Len(t) \in Nat /\ i <= Len(t)
  BY FlatFacts
<1>4. SegmentEnd(s, o) = CHOOSE x \in ends : \A y \in ends : x <= y
  BY DEF SegmentEnd
<1>5. e \in ends
  <2>1. e \in o .. L
    BY <1>2
  <2>2. CASE i = Len(t)
    BY <1>2, <2>1, <2>2
  <2>3. CASE i < Len(t)
    <3>1. ByteAt(s, e) = Delimiter
      BY <2>3, JoinedAt
    <3> QED BY <2>1, <3>1
  <2> QED BY <1>3, <2>2, <2>3
<1>6. \A j \in 1 .. n : s[o + j] = a[j] /\ a[j] # Delimiter
  <2>1. \A j \in 1 .. n : s[o + j] = a[j]
    BY DEF Joined
  <2>2. \A j \in 1 .. n : a[j] # Delimiter
    BY DEF Plain
  <2> QED BY <2>1, <2>2
<1> HIDE DEF o, e, a, n, L
<1>7. ASSUME NEW x \in o .. L, x < e PROVE x \notin ends
  <2> DEFINE j == x - o + 1
  <2>1. x \in Nat /\ x # L /\ x < L /\ x - o # 255 /\ j \in 1 .. n /\ o + j = x + 1
    BY <1>2, <1>7
  <2>2. x - o # MaxSegmentLen
    BY <2>1 DEF MaxSegmentLen
  <2> HIDE DEF j
  <2>3. s[x + 1] # Delimiter
    BY <1>6, <2>1
  <2>4. ByteAt(s, x) = s[x + 1]
    BY <2>1 DEF ByteAt, L
  <2> QED BY <2>1, <2>2, <2>3, <2>4
<1>8. ASSUME NEW x \in ends PROVE x \in Int /\ e <= x
  <2>1. x \in o .. L
    OBVIOUS
  <2> HIDE DEF ends
  <2>2. ~(x < e)
    BY <1>7, <2>1
  <2> QED BY <1>2, <2>1, <2>2
<1> DEFINE least == CHOOSE x \in ends : \A y \in ends : x <= y
<1> HIDE DEF ends
<1>9. least \in ends /\ \A y \in ends : least <= y
  BY <1>5, <1>8
<1>10. least = e
  <2>1. least <= e /\ e <= least /\ least \in Int
    BY <1>5, <1>8, <1>9
  <2> QED BY <1>2, <2>1
<1> QED BY <1>4, <1>10 DEF o, e

\* The state of key_split behind part n: past the delimiter, or at the end.
SplitState(f, t, off, n) ==
  [o |-> IF n < Len(t) THEN off[n] ELSE JoinedLen(t, off), k |-> SubSeq(f, 1, off[n]),
   full |-> FALSE]

\* A turn of key_split.
LEMMA SplitTurn ==
  ASSUME NEW f, NEW t, NEW off, Flat(f, t, off), Plain(t), NEW s, Joined(s, t, off),
         Len(f) <= MaxKeySize, NEW i \in 1 .. Len(t)
  PROVE  SplitNext(s, SplitState(f, t, off, i - 1)) = SplitState(f, t, off, i)
<1> DEFINE o == off[i - 1]
           r == off[i]
           e == r - 1
           a == t[i]
           n == Len(a)
           L == Len(s)
           b == SplitState(f, t, off, i - 1)
           x == SubSeq(f, 1, o)
           z == SubSeq(f, 1, r)
           q == IF i < Len(t) THEN r ELSE L
           next == IF e < L /\ ByteAt(s, e) = Delimiter THEN e + 1 ELSE e
<1>1. s \in Seq(Octets) /\ L = JoinedLen(t, off) /\ f \in Seq(Octets)
  BY FlatFacts DEF Joined
<1>2. /\ o \in Nat /\ r \in Nat /\ L \in Nat /\ n \in Nat /\ r = o + 1 + n /\ r <= Len(f)
      /\ o < L /\ e <= L /\ (i < Len(t) => e < L) /\ (i = Len(t) => e = L)
  BY <1>1, PartPlace
<1>3. i \in Nat /\ Len(t) \in Nat /\ i <= Len(t) /\ i - 1 < Len(t) /\ Len(f) \in Nat
  BY FlatFacts
<1>4. b.o = o /\ b.k = x /\ b.full = FALSE
  BY <1>3 DEF SplitState
<1>5. SplitState(f, t, off, i) = [o |-> q, k |-> z, full |-> FALSE]
  BY <1>1 DEF SplitState
<1>6. SegmentEnd(s, o) = e
  BY SegmentEnds
<1>7. Bytes(s, o, n) = a
  <2>1. Holds(s, o, a)
    BY JoinedAt
  <2> HIDE DEF o, a
  <2> QED BY <1>1, <2>1, HoldsBytes
<1>8. x \o FlatSegment(a) = z
  <2>1. FlatAt(f, o, a, r)
    BY FlatFacts
  <2> HIDE DEF o, a, r
  <2> QED BY <1>1, <2>1, FlatJoins
<1>9. Len(x) = o
  <2>1. o <= Len(f)
    BY <1>2, <1>3
  <2> QED BY <1>1, <1>2, <2>1, Beginning
<1>10. next = q
  <2>1. CASE i < Len(t)
    <3>1. ByteAt(s, e) = Delimiter
      BY <2>1, JoinedAt
    <3>2. e < L /\ e + 1 = r
      BY <1>2, <2>1
    <3> QED BY <2>1, <3>1, <3>2
  <2>2. CASE i = Len(t)
    <3>1. e = L /\ ~(e < L) /\ ~(i < Len(t))
      BY <1>2, <1>3, <2>2
    <3> QED BY <3>1
  <2> QED BY <1>3, <2>1, <2>2
<1>11. e - o = n
  BY <1>2
<1> HIDE DEF b, o, r, a, n, L, x, z, q
<1>12. ~(b.full \/ b.o >= Len(s)) /\ ~(Len(b.k) + 1 + (e - b.o) > MaxKeySize)
  <2>1. ~(o >= Len(s))
    BY <1>2 DEF L
  <2>2. Len(f) <= 256
    BY DEF MaxKeySize
  <2>3. ~(o + 1 + n > 256)
    BY <1>2, <1>3, <2>2
  <2>4. Len(b.k) + 1 + (e - b.o) = o + 1 + n
    BY <1>4, <1>9, <1>11
  <2> QED BY <1>4, <2>1, <2>3, <2>4 DEF MaxKeySize
<1>13. SegmentEnd(s, b.o) = e
  BY <1>4, <1>6
<1> HIDE DEF e
<1>14. SplitNext(s, b)
         = [o |-> next, k |-> b.k \o FlatSegment(Bytes(s, b.o, e - b.o)), full |-> FALSE]
  BY <1>12, <1>13, Zenon DEF SplitNext, L
<1>15. b.k \o FlatSegment(Bytes(s, b.o, e - b.o)) = z
  BY <1>4, <1>7, <1>8, <1>11
<1>16. SplitNext(s, b) = [o |-> q, k |-> z, full |-> FALSE]
  <2> HIDE DEF next
  <2> QED BY <1>10, <1>14, <1>15, Zenon
<1> QED BY <1>5, <1>16 DEF b

\* key_split of the joined string gives the flat key.
LEMMA SplitIs ==
  ASSUME NEW k, NEW t, NEW off, Flat(k, t, off), Plain(t), NEW s, Joined(s, t, off),
         Len(k) <= MaxKeySize, Len(t) <= MaxSubscripts
  PROVE  KeySplit(s) = k
<1> DEFINE N == MaxSubscripts
           M == Len(t)
           m(n) == Least(M, n)
           c == [o |-> 0, k |-> <<>>, full |-> FALSE]
           State(i) == SplitState(k, t, off, i)
           G == [n \in 0 .. N |-> State(m(n))]
           Eq(g) == g = [n \in 0 .. N |-> IF n = 0 THEN c ELSE SplitNext(s, g[n - 1])]
           f == CHOOSE g : Eq(g)
<1>1. /\ M \in Nat /\ off[0] = 0 /\ off[M] = Len(k) /\ Len(k) \in Nat /\ N \in Nat /\ M <= N
      /\ k \in Seq(Octets) /\ s \in Seq(Octets) /\ Len(s) = JoinedLen(t, off) /\ Len(s) \in Nat
  BY FlatFacts DEF MaxSubscripts, Joined
<1>2. KeySplit(s) = f[N].k
  BY Zenon DEF KeySplit
<1>3. ASSUME NEW i \in 1 .. M PROVE SplitNext(s, State(i - 1)) = State(i)
  BY SplitTurn
<1>4. SplitNext(s, State(M)) = State(M)
  <2> DEFINE b == State(M)
  <2>1. b.o = Len(s)
    <3>1. ~(M < Len(t))
      BY <1>1
    <3> QED BY <1>1, <3>1 DEF SplitState
  <2> HIDE DEF b
  <2>2. b.o >= Len(s)
    BY <1>1, <2>1
  <2>3. SplitNext(s, b) = b
    BY <2>2, Zenon DEF SplitNext
  <2> QED BY <2>3 DEF b
<1>5. State(0) = c /\ State(M).k = k
  <2>1. SubSeq(k, 1, 0) = <<>> /\ SubSeq(k, 1, Len(k)) = k
    BY <1>1, SubSeqFull
  <2>2. (IF 0 < Len(t) THEN off[0] ELSE JoinedLen(t, off)) = 0
    BY <1>1 DEF JoinedLen
  <2>3. State(0) = c
    BY <1>1, <2>1, <2>2 DEF SplitState
  <2>4. State(M).k = SubSeq(k, 1, off[M])
    BY DEF SplitState
  <2> QED BY <1>1, <2>1, <2>3, <2>4
<1>6. m(0) = 0 /\ \A n \in 1 .. N : \/ n <= M /\ m(n) = n /\ m(n - 1) = n - 1
                                    \/ n > M /\ m(n) = M /\ m(n - 1) = M
  BY <1>1 DEF Least
<1>7. m(N) = M
  BY <1>1 DEF Least
<1> HIDE DEF M, N, State, m, c
<1>8. ASSUME NEW n \in 0 .. N PROVE G[n] = IF n = 0 THEN c ELSE SplitNext(s, G[n - 1])
  <2>1. CASE n = 0
    BY <1>1, <1>5, <1>6, <2>1
  <2>2. CASE n # 0
    <3>1. n \in 1 .. N /\ n - 1 \in 0 .. N
      BY <1>1, <2>2
    <3>2. G[n] = State(m(n)) /\ G[n - 1] = State(m(n - 1))
      BY <3>1
    <3>3. CASE n <= M /\ m(n) = n /\ m(n - 1) = n - 1
      <4>1. n \in 1 .. M
        BY <1>1, <3>1, <3>3
      <4> QED BY <1>3, <2>2, <3>2, <3>3, <4>1
    <3>4. CASE n > M /\ m(n) = M /\ m(n - 1) = M
      BY <1>4, <2>2, <3>2, <3>4
    <3> QED BY <1>6, <3>1, <3>3, <3>4
  <2> QED BY <2>1, <2>2
<1>9. G = [n \in 0 .. N |-> G[n]] /\ G[N].k = k
  <2>1. G[N] = State(m(N))
    BY <1>1
  <2> QED BY <1>5, <1>7, <2>1
<1> HIDE DEF G
<1>10. Eq(G)
  BY <1>8, <1>9
<1>11. Eq(f)
  BY <1>10
<1> HIDE DEF f
<1>12. Alike(f, G, N)
  <2>1. 0 \in 0 .. N /\ \A i \in 1 .. N : i \in 0 .. N /\ i # 0
    BY <1>1
  <2> QED BY <1>10, <1>11, <2>1 DEF Alike
<1>13. f[N] = G[N]
  BY <1>1, <1>12, SameSteps
<1> QED BY <1>2, <1>9, <1>13

-----------------------------------------------------------------------------
(* The keys of a program have an encoding of keysplit.c. *)

\* The buffer bounds a key, unless it has the empty subscripts of the start only.
Fits(k, t) == Len(k) <= MaxKeySize \/ \A i \in 1 .. Len(t) : t[i] = <<>>

\* Both keys are laid out from their subscripts, within their buffers.
IFits == IKey /\ \A w \in Which : Fits(key[w], parts[w])

\* concat_prefix: the length of a child.
LEMMA ChildLength ==
  ASSUME NEW k \in Seq(Octets), NEW s \in Seq(Octets), ConcatFits(k, s)
  PROVE  Len(ConcatPrefix(k, s)) <= MaxKeySize
<1> DEFINE n == Len(s)
           h == LengthPrefixSize(n)
           p == LengthPrefix(n)
<1>1. n \in Nat /\ Len(k) \in Nat
  OBVIOUS
<1>2. h \in Nat
  BY DEF LengthPrefixSize
<1>3. Len(k) + h + n <= 256
  BY DEF ConcatFits, MaxKeySize
<1>4. n < 65536
  <2> HIDE DEF n, h
  <2> QED BY <1>1, <1>2, <1>3
<1>5. p \in Seq(Octets) /\ Len(p) = h
  BY <1>1, <1>4, PrefixShape
<1> HIDE DEF p, h
<1>6. ConcatPrefix(k, s) = k \o p \o s
  BY DEF ConcatPrefix, p
<1>7. Len(k \o p \o s) = Len(k) + h + n
  BY <1>5
<1> QED BY <1>3, <1>6, <1>7 DEF MaxKeySize

\* key_prefix: an ancestor is no longer than its key, and empty where that is.
LEMMA AncestorFits ==
  ASSUME NEW k, NEW t, NEW off, Laid(k, t, off), NEW n \in 0 .. Len(t), Fits(k, t)
  PROVE  Fits(KeyPrefix(k, n), SubSeq(t, 1, n))
<1>1. /\ k \in Seq(Octets) /\ Len(k) \in Nat /\ t \in Seq(Seq(Octets)) /\ Len(t) \in Nat
      /\ n \in Nat /\ n <= Len(t)
  BY LaidFacts
<1>2. CASE Len(k) <= MaxKeySize
  <2>1. off[n] \in Nat /\ off[n] <= Len(k)
    BY LaidFacts
  <2>2. SubscriptOffset(k, n) = off[n]
    <3>1. n \in 0 .. Len(t) + 1
      BY <1>1
    <3> QED BY <1>1, <3>1, OffsetIs
  <2>3. KeyPrefix(k, n) = SubSeq(k, 1, off[n])
    <3>1. Least(0 + off[n], Len(k)) = off[n] /\ 0 + 1 = 1
      BY <1>1, <2>1 DEF Least
    <3> QED BY <2>2, <3>1 DEF KeyPrefix, Bytes
  <2>4. Len(SubSeq(k, 1, off[n])) = off[n]
    BY <1>1, <2>1
  <2>5. Len(KeyPrefix(k, n)) <= MaxKeySize
    BY <1>1, <1>2, <2>1, <2>3, <2>4 DEF MaxKeySize
  <2> QED BY <2>5 DEF Fits
<1>3. CASE \A i \in 1 .. Len(t) : t[i] = <<>>
  <2> DEFINE u == SubSeq(t, 1, n)
  <2>1. Len(u) = n /\ \A i \in 1 .. n : u[i] = t[i]
    BY <1>1
  <2>2. \A i \in 1 .. n : i \in 1 .. Len(t)
    BY <1>1
  <2> HIDE DEF u
  <2>3. \A i \in 1 .. Len(u) : u[i] = <<>>
    BY <1>3, <2>1, <2>2
  <2> QED BY <2>3 DEF Fits, u
<1> QED BY <1>2, <1>3 DEF Fits

\* A program's keys stay within their buffers.
THEOREM KeysFit == KeySpec => []IFits
<1>1. KInit => IFits
  <2> SUFFICES ASSUME KInit, NEW w \in Which PROVE Fits(key[w], parts[w])
    BY InitLaid DEF IFits
  <2>1. PICK depth \in [Which -> StartDepths] :
          parts = [v \in Which |-> [i \in 1..depth[v] |-> <<>>]]
    BY DEF KInit
  <2>2. parts[w] = [i \in 1..depth[w] |-> <<>>] /\ depth[w] \in Nat
    BY <2>1, KeyAssumption
  <2>3. Len(parts[w]) = depth[w]
    BY <2>2
  <2>4. \A i \in 1 .. Len(parts[w]) : parts[w][i] = <<>>
    BY <2>2, <2>3
  <2> QED BY <2>4 DEF Fits
<1>2. IFits /\ [KNext]_kvars => IFits'
  <2> SUFFICES ASSUME IFits, [KNext]_kvars PROVE IFits'
    OBVIOUS
  <2> USE DEF IFits
  <2>1. CASE UNCHANGED kvars
    BY <2>1 DEF IKey, kvars
  <2>2. ASSUME NEW w \in Which, NEW s \in Subscripts, Descend(w, s) PROVE IFits'
    <3>1. IKey'
      BY <2>2, DescendLaid
    <3>2. /\ key' = [key EXCEPT ![w] = ConcatPrefix(key[w], s)]
          /\ parts' = [parts EXCEPT ![w] = Append(parts[w], s)]
          /\ ConcatFits(key[w], s) /\ DOMAIN parts = Which /\ DOMAIN key = Which
      BY <2>2 DEF Descend, IKey
    <3>3. key[w] \in Seq(Octets) /\ s \in Seq(Octets)
      BY LaidFacts, SubscriptsAre DEF IKey
    <3>4. Fits(key'[w], parts'[w])
      BY <3>2, <3>3, ChildLength DEF Fits
    <3>5. ASSUME NEW v \in Which, v # w PROVE Fits(key'[v], parts'[v])
      <4>1. key'[v] = key[v] /\ parts'[v] = parts[v]
        BY <3>2, <3>5
      <4> QED BY <4>1
    <3> QED BY <3>1, <3>4, <3>5
  <2>3. ASSUME NEW w \in Which, NEW n \in Depths \cap 0..(Len(parts[w]) - 1), Ascend(w, n)
        PROVE  IFits'
    <3>1. IKey'
      <4>1. n \in 0 .. (Len(parts[w]) - 1)
        OBVIOUS
      <4> QED BY <2>3, <4>1, AscendLaid
    <3>2. /\ key' = [key EXCEPT ![w] = KeyPrefix(key[w], n)]
          /\ parts' = [parts EXCEPT ![w] = SubSeq(parts[w], 1, n)]
          /\ DOMAIN parts = Which /\ DOMAIN key = Which
      BY <2>3 DEF Ascend, IKey
    <3>3. PICK off : Laid(key[w], parts[w], off)
      BY DEF IKey
    <3>4. n \in 0 .. Len(parts[w])
      <4>1. Len(parts[w]) \in Nat
        BY <3>3, LaidFacts
      <4> QED BY <4>1
    <3>5. Fits(KeyPrefix(key[w], n), SubSeq(parts[w], 1, n))
      BY <3>3, <3>4, AncestorFits
    <3>6. Fits(key'[w], parts'[w])
      BY <3>2, <3>5
    <3>7. ASSUME NEW v \in Which, v # w PROVE Fits(key'[v], parts'[v])
      <4>1. key'[v] = key[v] /\ parts'[v] = parts[v]
        BY <3>2, <3>7
      <4> QED BY <4>1
    <3> QED BY <3>1, <3>6, <3>7
  <2> QED BY <2>1, <2>2, <2>3 DEF KNext
<1> QED BY <1>1, <1>2, PTL DEF KeySpec

\* A key whose parts are strings fits its buffer, and so does each of its parts.
LEMMA StringsFit ==
  ASSUME NEW k, NEW t, NEW off, Laid(k, t, off), Fits(k, t), Strings(t)
  PROVE  Len(k) <= MaxKeySize /\ \A i \in 1 .. Len(t) : Len(t[i]) <= 255
<1>1. /\ Len(k) \in Nat /\ t \in Seq(Seq(Octets)) /\ Len(t) \in Nat
      /\ off[0] = 0 /\ off[Len(t)] = Len(k)
  BY LaidFacts
<1>2. Len(k) <= MaxKeySize
  <2>1. CASE t = <<>>
    <3>1. Len(t) = 0
      BY <2>1
    <3> QED BY <1>1, <3>1 DEF MaxKeySize
  <2>2. CASE t # <<>>
    <3>1. 1 \in 1 .. Len(t)
      BY <1>1, <2>2
    <3>2. t[1] # <<>>
      BY <2>2 DEF Strings
    <3> QED BY <3>1, <3>2 DEF Fits
  <2> QED BY <2>1, <2>2
<1>3. ASSUME NEW i \in 1 .. Len(t) PROVE Len(t[i]) <= 255
  <2> DEFINE o == off[i - 1]
             e == off[i]
             n == Len(t[i])
             h == LengthPrefixSize(n)
  <2>1. o \in Nat /\ e \in Nat /\ e <= Len(k) /\ n \in Nat /\ e = o + h + n
    BY LaidSegment
  <2>2. h \in Nat /\ h >= 1
    BY DEF LengthPrefixSize
  <2> HIDE DEF o, e, n, h
  <2>3. n <= 255
    BY <1>1, <1>2, <2>1, <2>2 DEF MaxKeySize
  <2> QED BY <2>3 DEF n
<1> QED BY <1>2, <1>3

\* make_key_parts, key_unsplit and key_split are inverse to each other on the
\* parts of every key whose subscripts are strings, decode_key_tuple reads what
\* they wrote while no length is the marker, and up to 127 bytes a part the bytes
\* are those of hierarchical.c.
THEOREM FlatKeysRead == KeySpec => []FlatReads
<1>1. IFits => FlatReads
  <2> SUFFICES ASSUME IFits, NEW w \in Which, Strings(parts[w]), Len(parts[w]) <= MaxSubscripts
               PROVE  LET p == parts[w] f == MakeKeyParts(p) IN
                        /\ KeySplit(KeyUnsplit(f, MaxKeySize)) = f
                        /\ Len(p) = 1 => f = MakeKey(p[1])
                        /\ (\A i \in DOMAIN p : Len(p[i]) < LongMarker) => DecodeKeyTuple(f) = p
                        /\ (\A i \in DOMAIN p : Len(p[i]) < InlineMax) => f = key[w]
    BY DEF FlatReads
  <2> DEFINE p == parts[w]
             k == key[w]
  <2>1. PICK off : Laid(k, p, off)
    BY DEF IFits, IKey
  <2>2. Fits(k, p) /\ Strings(p) /\ Len(p) <= MaxSubscripts
    BY DEF IFits
  <2> HIDE DEF p, k
  <2>3. Len(k) \in Nat /\ p \in Seq(Seq(Octets)) /\ DOMAIN p = 1 .. Len(p)
    <3>1. Len(k) \in Nat /\ p \in Seq(Seq(Octets))
      BY <2>1, LaidFacts
    <3> QED BY <3>1
  <2>4. Len(k) <= MaxKeySize /\ \A i \in 1 .. Len(p) : Len(p[i]) <= 255
    BY <2>1, <2>2, StringsFit
  <2>5. PICK f, low : Flat(f, p, low)
    BY <2>3, <2>4, FlatExists
  <2>6. Len(f) \in Nat /\ Len(f) <= MaxKeySize
    <3>1. Len(f) <= Len(k) /\ Len(f) \in Nat
      BY <2>1, <2>5, FlatIsShorter, FlatFacts
    <3> QED BY <2>3, <2>4, <3>1 DEF MaxKeySize
  <2>7. MakeKeyParts(p) = f
    BY <2>2, <2>5, <2>6, PartsAre
  <2>8. KeySplit(KeyUnsplit(f, MaxKeySize)) = f
    <3>1. Plain(p)
      BY <2>2, <2>3, StringsArePlain
    <3>2. PICK s : Joined(s, p, low)
      BY <2>5, <3>1, JoinedExists
    <3>3. KeyUnsplit(f, MaxKeySize) = s
      BY <2>5, <2>6, <3>1, <3>2, UnsplitIs
    <3>4. KeySplit(s) = f
      BY <2>2, <2>5, <2>6, <3>1, <3>2, SplitIs
    <3> QED BY <3>3, <3>4
  <2>9. ASSUME Len(p) = 1 PROVE f = MakeKey(p[1])
    BY <2>5, <2>9, OnePart
  <2>10. ASSUME \A i \in DOMAIN p : Len(p[i]) < LongMarker PROVE DecodeKeyTuple(f) = p
    <3>1. \A i \in 1 .. Len(p) : Len(p[i]) < LongMarker
      BY <2>3, <2>10
    <3> QED BY <2>2, <2>5, <3>1, FlatDecodes
  <2>11. ASSUME \A i \in DOMAIN p : Len(p[i]) < InlineMax PROVE f = k
    <3>1. \A i \in 1 .. Len(p) : Len(p[i]) < 128
      BY <2>3, <2>11 DEF InlineMax
    <3>2. Flat(k, p, off)
      BY <2>1, <3>1, ShortIsFlat
    <3>3. MakeKeyParts(p) = k
      BY <2>2, <2>4, <3>2, PartsAre
    <3> QED BY <2>7, <3>3
  <2> QED BY <2>7, <2>8, <2>9, <2>10, <2>11 DEF p, k
<1> QED BY <1>1, KeysFit, PTL

=============================================================================
