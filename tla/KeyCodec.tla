----------------------------- MODULE KeyCodec -----------------------------
(***************************************************************************)
(* Hierarchical keys as bytes: the length-prefixed encoding of key tuples  *)
(* (key_encoding.c), the readers and builders of hierarchical keys         *)
(* (hierarchical.c), the one-byte encoding of split strings (keysplit.c)   *)
(* and the prefix compression of B-tree keys (btree_compression.c).        *)
(*                                                                         *)
(* Two keys are built and cut step by step, the way a program walks down   *)
(* and up a hierarchy.  The history `parts' remembers the subscripts each  *)
(* key was built from; what every reader makes of the bytes is compared    *)
(* with it.  Offsets count from 0, as in the code.                         *)
(***************************************************************************)
EXTENDS Integers, Sequences, SequencesExt

CONSTANTS
    Which,         \* the names of the two keys
    Segments,      \* the subscripts a program appends: sequences of bytes
    Integers32,    \* the integers it appends as subscripts
    StartDepths,   \* how many empty subscripts a key starts with
    MaxDepth,      \* appends to one key beyond those
    Delimiter      \* the byte that separates the parts of a string

VARIABLES
    parts,         \* history: the subscripts key[w] was built from
    key            \* the bytes of the two keys

kvars == <<parts, key>>

MaxKeySize == 256        \* GARRY_MAX_KEY_SIZE
MaxSubscripts == 16      \* GARRY_MAX_SUBSCRIPTS
MaxSegmentLen == 255     \* GARRY_MAX_SEGMENT_LEN
InlineMax == 128         \* GARRY_LEN_PREFIX_INLINE_MAX
LongMarker == 255        \* GARRY_LEN_PREFIX_LONG_MARKER

Octets == 0..255
MaxInt32 == 2147483647

ASSUME KeyAssumption ==
    /\ Segments \subseteq Seq(Octets)
    /\ Integers32 \subseteq -1 - MaxInt32 .. MaxInt32
    /\ StartDepths \subseteq Nat /\ MaxDepth \in Nat /\ Delimiter \in 1..255

Least(a, b) == IF a <= b THEN a ELSE b

\* Buffers are cleared before a key is written: bytes past its end are zero.
ByteAt(k, i) == IF i < Len(k) THEN k[i + 1] ELSE 0

\* The n bytes of k from offset o on, as far as k reaches.
Bytes(k, o, n) == SubSeq(k, o + 1, Least(o + n, Len(k)))

-----------------------------------------------------------------------------
\* key_encoding.c

LengthPrefixSize(n) == IF n < InlineMax THEN 1 ELSE 3

\* Slip: lengths up to and including the limit stay in one byte of prefix.
LengthPrefixInlineTo255(n) ==
    IF n <= 255 THEN <<n>> ELSE <<LongMarker, (n \div 256) % 256, n % 256>>

LengthPrefix(n) ==
    IF n < InlineMax THEN <<n>>
                     ELSE <<LongMarker, (n \div 256) % 256, n % 256>>

DecodeLengthPrefix(k, o) ==
    IF ByteAt(k, o) # LongMarker THEN ByteAt(k, o)
                                 ELSE ByteAt(k, o + 1) * 256 + ByteAt(k, o + 2)

TupleLength(t) ==
    LET upto[i \in 0..Len(t)] ==
          IF i = 0 THEN 0 ELSE upto[i - 1] + LengthPrefixSize(Len(t[i])) + Len(t[i])
    IN upto[Len(t)]

\* Callers keep TupleLength(t) within the buffer; the code does not look.
EncodeKeyTuple(t) ==
    LET upto[i \in 0..Len(t)] ==
          IF i = 0 THEN <<>> ELSE upto[i - 1] \o LengthPrefix(Len(t[i])) \o t[i]
    IN upto[Len(t)]

\* A turn of the loop of decode_key_tuple: b has the offset and the subscripts
\* found so far.
DecodeNext(k, b) ==
    LET plen == DecodeLengthPrefix(k, b.o)
        hdr == IF ByteAt(k, b.o) = LongMarker THEN 3 ELSE 1
    IN IF b.o >= Len(k) THEN b
       ELSE [o |-> b.o + hdr + plen, out |-> Append(b.out, Bytes(k, b.o + hdr, plen))]

\* The subscripts found by walking the key, at most MaxSubscripts of them.
DecodeKeyTuple(k) ==
    LET walk[n \in 0..MaxSubscripts] ==
          IF n = 0 THEN [o |-> 0, out |-> <<>>] ELSE DecodeNext(k, walk[n - 1])
    IN walk[MaxSubscripts].out

\* Slip: the comparison stops at the end of the shorter key.
HasPrefixOfShorter(k, p) == \A i \in 1..Least(Len(k), Len(p)) : k[i] = p[i]

HasPrefix(k, p) == Len(k) >= Len(p) /\ \A i \in 1..Len(p) : k[i] = p[i]

\* A marker byte, four bytes of the value, lowest first, and four zeros.
EncodeIntegerSubscript(n) ==
    <<2, n % 256, (n \div 256) % 256, (n \div 65536) % 256, (n \div 16777216) % 256,
      0, 0, 0, 0>>

\* The sum in 32 bits: the upper four bytes are shifted out, the fourth byte
\* carries the sign.
DecodeIntegerSubscript(k, o) ==
    LET b(i) == ByteAt(k, o + i)
        top == IF b(4) >= 128 THEN b(4) - 256 ELSE b(4)
    IN ((top * 256 + b(3)) * 256 + b(2)) * 256 + b(1)

ByteCompare(a, b) ==
    LET limit == Least(Len(a), Len(b))
        differ == {i \in 1..limit : a[i] # b[i]}
        first == CHOOSE i \in differ : \A j \in differ : i <= j
    IN IF differ # {} THEN (IF a[first] < b[first] THEN -1 ELSE 1)
       ELSE IF Len(a) < Len(b) THEN -1 ELSE IF Len(a) > Len(b) THEN 1 ELSE 0

-----------------------------------------------------------------------------
\* hierarchical.c

\* The offset behind the subscript at o.  Unlike DecodeKeyTuple these readers
\* take the size of the prefix from the length it holds.
Behind(k, o) ==
    LET plen == DecodeLengthPrefix(k, o) IN o + LengthPrefixSize(plen) + plen

\* The offset after n turns of the loop of subscript_count.
OffsetAfter(k, n) ==
    LET at[i \in 0..n] == IF i = 0 THEN 0 ELSE Behind(k, at[i - 1])
    IN at[n]

\* The turns the loop makes; a subscript has at least its prefix, so there are
\* no more than the key has bytes.
SubscriptCount(k) ==
    CHOOSE n \in 0..Len(k) : /\ OffsetAfter(k, n) >= Len(k)
                             /\ \A m \in 0..(n - 1) : OffsetAfter(k, m) < Len(k)

\* A turn of the loop of get_subscript_offset; -1 is the early return.
OffsetNext(k, o) ==
    IF o = -1 \/ o >= Len(k) \/ Behind(k, o) > Len(k) THEN -1 ELSE Behind(k, o)

\* Slip: the readers behind subscript 0 all start one subscript too early.
SubscriptOffsetShort(k, idx) ==
    LET at[i \in 0..idx] == IF i <= 1 THEN 0 ELSE OffsetNext(k, at[i - 1])
    IN at[idx]

\* -1 when the key ends before subscript idx.
SubscriptOffset(k, idx) ==
    LET at[i \in 0..idx] == IF i = 0 THEN 0 ELSE OffsetNext(k, at[i - 1])
    IN at[idx]

\* Called for an index within the key.
ExtractSubscript(k, idx) ==
    LET o == SubscriptOffset(k, idx)
        plen == DecodeLengthPrefix(k, o)
    IN Bytes(k, o + LengthPrefixSize(plen), plen)

\* The expected string ends at its first zero byte.
CString(s) ==
    IF 0 \in {s[i] : i \in DOMAIN s}
    THEN SubSeq(s, 1, (CHOOSE i \in DOMAIN s : s[i] = 0 /\ \A j \in 1..(i - 1) : s[j] # 0) - 1)
    ELSE s

SubscriptEqual(k, idx, expected) ==
    LET o == SubscriptOffset(k, idx) IN
    /\ o # -1 /\ o < Len(k)
    /\ Behind(k, o) <= Len(k)
    /\ ExtractSubscript(k, idx) = CString(expected)

\* The first n subscripts; nothing is copied when the key has fewer.
KeyPrefix(k, n) == Bytes(k, 0, SubscriptOffset(k, n))

\* Refused (FALSE) when the child does not fit the buffer.
ConcatFits(k, s) == Len(k) + LengthPrefixSize(Len(s)) + Len(s) <= MaxKeySize

ConcatPrefix(k, s) == k \o LengthPrefix(Len(s)) \o s

-----------------------------------------------------------------------------
\* keysplit.c: strings, so no byte of a part is zero or the delimiter

Cut(s) == SubSeq(s, 1, Least(Len(s), MaxSegmentLen))

\* One byte of length and the bytes of a segment.
FlatSegment(s) == <<Len(s)>> \o s

\* A turn of the loop of make_key_parts; it stops at the first part that does
\* not fit.
PartNext(b, s) ==
    IF b.full \/ Len(b.k) + 1 + Len(s) > MaxKeySize
    THEN [k |-> b.k, full |-> TRUE]
    ELSE [k |-> b.k \o FlatSegment(s), full |-> FALSE]

\* What fits of a part list, each part cut at MaxSegmentLen.
MakeKeyParts(ps) ==
    LET upto[i \in 0..Least(Len(ps), MaxSubscripts)] ==
          IF i = 0 THEN [k |-> <<>>, full |-> FALSE]
          ELSE PartNext(upto[i - 1], Cut(ps[i]))
    IN upto[Least(Len(ps), MaxSubscripts)].k

MakeKey(s) == FlatSegment(Cut(s))

\* Where the segment that begins at offset o of a string ends: at a delimiter,
\* at the end, or at MaxSegmentLen.
SegmentEnd(str, o) ==
    LET ends == {i \in o..Len(str) : \/ i = Len(str)
                                     \/ ByteAt(str, i) = Delimiter
                                     \/ i - o = MaxSegmentLen}
    IN CHOOSE i \in ends : \A j \in ends : i <= j

\* Slip: the delimiter behind a segment is not skipped.
SplitNextStays(str, b) ==
    LET e == SegmentEnd(str, b.o) IN
    IF b.full \/ b.o >= Len(str) THEN b
    ELSE IF Len(b.k) + 1 + (e - b.o) > MaxKeySize
         THEN [o |-> e, k |-> b.k, full |-> TRUE]
         ELSE [o |-> e, k |-> b.k \o FlatSegment(Bytes(str, b.o, e - b.o)), full |-> FALSE]

\* A turn of the loop of key_split: the next segment, and past the delimiter.
SplitNext(str, b) ==
    LET e == SegmentEnd(str, b.o)
        next == IF e < Len(str) /\ ByteAt(str, e) = Delimiter THEN e + 1 ELSE e
    IN IF b.full \/ b.o >= Len(str) THEN b
       ELSE IF Len(b.k) + 1 + (e - b.o) > MaxKeySize
            THEN [o |-> e, k |-> b.k, full |-> TRUE]
            ELSE [o |-> next, k |-> b.k \o FlatSegment(Bytes(str, b.o, e - b.o)), full |-> FALSE]

\* The segments of a string; a delimiter at the very end adds nothing.
KeySplit(str) ==
    LET walk[n \in 0..MaxSubscripts] ==
          IF n = 0 THEN [o |-> 0, k |-> <<>>, full |-> FALSE]
          ELSE SplitNext(str, walk[n - 1])
    IN walk[MaxSubscripts].k

\* A turn of the loop of key_unsplit; the delimiter goes before a segment only
\* if something has been written.
UnsplitNext(k, room, b) ==
    LET n == ByteAt(k, b.o)
        sep == IF b.out # <<>> THEN Append(b.out, Delimiter) ELSE b.out
    IN IF b.full \/ b.o >= Len(k) THEN b
       ELSE IF b.o + 1 + n > Len(k) \/ (b.out # <<>> /\ Len(b.out) >= room)
            THEN [o |-> b.o, out |-> b.out, full |-> TRUE]
       ELSE IF Len(sep) + n > room THEN [o |-> b.o, out |-> sep, full |-> TRUE]
       ELSE [o |-> b.o + 1 + n, out |-> sep \o Bytes(k, b.o + 1, n), full |-> FALSE]

\* What has been joined after n turns.
UnsplitAfter(k, room, n) ==
    LET walk[i \in 0..n] ==
          IF i = 0 THEN [o |-> 0, out |-> <<>>, full |-> FALSE]
          ELSE UnsplitNext(k, room, walk[i - 1])
    IN walk[n]

\* The segments joined again, up to the room in the caller's buffer.  Every
\* turn but the last passes a byte of the key.
KeyUnsplit(k, room) ==
    LET ended(n) == LET b == UnsplitAfter(k, room, n) IN b.full \/ b.o >= Len(k)
    IN UnsplitAfter(k, room, CHOOSE n \in 0..Len(k) : ended(n)).out

-----------------------------------------------------------------------------
\* btree_compression.c

CommonPrefixLength(a, b) ==
    LET same == {n \in 0..Least(Len(a), Len(b)) : SubSeq(a, 1, n) = SubSeq(b, 1, n)}
    IN CHOOSE n \in same : \A m \in same : m <= n

\* Slip: the separator stops with the common prefix.
MinimumSeparatorShort(left, right) ==
    LET sep == Bytes(right, 0, CommonPrefixLength(left, right))
    IN IF ByteCompare(sep, left) <= 0 THEN Bytes(left, 0, MaxKeySize) ELSE sep

\* garry_minimum_separator fills a buffer and does not report how many of its
\* bytes are the separator; here they are what is returned.
MinimumSeparator(left, right) ==
    LET sep == Bytes(right, 0, CommonPrefixLength(left, right) + 1)
    IN IF ByteCompare(sep, left) <= 0 THEN Bytes(left, 0, MaxKeySize) ELSE sep

CompressKey(k, n) ==
    <<n % 256, (Len(k) - n) % 256>> \o SubSeq(k, n + 1, Len(k))

DecompressKey(c, prev) == Bytes(prev, 0, c[1]) \o Bytes(c, 2, c[2])

ByteEqual(a, b) == Len(a) = Len(b) /\ \A i \in 1..Len(a) : a[i] = b[i]

-----------------------------------------------------------------------------
KInit ==
    \E depth \in [Which -> StartDepths] :
        /\ parts = [w \in Which |-> [i \in 1..depth[w] |-> <<>>]]
        /\ key = [w \in Which |-> EncodeKeyTuple([i \in 1..depth[w] |-> <<>>])]

Subscripts == Segments \cup {EncodeIntegerSubscript(n) : n \in Integers32}

\* Where a key may grow: fewer than MaxDepth subscripts above a start depth.
Depths == {d + i : d \in StartDepths, i \in 0..(MaxDepth - 1)}

\* A child of the current key, if the buffer holds it.
Descend(w, s) ==
    /\ Len(parts[w]) \in Depths
    /\ ConcatFits(key[w], s)
    /\ key' = [key EXCEPT ![w] = ConcatPrefix(@, s)]
    /\ parts' = [parts EXCEPT ![w] = Append(@, s)]

\* An ancestor of the current key.
Ascend(w, n) ==
    /\ key' = [key EXCEPT ![w] = KeyPrefix(@, n)]
    /\ parts' = [parts EXCEPT ![w] = SubSeq(@, 1, n)]

KNext ==
    \E w \in Which :
        \/ \E s \in Subscripts : Descend(w, s)
        \/ \E n \in Depths \cap 0..(Len(parts[w]) - 1) : Ascend(w, n)

KeySpec == KInit /\ [][KNext]_kvars
-----------------------------------------------------------------------------
\* The whole-tuple encoder and the step-by-step builders write the same bytes
\* (key_encoding.c 167, hierarchical.c 145 and 206), as many as tuple_length
\* announces, and decode_key_tuple gives back the subscripts, up to the number
\* its array holds.
TupleReads ==
    \A w \in Which :
        /\ key[w] = EncodeKeyTuple(parts[w])
        /\ Len(key[w]) = TupleLength(parts[w])
        /\ DecodeKeyTuple(key[w]) = SubSeq(parts[w], 1, Least(Len(parts[w]), MaxSubscripts))

\* Every reader of hierarchical.c finds in the bytes the subscripts the key was
\* built from: their number, each one by its index and by comparison, none
\* behind the last, and an integer subscript its value.  The bytes of an integer
\* are in little-endian order (key_encoding.h says big-endian), so that their
\* comparison is not that of the integers, and nothing here is about it.
HierarchyReads ==
    \A w \in Which : LET k == key[w] p == parts[w] IN
        /\ SubscriptCount(k) = Len(p)
        /\ SubscriptOffset(k, Len(p)) = Len(k) /\ SubscriptOffset(k, Len(p) + 1) = -1
        /\ \A i \in 1..Len(p) :
              /\ ExtractSubscript(k, i - 1) = p[i]
              /\ \A s \in Segments : CString(s) = s =>
                    (SubscriptEqual(k, i - 1, s) <=> s = p[i])
              /\ \A n \in Integers32 : p[i] = EncodeIntegerSubscript(n) =>
                    DecodeIntegerSubscript(ExtractSubscript(k, i - 1), 0) = n
        /\ \A s \in Segments : ~SubscriptEqual(k, Len(p), s)

\* A key has another as a byte prefix (key_encoding.c 223, what range queries
\* and cursors test) exactly when it lies in the other's subtree: no subscript
\* can imitate the length prefix of a longer one.
PrefixMeansSubtree ==
    \A w, u \in Which : HasPrefix(key[w], key[u]) <=> IsPrefix(parts[u], parts[w])

\* The keys a string split at a delimiter may give.
Strings(p) ==
    /\ \A i \in DOMAIN p : {0, Delimiter} \cap {p[i][j] : j \in DOMAIN p[i]} = {}
    /\ p # <<>> => p[1] # <<>> /\ Last(p) # <<>>

\* A part list that fits a key comes back from the encoding of keysplit.c:
\* unsplitting gives the joined string, splitting that gives the same bytes,
\* decode_key_tuple reads the parts, and while every part is short enough for
\* an inline length the bytes are those of the hierarchical encoding.
FlatReads ==
    \A w \in Which : LET p == parts[w] f == MakeKeyParts(p) IN
        Strings(p) /\ Len(p) <= MaxSubscripts =>
            /\ KeySplit(KeyUnsplit(f, MaxKeySize)) = f
            /\ Len(p) = 1 => f = MakeKey(p[1])
            /\ (\A i \in DOMAIN p : Len(p[i]) < LongMarker) => DecodeKeyTuple(f) = p
            /\ (\A i \in DOMAIN p : Len(p[i]) < InlineMax) => f = key[w]

\* The separator of two keys (btree_compression.c 55) is above the left one, at
\* most the right one, and no shorter key would do; a key compressed against
\* another (95) is the same key again when decompressed (121), while its suffix
\* fits the buffer.
KeysCompress ==
    \A w, u \in Which : LET left == key[w] right == key[u] IN
        /\ ByteCompare(left, right) = -ByteCompare(right, left)
        /\ ByteEqual(left, right) <=> ByteCompare(left, right) = 0
        /\ ByteCompare(left, right) < 0 =>
              LET sep == MinimumSeparator(left, right) IN
              /\ ByteCompare(left, sep) < 0 /\ ByteCompare(sep, right) <= 0
              /\ ByteCompare(Bytes(sep, 0, Len(sep) - 1), left) <= 0
        /\ LET n == CommonPrefixLength(left, right) IN
           n < 256 /\ Len(right) - n <= MaxKeySize - 2 =>
              DecompressKey(CompressKey(right, n), left) = right

\* What the readers of hierarchical.c would make of every key of keysplit.c: the
\* two encodings part ways at 128 bytes, where one writes three bytes of length
\* and the other one.
FlatIsHierarchical ==
    \A w \in Which : LET p == parts[w] f == MakeKeyParts(p) IN
        Strings(p) /\ Len(p) <= MaxSubscripts => SubscriptCount(f) = Len(p)

=============================================================================
