----------------------------- MODULE RecordCodec -----------------------------
(***************************************************************************)
(* The CBOR subset of src/record_codec.c and src/btree_node.c: how an entry *)
(* of a node, a descriptor and a node's metadata become bytes, and what is  *)
(* read back.  Byte sequences are 1-based; a decoder returns the value and  *)
(* the position behind it, 0 when the input is malformed.                   *)
(***************************************************************************)
EXTENDS Integers, Sequences

PageIdBias == 100000            \* GARRY_PAGE_ID_BIAS

Octets == 0 .. 255

Octet(n) == n % 256

Malformed == [val |-> 0, next |-> 0]

------------------------------------------------------------------------------
(* A CBOR head of major type base / 32 with an argument of at most 32 bits:
   encode_cbor_uint. *)
Head32(base, n) ==
    IF n < 24         THEN <<base + n>>
    ELSE IF n < 256   THEN <<base + 24, n>>
    ELSE IF n < 65536 THEN <<base + 25, n \div 256, Octet(n)>>
    ELSE <<base + 26, Octet(n \div 16777216), Octet(n \div 65536),
           Octet(n \div 256), Octet(n)>>

EncodeUint(n) == Head32(0, n)

EncodeNegint(n) == Head32(32, n)

(* decode_cbor_uint: the argument of the head at pos. *)
DecodeHead(buf, pos, base) ==
    LET ai == buf[pos] - base
        Room(k) == pos + k <= Len(buf)
    IN  IF ai \in 0 .. 23            THEN [val |-> ai, next |-> pos + 1]
        ELSE IF ai = 24 /\ Room(1)   THEN [val |-> buf[pos + 1], next |-> pos + 2]
        ELSE IF ai = 25 /\ Room(2)   THEN [val |-> buf[pos + 1] * 256 + buf[pos + 2],
                                           next |-> pos + 3]
        ELSE IF ai = 26 /\ Room(4)   THEN [val |-> buf[pos + 1] * 16777216
                                                   + buf[pos + 2] * 65536
                                                   + buf[pos + 3] * 256 + buf[pos + 4],
                                           next |-> pos + 5]
        ELSE Malformed

DecodeUint(buf, pos) == DecodeHead(buf, pos, 0)

DecodeNegint(buf, pos) ==
    LET d == DecodeHead(buf, pos, 32)
    IN  IF d.next = 0 THEN d ELSE [d EXCEPT !.val = -1 - @]

------------------------------------------------------------------------------
(* Arrays and byte strings have a one-byte length at most: a length of 256
   is written as 0. *)
ArrayHeader(count) ==
    IF count < 24 THEN <<128 + count>> ELSE <<152, Octet(count)>>

DecodeArrayHeader(buf, pos) ==
    LET ai == buf[pos] - 128 IN
    IF ai \in 0 .. 23                       THEN ai
    ELSE IF ai = 24 /\ pos + 1 <= Len(buf)  THEN buf[pos + 1]
    ELSE 0

ArrayHeaderSize(buf, pos) == IF buf[pos] - 128 = 24 THEN 2 ELSE 1

ByteString(data) ==
    (IF Len(data) < 24 THEN <<64 + Len(data)>> ELSE <<88, Octet(Len(data))>>) \o data

(* The data of the byte string at pos; a length that reaches past the buffer
   is cut there. *)
DecodeByteString(buf, pos) ==
    LET ai == buf[pos] - 64
        Taken(from, n) == [val |-> SubSeq(buf, from, from + n - 1), next |-> from + n]
    IN  IF pos <= Len(buf) /\ ai < 24             THEN Taken(pos + 1, ai)
        ELSE IF pos + 1 <= Len(buf) /\ ai = 24    THEN Taken(pos + 2, buf[pos + 1])
        ELSE [val |-> <<>>, next |-> 0]

------------------------------------------------------------------------------
(* garry_encode_kv: an array of two byte strings. *)
EncodeKv(key, value) == ArrayHeader(2) \o ByteString(key) \o ByteString(value)

DecodeKv(buf) ==
    LET bad == [ok |-> FALSE, key |-> <<>>, value |-> <<>>]
        k   == DecodeByteString(buf, 1 + ArrayHeaderSize(buf, 1))
        v   == DecodeByteString(buf, k.next)
    IN  IF buf = <<>> \/ DecodeArrayHeader(buf, 1) # 2 \/ k.next = 0 \/ v.next = 0
        THEN bad
        ELSE [ok |-> TRUE, key |-> k.val, value |-> v.val]

(* garry_encode_descriptor: {"cid": chain id, "hc": has children}. *)
EncodeDescriptor(cid, kids) ==
    <<162, 99, 99, 105, 100>>
    \o (IF cid >= 0 THEN EncodeUint(cid) ELSE EncodeNegint(-1 - cid))
    \o <<98, 104, 99, IF kids THEN 245 ELSE 244>>

(* garry_decode_descriptor skips each name by its length and does not look at
   it; zeros when the input is malformed. *)
DecodeDescriptor(buf) ==
    LET AfterText(pos) == pos + 1 + (buf[pos] - 96)
        intPos == AfterText(2)
        int    == IF buf[intPos] < 32 THEN DecodeUint(buf, intPos)
                                      ELSE DecodeNegint(buf, intPos)
        hcPos  == AfterText(IF int.next > intPos THEN int.next ELSE intPos)
    IN  IF Len(buf) < 2 \/ buf[1] \notin 160 .. 191
             \/ intPos > Len(buf) \/ buf[intPos] >= 64
        THEN [cid |-> 0, kids |-> FALSE]
        ELSE [cid |-> int.val, kids |-> hcPos <= Len(buf) /\ buf[hcPos] = 245]

------------------------------------------------------------------------------
(* The loop of garry_encode_node_meta: the first k ids, biased, one behind the
   other. *)
WrittenIds(ids) ==
    LET written[k \in 0 .. Len(ids)] ==
            IF k = 0 THEN <<>>
                     ELSE written[k - 1] \o EncodeUint(ids[k] + PageIdBias)
    IN  written[Len(ids)]

(* garry_encode_node_meta: the neighbours of a leaf and the children of an
   internal node, as one array of biased page ids. *)
EncodeNodeMeta(n) ==
    LET ids == <<n.next, n.prev>> \o n.children
    IN  ArrayHeader(Len(ids)) \o WrittenIds(ids)

(* A call of decode_cbor_uint: one more biased id. *)
ReadId(buf, done) ==
    LET d == DecodeUint(buf, done.next)
    IN  [ids |-> Append(done.ids, d.val - PageIdBias), next |-> d.next]

(* count ids from pos on. *)
ReadIds(buf, pos, count) ==
    LET read[k \in 0 .. count] ==
            IF k = 0 THEN [ids |-> <<>>, next |-> pos] ELSE ReadId(buf, read[k - 1])
    IN  read[count].ids

(* garry_decode_node_meta for a page of this kind. *)
DecodeNodeMeta(buf, kind) ==
    LET ids == ReadIds(buf, 1 + ArrayHeaderSize(buf, 1),
                       IF kind = "internal" THEN DecodeArrayHeader(buf, 1) ELSE 2)
    IN  [next |-> ids[1], prev |-> ids[2], children |-> SubSeq(ids, 3, Len(ids))]
==============================================================================
