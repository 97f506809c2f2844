--------------------------- MODULE NodePageProofs ----------------------------
(***************************************************************************)
(* The slotted page keeps its records, for every page size up to 64 KiB,    *)
(* every slot limit and every sequence of insertions and initialisations;   *)
(* and a node stored in it is read back.                                    *)
(*                                                                          *)
(* The second argument goes from the bytes up: what an encoder writes at a  *)
(* position of a buffer its decoder reads from there (numbers, strings,     *)
(* records, descriptors, page ids), so a page that holds the records of a   *)
(* node, or the first of them, is loaded as that node or its beginning;     *)
(* and NodeInv says which records are in the page and in the file at every  *)
(* step of a store.                                                         *)
(***************************************************************************)
EXTENDS NodePage, SequenceTheorems, WellFoundedInduction, TLAPS

(* The two bounds of a slot's 16-bit fields are reached by no accepted record:
   a record is not empty, so its offset is below 65536. *)
LEMMA SlotWidth ==
    ASSUME NEW n \in Nat, n < Word
    PROVE  n % Word = n
BY DEF Word

\* An initialised page is sound and holds no record.
LEMMA FreshSound ==
    ASSUME NEW kind \in Kinds
    PROVE  /\ page = FreshPage(kind) /\ recs = <<>>
                 => PageTypeOK /\ PageSound /\ RecordsKept
           /\ Reinit(kind) => PageTypeOK' /\ PageSound' /\ RecordsKept'
<1>1. FreshPage(kind) \in Page
  BY PageAssumption DEF FreshPage, Page, Slot, Word
<1>2. FreshPage(kind).count = 0 /\ FreshPage(kind).freeStart = HeaderSize
      /\ FreshPage(kind).freeEnd = PageSize
  BY DEF FreshPage
<1>3. ASSUME page = FreshPage(kind), recs = <<>>
      PROVE  PageTypeOK /\ PageSound /\ RecordsKept
  BY <1>1, <1>2, <1>3, PageAssumption DEF PageTypeOK, PageSound, RecordsKept
<1>4. ASSUME Reinit(kind) PROVE PageTypeOK' /\ PageSound' /\ RecordsKept'
  BY <1>1, <1>2, <1>4, PageAssumption
     DEF Reinit, PageTypeOK, PageSound, RecordsKept
<1> QED BY <1>3, <1>4

(* The room garry_page_insert checks for keeps both fields of the slot within
   their 16 bits. *)
LEMMA RoomArithmetic ==
    ASSUME NEW e \in Nat, NEW n \in Nat \ {0}, NEW fs \in Nat,
           e <= PageSize, e - n >= HeaderSize, fs + SlotSize <= e - n
    PROVE  /\ e - n \in 0 .. Word - 1
           /\ n \in 0 .. Word - 1
           /\ e - n \in Nat
           /\ fs + SlotSize \in Nat
           /\ (e - n) % Word = e - n
           /\ n % Word = n
<1>1. e - n \in Nat /\ n \in Nat /\ e - n < Word /\ n < Word
  BY PageAssumption DEF Word
<1>2. (e - n) % Word = e - n
  BY <1>1, SlotWidth
<1>3. n % Word = n
  BY <1>1, SlotWidth
<1>4. fs + SlotSize \in Nat
  BY PageAssumption
<1>5. e - n \in 0 .. Word - 1 /\ n \in 0 .. Word - 1
  <2>1. Word \in Nat
    BY DEF Word
  <2> QED BY <1>1, <2>1
<1> QED BY <1>1, <1>2, <1>3, <1>4, <1>5

\* Copying a record into the page leaves it a page of bytes.
LEMMA CopiedInType ==
    ASSUME NEW bytes \in [0 .. PageSize - 1 -> Byte], NEW offset \in Nat,
           NEW data \in Seq(Byte)
    PROVE  CopiedIn(bytes, offset, data) \in [0 .. PageSize - 1 -> Byte]
<1>1. ASSUME NEW i \in 0 .. PageSize - 1, i \in offset .. offset + Len(data) - 1
      PROVE  data[i - offset + 1] \in Byte
  <2>1. i - offset + 1 \in 1 .. Len(data)
    BY <1>1, PageAssumption
  <2> QED BY <2>1
<1> QED BY <1>1 DEF CopiedIn

(* What an accepted insertion does to a sound page. *)
LEMMA InsertFacts ==
    ASSUME PageTypeOK, PageSound, NEW data \in Records, InsertRecord(data),
           NEW n, n = Len(data), NEW end, end = page.freeEnd - n
    PROVE  /\ n \in Nat \ {0}
           /\ end \in Nat
           /\ page.count \in 0 .. MaxSlots - 1
           /\ page.freeStart + SlotSize <= end
           /\ page' = [kind |-> page.kind, count |-> page.count + 1,
                       freeStart |-> page.freeStart + SlotSize,
                       freeEnd |-> end,
                       slots |-> [page.slots EXCEPT ![page.count] =
                                     [offset |-> end, length |-> n]],
                       bytes |-> CopiedIn(page.bytes, end, data)]
           /\ page' \in Page
<1>1. data \in Seq(Byte) /\ n \in Nat \ {0}
  BY DEF Records
<1>2. /\ page = [kind |-> page.kind, count |-> page.count, freeStart |-> page.freeStart,
                 freeEnd |-> page.freeEnd, slots |-> page.slots,
                 bytes |-> page.bytes]
      /\ page.kind \in Kinds
      /\ page.count \in Nat /\ page.freeStart \in Nat /\ page.freeEnd \in Nat
      /\ page.slots \in [0 .. MaxSlots - 1 -> Slot]
      /\ page.bytes \in [0 .. PageSize - 1 -> Byte]
  BY DEF PageTypeOK, Page
<1>3. /\ page.count < MaxSlots
      /\ page.freeStart + SlotSize <= page.freeEnd - n
      /\ page.freeEnd - n >= HeaderSize
  BY DEF InsertRecord, Fits
<1>4. page.freeEnd <= PageSize
  BY DEF PageSound
<1>5. /\ end \in 0 .. Word - 1 /\ n \in 0 .. Word - 1
      /\ end \in Nat /\ page.freeStart + SlotSize \in Nat
      /\ end % Word = end /\ n % Word = n
  BY <1>1, <1>2, <1>3, <1>4, RoomArithmetic
<1>6. WrittenSlot(end, n) = [offset |-> end, length |-> n]
  BY <1>5 DEF WrittenSlot
<1>7. [offset |-> end, length |-> n] \in Slot
  BY <1>5 DEF Slot
<1>8. CopiedIn(page.bytes, end, data) \in [0 .. PageSize - 1 -> Byte]
  BY <1>1, <1>2, <1>5, CopiedInType
<1>9. page' = [page EXCEPT !.slots[page.count] = WrittenSlot(end, n),
                           !.freeStart = @ + SlotSize,
                           !.count = @ + 1,
                           !.freeEnd = end,
                           !.bytes = CopiedIn(@, end, data)]
  BY DEF InsertRecord, PageInsert
<1>10. page' = [kind |-> page.kind, count |-> page.count + 1,
                freeStart |-> page.freeStart + SlotSize,
                freeEnd |-> end,
                slots |-> [page.slots EXCEPT ![page.count] =
                              [offset |-> end, length |-> n]],
                bytes |-> CopiedIn(page.bytes, end, data)]
  BY <1>2, <1>6, <1>9
<1>11. page.count \in 0 .. MaxSlots - 1
  BY <1>2, <1>3, PageAssumption
<1>12. [page.slots EXCEPT ![page.count] = [offset |-> end, length |-> n]]
          \in [0 .. MaxSlots - 1 -> Slot]
  BY <1>2, <1>7, <1>11
<1>13. page' \in Page
  BY <1>2, <1>5, <1>8, <1>10, <1>12 DEF Page
<1> QED BY <1>1, <1>3, <1>5, <1>10, <1>11, <1>13

(* An insertion preserves the layout. *)
LEMMA InsertKeepsSound ==
    ASSUME PageTypeOK, PageSound, NEW data \in Records, InsertRecord(data)
    PROVE  PageTypeOK' /\ PageSound'
<1> DEFINE n == Len(data)
           end == page.freeEnd - n
<1>1. /\ n \in Nat \ {0}
      /\ end \in Nat
      /\ page.count \in 0 .. MaxSlots - 1
      /\ page.freeStart + SlotSize <= end
      /\ page' = [kind |-> page.kind, count |-> page.count + 1,
                  freeStart |-> page.freeStart + SlotSize,
                  freeEnd |-> end,
                  slots |-> [page.slots EXCEPT ![page.count] =
                                [offset |-> end, length |-> n]],
                  bytes |-> CopiedIn(page.bytes, end, data)]
      /\ page' \in Page
  BY InsertFacts
<1>2. /\ page.count \in Nat /\ page.freeStart \in Nat /\ page.freeEnd \in Nat
      /\ page.slots \in [0 .. MaxSlots - 1 -> Slot]
      /\ recs \in Seq(Records)
  BY DEF PageTypeOK, Page
<1>3. recs' = Append(recs, data) /\ recs' \in Seq(Records)
      /\ Len(recs') = Len(recs) + 1
  BY <1>2 DEF InsertRecord
<1>4. PageTypeOK'
  BY <1>1, <1>3 DEF PageTypeOK
<1>5. page'.count = Len(recs')
  BY <1>1, <1>3 DEF PageSound
<1>6. page'.freeStart = HeaderSize + SlotSize * page'.count
  <2>1. page.freeStart = HeaderSize + SlotSize * page.count
    BY DEF PageSound
  <2> QED BY <1>1, <1>2, <2>1, PageAssumption
<1>7. page'.freeStart <= page'.freeEnd
  BY <1>1
<1>8. page'.freeEnd <= page.freeEnd /\ page.freeEnd <= PageSize
      /\ page'.freeEnd = end /\ page.freeEnd = end + n
  <2>1. page.freeEnd <= PageSize
    BY DEF PageSound
  <2>2. page'.freeEnd = end
    BY <1>1
  <2>3. page.freeEnd = end + n /\ end <= page.freeEnd
    BY <1>1, <1>2
  <2> QED BY <2>1, <2>2, <2>3
<1>9. page'.slots = [page.slots EXCEPT ![page.count] = [offset |-> end, length |-> n]]
      /\ page'.count = page.count + 1
  BY <1>1
<1>10. /\ page'.slots[page.count].offset = end
       /\ page'.slots[page.count].length = n
  BY <1>1, <1>2, <1>9
<1>11. ASSUME NEW i \in 0 .. page.count - 1
       PROVE  /\ page'.slots[i] = page.slots[i]
              /\ page.slots[i] \in Slot
              /\ page.freeEnd <= page.slots[i].offset
              /\ page.slots[i].offset + page.slots[i].length <= PageSize
  <2>1. i \in 0 .. MaxSlots - 1 /\ i # page.count
    BY <1>1, PageAssumption
  <2>2. page'.slots[i] = page.slots[i] /\ page.slots[i] \in Slot
    BY <1>2, <1>9, <2>1
  <2> QED BY <2>2 DEF PageSound
<1>12. \A i \in 0 .. page'.count - 1 :
          /\ page'.freeEnd <= page'.slots[i].offset
          /\ page'.slots[i].offset + page'.slots[i].length <= PageSize
  <2> TAKE i \in 0 .. page'.count - 1
  <2>1. CASE i = page.count
    <3>1. end <= end /\ end + n <= PageSize
      BY <1>1, <1>8
    <3> QED BY <1>8, <1>10, <2>1, <3>1
  <2>2. CASE i # page.count
    <3>1. i \in 0 .. page.count - 1
      BY <1>2, <1>9, <2>2
    <3>2. page.slots[i].offset \in Nat
      BY <1>11, <3>1 DEF Slot
    <3>3. page'.slots[i] = page.slots[i]
          /\ page.freeEnd <= page.slots[i].offset
          /\ page.slots[i].offset + page.slots[i].length <= PageSize
      BY <1>11, <3>1
    <3>4. page'.freeEnd <= page.slots[i].offset
      BY <1>1, <1>2, <1>8, <3>2, <3>3
    <3> QED BY <3>3, <3>4
  <2> QED BY <2>1, <2>2
<1>13. \A i, j \in 0 .. page'.count - 1 :
          i < j => page'.slots[j].offset + page'.slots[j].length
                       <= page'.slots[i].offset
  <2> TAKE i, j \in 0 .. page'.count - 1
  <2> HAVE i < j
  <2>1. i \in 0 .. page.count - 1
    BY <1>2, <1>9
  <2>2. CASE j = page.count
    BY <1>1, <1>2, <1>8, <1>10, <1>11, <2>1, <2>2
  <2>3. CASE j # page.count
    <3>1. j \in 0 .. page.count - 1
      BY <1>2, <1>9, <2>3
    <3>2. page.slots[j].offset + page.slots[j].length <= page.slots[i].offset
      BY <2>1, <3>1 DEF PageSound
    <3> QED BY <1>11, <2>1, <3>1, <3>2
  <2> QED BY <2>2, <2>3
<1>14. page'.freeEnd <= PageSize
  BY <1>1, <1>2, <1>8, PageAssumption
<1> QED BY <1>4, <1>5, <1>6, <1>7, <1>12, <1>13, <1>14 DEF PageSound

(* An insertion changes no byte of an earlier record. *)
LEMMA InsertKeepsRecords ==
    ASSUME PageTypeOK, PageSound, RecordsKept,
           NEW data \in Records, InsertRecord(data)
    PROVE  RecordsKept'
<1> DEFINE n == Len(data)
           end == page.freeEnd - n
<1>1. /\ n \in Nat \ {0}
      /\ end \in Nat
      /\ page.count \in 0 .. MaxSlots - 1
      /\ page.freeStart + SlotSize <= end
      /\ page' = [kind |-> page.kind, count |-> page.count + 1,
                  freeStart |-> page.freeStart + SlotSize,
                  freeEnd |-> end,
                  slots |-> [page.slots EXCEPT ![page.count] =
                                [offset |-> end, length |-> n]],
                  bytes |-> CopiedIn(page.bytes, end, data)]
  BY InsertFacts
<1>2. /\ page.count \in Nat /\ page.freeStart \in Nat /\ page.freeEnd \in Nat
      /\ page.slots \in [0 .. MaxSlots - 1 -> Slot]
      /\ recs \in Seq(Records)
  BY DEF PageTypeOK, Page
<1>3. recs' = Append(recs, data) /\ Len(recs) = page.count
  BY DEF InsertRecord, PageSound
<1>4. /\ page.freeStart >= HeaderSize /\ page.freeEnd <= PageSize
      /\ page.freeEnd = end + n
  <2>1. page.freeStart = HeaderSize + SlotSize * page.count
        /\ page.freeEnd <= PageSize
    BY DEF PageSound
  <2>2. SlotSize * page.count \in Nat
    BY <1>2, PageAssumption
  <2>3. page.freeEnd = end + n
    BY <1>1, <1>2
  <2> QED BY <2>1, <2>2, <2>3, PageAssumption
<1>5. data \in Seq(Byte)
  BY DEF Records
<1>6. /\ page'.count = page.count + 1
      /\ page'.slots = [page.slots EXCEPT ![page.count] = [offset |-> end, length |-> n]]
      /\ page'.bytes = CopiedIn(page.bytes, end, data)
  BY <1>1
<1> HIDE DEF n, end
<1>7. PageGet(page', page.count) = data
  <2>1. /\ page'.slots[page.count].offset = end
        /\ page'.slots[page.count].length = n
    BY <1>1, <1>2, <1>6
  <2>2. n <= PageSize - HeaderSize /\ page.count \in 0 .. page'.count - 1
    <3>1. end >= HeaderSize
      BY <1>1, <1>2, <1>4, PageAssumption
    <3>2. end + n <= PageSize
      BY <1>4
    <3> QED BY <1>1, <1>2, <1>6, <3>1, <3>2, PageAssumption
  <2>3. PageGet(page', page.count) = [i \in 1 .. n |-> page'.bytes[end + i - 1]]
    BY <2>1, <2>2 DEF PageGet
  <2>4. ASSUME NEW i \in 1 .. n
        PROVE  page'.bytes[end + i - 1] = data[i]
    <3>1. end + i - 1 \in 0 .. PageSize - 1
      BY <1>1, <1>2, <1>4, PageAssumption
    <3>2. end + i - 1 \in end .. end + Len(data) - 1
      BY <1>1 DEF n
    <3>3. page'.bytes[end + i - 1] = data[(end + i - 1) - end + 1]
      BY <1>6, <3>1, <3>2 DEF CopiedIn
    <3> QED BY <1>1, <3>3
  <2> QED BY <1>5, <2>3, <2>4 DEF n
<1>8. ASSUME NEW i \in 0 .. page.count - 1
      PROVE  PageGet(page', i) = PageGet(page, i)
  <2>1. i \in 0 .. MaxSlots - 1 /\ i # page.count /\ i \in 0 .. page'.count - 1
    BY <1>1, <1>6, PageAssumption
  <2>2. page'.slots[i] = page.slots[i] /\ page.slots[i] \in Slot
    BY <1>2, <1>6, <2>1
  <2>3. /\ page.slots[i].offset \in Nat /\ page.slots[i].length \in Nat
        /\ page.freeEnd <= page.slots[i].offset
        /\ page.slots[i].offset + page.slots[i].length <= PageSize
    <3>1. page.slots[i].offset \in Nat /\ page.slots[i].length \in Nat
      BY <2>2 DEF Slot
    <3> QED BY <3>1 DEF PageSound
  <2>4. ASSUME NEW k \in 1 .. page.slots[i].length
        PROVE  page'.bytes[page.slots[i].offset + k - 1]
                 = page.bytes[page.slots[i].offset + k - 1]
    <3>1. page.slots[i].offset + k - 1 \in 0 .. PageSize - 1
      BY <2>3, PageAssumption
    <3>2. page.slots[i].offset + k - 1 \notin end .. end + Len(data) - 1
      <4>1. end + n <= page.slots[i].offset + k - 1
        BY <1>1, <1>4, <2>3
      <4> QED BY <1>1, <2>3, <4>1 DEF n
    <3> QED BY <1>6, <3>1, <3>2 DEF CopiedIn
  <2> QED BY <2>1, <2>2, <2>4 DEF PageGet
<1>9. ASSUME NEW i \in 0 .. page.count - 1
      PROVE  recs'[i + 1] = recs[i + 1]
  BY <1>2, <1>3
<1>10. recs'[page.count + 1] = data
  BY <1>2, <1>3
<1> SUFFICES ASSUME NEW i \in 0 .. page'.count - 1
             PROVE  PageGet(page', i) = recs'[i + 1]
  BY DEF RecordsKept
<1>11. CASE i = page.count
  BY <1>7, <1>10, <1>11
<1>12. CASE i # page.count
  <2>1. i \in 0 .. page.count - 1
    BY <1>2, <1>6, <1>12
  <2> QED BY <1>8, <1>9, <2>1 DEF RecordsKept
<1> QED BY <1>11, <1>12

(* Starting from an initialised page, the directory and the records of a
   slotted page never overlap, and garry_page_get returns every accepted record
   as it was inserted: for every page size the 16-bit slots can address. *)
THEOREM PageKeepsRecords == PageSpec => [](PageSound /\ RecordsKept)
<1> DEFINE Inv == PageTypeOK /\ PageSound /\ RecordsKept
<1>1. PageStart => Inv
  BY FreshSound DEF PageStart
<1>2. Inv /\ [PageNext]_pageVars => Inv'
  <2> SUFFICES ASSUME Inv, [PageNext]_pageVars
               PROVE  Inv'
    OBVIOUS
  <2>1. ASSUME NEW kind \in Kinds, Reinit(kind)
        PROVE  Inv'
    BY <2>1, FreshSound
  <2>2. ASSUME NEW data \in Records, InsertRecord(data)
        PROVE  Inv'
    BY <2>2, InsertKeepsSound, InsertKeepsRecords
  <2>3. CASE UNCHANGED pageVars
    BY <2>3 DEF pageVars, PageTypeOK, PageSound, RecordsKept
  <2> QED BY <2>1, <2>2, <2>3 DEF PageNext
<1>3. Inv => PageSound /\ RecordsKept
  OBVIOUS
<1> QED BY <1>1, <1>2, <1>3, PTL DEF PageSpec

------------------------------------------------------------------------------
(* Bytes in a buffer. *)

\* An octet as a number with bounds.
LEMMA OctetsAre == \A n : n \in Octets <=> n \in Nat /\ n < 256
BY DEF Octets

\* The bytes of s stand in buf from pos on.
StandsAt(buf, pos, s) ==
    /\ buf \in Seq(Octets)
    /\ s \in Seq(Octets)
    /\ pos \in Nat \ {0}
    /\ pos + Len(s) <= Len(buf) + 1
    /\ \A i \in 1 .. Len(s) : buf[pos + i - 1] = s[i]

\* Concatenation: its type and length,
LEMMA Joined ==
    ASSUME NEW S, NEW a \in Seq(S), NEW b \in Seq(S)
    PROVE  /\ (a \o b) \in Seq(S) /\ Len(a \o b) = Len(a) + Len(b)
           /\ Len(a) \in Nat /\ Len(b) \in Nat
OBVIOUS

\* its first part,
LEMMA JoinedLow ==
    ASSUME NEW S, NEW a \in Seq(S), NEW b \in Seq(S), NEW i \in 1 .. Len(a)
    PROVE  (a \o b)[i] = a[i]
OBVIOUS

\* and its second part.
LEMMA JoinedAt ==
    ASSUME NEW S, NEW a \in Seq(S), NEW b \in Seq(S), NEW i \in 1 .. Len(b)
    PROVE  (a \o b)[Len(a) + i] = b[i]
OBVIOUS

\* A buffer stands in itself.
LEMMA StandsWhole ==
    ASSUME NEW buf \in Seq(Octets)
    PROVE  StandsAt(buf, 1, buf)
BY DEF StandsAt

\* Of two strings written one behind the other each stands at its place.
LEMMA StandsSplit ==
    ASSUME NEW buf, NEW pos, NEW a \in Seq(Octets), NEW b \in Seq(Octets),
           StandsAt(buf, pos, a \o b)
    PROVE  StandsAt(buf, pos, a) /\ StandsAt(buf, pos + Len(a), b)
<1>1. /\ Len(a) \in Nat /\ Len(b) \in Nat /\ Len(a \o b) = Len(a) + Len(b)
      /\ buf \in Seq(Octets) /\ pos \in Nat \ {0} /\ Len(buf) \in Nat
      /\ pos + Len(a) + Len(b) <= Len(buf) + 1
  BY DEF StandsAt
<1>2. ASSUME NEW i \in 1 .. Len(a) PROVE buf[pos + i - 1] = a[i]
  <2>1. (a \o b)[i] = a[i] /\ i \in 1 .. Len(a \o b)
    BY <1>1
  <2> QED BY <2>1 DEF StandsAt
<1>3. ASSUME NEW i \in 1 .. Len(b) PROVE buf[pos + Len(a) + i - 1] = b[i]
  <2>1. (a \o b)[Len(a) + i] = b[i] /\ Len(a) + i \in 1 .. Len(a \o b)
    BY <1>1
  <2>2. buf[pos + (Len(a) + i) - 1] = (a \o b)[Len(a) + i]
    BY <2>1 DEF StandsAt
  <2>3. pos + (Len(a) + i) - 1 = pos + Len(a) + i - 1
    BY <1>1
  <2> QED BY <2>1, <2>2, <2>3
<1>4. StandsAt(buf, pos, a)
  BY <1>1, <1>2 DEF StandsAt
<1>5. StandsAt(buf, pos + Len(a), b)
  BY <1>1, <1>3 DEF StandsAt
<1> QED BY <1>4, <1>5

------------------------------------------------------------------------------
\* The head of an argument: one, two, three or five bytes.
HeadShape(h, base, n) ==
    /\ h \in Seq(Octets)
    /\ Len(h) \in Nat /\ Len(h) >= 1 /\ Len(h) <= 5
    /\ h[1] \in Nat /\ h[1] >= base /\ h[1] <= base + 26
    /\ n >= 65536 => Len(h) = 5

\* The bytes an encoder of a number writes have one of the four shapes.
LEMMA HeadBytes ==
    ASSUME NEW base \in {0, 32}, NEW n \in Nat, n <= 2147483647
    PROVE  HeadShape(Head32(base, n), base, n)
<1> USE DEF HeadShape
<1>1. CASE n < 24
  <2>1. Head32(base, n) = <<base + n>>
    BY <1>1, SMT DEF Head32
  <2>2. base + n \in Octets /\ base + n \in base .. base + 26
    BY <1>1, OctetsAre, SMT
  <2> QED BY <1>1, <2>1, <2>2, SMT
<1>2. CASE n >= 24 /\ n < 256
  <2>1. Head32(base, n) = <<base + 24, n>>
    BY <1>2, SMT DEF Head32
  <2>2. base + 24 \in Octets /\ n \in Octets /\ base + 24 \in base .. base + 26
    BY <1>2, OctetsAre, SMT
  <2> QED BY <1>2, <2>1, <2>2, SMT
<1>3. CASE n >= 256 /\ n < 65536
  <2>1. Head32(base, n) = <<base + 25, n \div 256, Octet(n)>>
    BY <1>3, SMT DEF Head32
  <2>2. /\ base + 25 \in Octets /\ n \div 256 \in Octets /\ Octet(n) \in Octets
        /\ base + 25 \in base .. base + 26
    <3>1. n \div 256 \in Nat /\ n \div 256 < 256 /\ Octet(n) \in Nat /\ Octet(n) < 256
      BY <1>3, SMT DEF Octet
    <3> QED BY <3>1, OctetsAre, SMT
  <2> QED BY <1>3, <2>1, <2>2, SMT
<1>4. CASE n >= 65536
  <2> DEFINE b1 == Octet(n \div 16777216)
             b2 == Octet(n \div 65536)
             b3 == Octet(n \div 256)
             b4 == Octet(n)
  <2>1. Head32(base, n) = <<base + 26, b1, b2, b3, b4>>
    BY <1>4, SMT DEF Head32
  <2>2. \A m \in Int : Octet(m) \in Nat /\ Octet(m) < 256
    BY SMT DEF Octet
  <2>3. n \div 16777216 \in Int /\ n \div 65536 \in Int /\ n \div 256 \in Int
    BY SMT
  <2>4. /\ b1 \in Octets /\ b2 \in Octets /\ b3 \in Octets /\ b4 \in Octets
    BY <2>2, <2>3, OctetsAre, SMT
  <2> HIDE DEF b1, b2, b3, b4
  <2>5. base + 26 \in base .. base + 26 /\ base + 26 \in Octets
    BY OctetsAre, SMT
  <2> QED BY <2>1, <2>4, <2>5, SMT
<1> QED BY <1>1, <1>2, <1>3, <1>4, SMT

\* The arithmetic of the four bytes.
LEMMA FourOctets ==
    ASSUME NEW n \in Nat, n <= 2147483647
    PROVE  Octet(n \div 16777216) * 16777216 + Octet(n \div 65536) * 65536
             + Octet(n \div 256) * 256 + Octet(n) = n
<1> DEFINE a == n \div 256
           b == a \div 256
           c == b \div 256
<1>1. n = a * 256 + (n % 256) /\ a \in Nat /\ n % 256 \in Nat
  BY SMT
<1>2. a = b * 256 + (a % 256) /\ b \in Nat /\ a % 256 \in Nat
  <2> HIDE DEF a
  <2> QED BY <1>1, SMT
<1>3. b = c * 256 + (b % 256) /\ c \in Nat /\ b % 256 \in Nat
  <2> HIDE DEF b
  <2> QED BY <1>2, SMT
<1>4. n \div 65536 = b
  BY SMT
<1>5. n \div 16777216 = c
  BY SMT
<1>6. c % 256 = c
  BY SMT
<1> HIDE DEF a, b, c
<1>7. n = c * 16777216 + (b % 256) * 65536 + (a % 256) * 256 + (n % 256)
  BY <1>1, <1>2, <1>3, SMT
<1> QED BY <1>4, <1>5, <1>6, <1>7, SMT DEF Octet, a

\* A head is read back with its argument.
LEMMA HeadReads ==
    ASSUME NEW base \in {0, 32}, NEW n \in Nat, n <= 2147483647, NEW buf, NEW pos,
           StandsAt(buf, pos, Head32(base, n))
    PROVE  DecodeHead(buf, pos, base) = [val |-> n, next |-> pos + Len(Head32(base, n))]
<1> DEFINE h == Head32(base, n)
<1>1. /\ pos \in Nat \ {0} /\ Len(buf) \in Nat
      /\ pos + Len(h) <= Len(buf) + 1
      /\ \A i \in 1 .. Len(h) : buf[pos + i - 1] = h[i]
  BY DEF StandsAt
<1>2. base \in Nat
  OBVIOUS
<1>3. CASE n < 24
  <2>1. h = <<base + n>> /\ Len(h) = 1
    BY <1>3, SMT DEF Head32
  <2>2. buf[pos] = base + n
    BY <1>1, <2>1, SMT
  <2>3. buf[pos] - base = n /\ n \in 0 .. 23
    BY <1>2, <1>3, <2>2, SMT
  <2>4. DecodeHead(buf, pos, base) = [val |-> n, next |-> pos + 1]
    BY <2>3, SMT DEF DecodeHead
  <2> QED BY <2>1, <2>4, SMT
<1>4. CASE n >= 24 /\ n < 256
  <2>1. h = <<base + 24, n>> /\ Len(h) = 2
    BY <1>4, SMT DEF Head32
  <2>2. buf[pos + 1 - 1] = h[1] /\ buf[pos + 2 - 1] = h[2]
    BY <1>1, <2>1, SMT
  <2>3. buf[pos] = base + 24 /\ buf[pos + 1] = n /\ pos + 1 <= Len(buf)
    BY <1>1, <2>1, <2>2, SMT
  <2>4. buf[pos] - base = 24
    BY <1>2, <2>3, SMT
  <2>5. DecodeHead(buf, pos, base) = [val |-> n, next |-> pos + 2]
    BY <2>3, <2>4, SMT DEF DecodeHead
  <2> QED BY <2>1, <2>5, SMT
<1>5. CASE n >= 256 /\ n < 65536
  <2>1. h = <<base + 25, n \div 256, Octet(n)>> /\ Len(h) = 3
    BY <1>5, SMT DEF Head32
  <2>2. buf[pos + 1 - 1] = h[1] /\ buf[pos + 2 - 1] = h[2] /\ buf[pos + 3 - 1] = h[3]
    BY <1>1, <2>1, SMT
  <2>3. /\ buf[pos] = base + 25 /\ pos + 2 <= Len(buf)
        /\ buf[pos + 1] = n \div 256 /\ buf[pos + 2] = Octet(n)
    BY <1>1, <2>1, <2>2, SMT
  <2>4. buf[pos] - base = 25
    BY <1>2, <2>3, SMT
  <2>5. (n \div 256) * 256 + Octet(n) = n
    BY SMT DEF Octet
  <2>6. DecodeHead(buf, pos, base)
          = [val |-> buf[pos + 1] * 256 + buf[pos + 2], next |-> pos + 3]
    BY <1>1, <1>2, <2>3, <2>4, SMTT(40) DEF DecodeHead
  <2> QED BY <2>1, <2>3, <2>5, <2>6, SMT
<1>6. CASE n >= 65536
  <2> DEFINE b1 == Octet(n \div 16777216)
             b2 == Octet(n \div 65536)
             b3 == Octet(n \div 256)
             b4 == Octet(n)
  <2>1. h = <<base + 26, b1, b2, b3, b4>>
    BY <1>6, SMT DEF Head32
  <2>2. b1 * 16777216 + b2 * 65536 + b3 * 256 + b4 = n
    BY FourOctets, SMT
  <2> HIDE DEF b1, b2, b3, b4, h
  <2>3. /\ Len(h) = 5 /\ h[1] = base + 26 /\ h[2] = b1 /\ h[3] = b2 /\ h[4] = b3
        /\ h[5] = b4
    BY <2>1, SMT
  <2>4. /\ buf[pos + 1 - 1] = h[1] /\ buf[pos + 2 - 1] = h[2] /\ buf[pos + 3 - 1] = h[3]
        /\ buf[pos + 4 - 1] = h[4] /\ buf[pos + 5 - 1] = h[5]
    BY <1>1, <2>3, SMT
  <2>5. /\ buf[pos] = base + 26 /\ pos + 4 <= Len(buf)
        /\ buf[pos + 1] = b1 /\ buf[pos + 2] = b2 /\ buf[pos + 3] = b3
        /\ buf[pos + 4] = b4
    <3>1. /\ pos + 1 - 1 = pos /\ pos + 2 - 1 = pos + 1 /\ pos + 3 - 1 = pos + 2
          /\ pos + 4 - 1 = pos + 3 /\ pos + 5 - 1 = pos + 4
      BY <1>1, SMT
    <3>2. pos + 4 <= Len(buf)
      BY <1>1, <2>3, SMT
    <3> QED BY <2>3, <2>4, <3>1, <3>2
  <2>6. buf[pos] - base = 26
    BY <1>2, <2>5, SMT
  <2>7. DecodeHead(buf, pos, base)
          = [val |-> buf[pos + 1] * 16777216 + buf[pos + 2] * 65536
                       + buf[pos + 3] * 256 + buf[pos + 4], next |-> pos + 5]
    BY <2>5, <2>6, SMTT(40) DEF DecodeHead
  <2> QED BY <2>2, <2>3, <2>5, <2>7 DEF h
<1> QED BY <1>3, <1>4, <1>5, <1>6, SMT

------------------------------------------------------------------------------
(* Byte strings and entries. *)

\* A byte string shorter than 256 has a head of one byte or of two.
LEMMA StringBytes ==
    ASSUME NEW data \in Seq(Octets), Len(data) < 256
    PROVE  \E h \in Seq(Octets) :
              /\ ByteString(data) = h \o data
              /\ \/ Len(data) < 24 /\ Len(h) = 1 /\ h[1] = 64 + Len(data)
                 \/ Len(data) >= 24 /\ Len(h) = 2 /\ h[1] = 88 /\ h[2] = Len(data)
<1> DEFINE L == Len(data)
<1>1. L \in Nat /\ L < 256 /\ L \in Octets /\ 88 \in Octets
  BY OctetsAre
<1>2. ByteString(data) = (IF L < 24 THEN <<64 + L>> ELSE <<88, Octet(L)>>) \o data
  BY DEF ByteString
<1> HIDE DEF L
<1>3. CASE L < 24
  <2>1. 64 + L \in Octets
    BY <1>1, <1>3, OctetsAre
  <2>2. <<64 + L>> \in Seq(Octets) /\ Len(<<64 + L>>) = 1 /\ <<64 + L>>[1] = 64 + L
    BY <2>1
  <2>3. ByteString(data) = <<64 + L>> \o data
    BY <1>2, <1>3
  <2> QED BY <1>3, <2>2, <2>3 DEF L
<1>4. CASE L >= 24
  <2>1. Octet(L) = L
    BY <1>1 DEF Octet
  <2>2. ByteString(data) = <<88, L>> \o data
    BY <1>1, <1>2, <1>4, <2>1
  <2>3. <<88, L>> \in Seq(Octets) /\ Len(<<88, L>>) = 2 /\ <<88, L>>[1] = 88
        /\ <<88, L>>[2] = L
    BY <1>1
  <2> QED BY <1>4, <2>2, <2>3 DEF L
<1>5. L < 24 \/ L >= 24
  BY <1>1
<1> QED BY <1>3, <1>4, <1>5

\* Such a byte string is read back, and the position behind it is the next one.
LEMMA StringReads ==
    ASSUME NEW data \in Seq(Octets), Len(data) < 256, NEW buf, NEW pos,
           StandsAt(buf, pos, ByteString(data))
    PROVE  /\ ByteString(data) \in Seq(Octets) /\ Len(ByteString(data)) > 0
           /\ DecodeByteString(buf, pos)
                 = [val |-> data, next |-> pos + Len(ByteString(data))]
<1>1. PICK h \in Seq(Octets) :
              /\ ByteString(data) = h \o data
              /\ \/ Len(data) < 24 /\ Len(h) = 1 /\ h[1] = 64 + Len(data)
                 \/ Len(data) >= 24 /\ Len(h) = 2 /\ h[1] = 88 /\ h[2] = Len(data)
  BY StringBytes
<1>2. StandsAt(buf, pos, h) /\ StandsAt(buf, pos + Len(h), data)
  BY <1>1, StandsSplit
<1>3. /\ buf \in Seq(Octets) /\ Len(buf) \in Nat /\ pos \in Nat \ {0}
      /\ Len(h) \in Nat /\ Len(data) \in Nat
      /\ pos + Len(h) + Len(data) <= Len(buf) + 1
      /\ \A i \in 1 .. Len(h) : buf[pos + i - 1] = h[i]
      /\ \A i \in 1 .. Len(data) : buf[pos + Len(h) + i - 1] = data[i]
  <2>1. /\ buf \in Seq(Octets) /\ Len(buf) \in Nat /\ pos \in Nat \ {0}
        /\ Len(h) \in Nat /\ Len(data) \in Nat
        /\ \A i \in 1 .. Len(h) : buf[pos + i - 1] = h[i]
    BY <1>2 DEF StandsAt
  <2> DEFINE a == pos + Len(h)
  <2>2. StandsAt(buf, a, data)
    BY <1>2
  <2> HIDE DEF a
  <2>3. /\ a + Len(data) <= Len(buf) + 1
        /\ \A i \in 1 .. Len(data) : buf[a + i - 1] = data[i]
    BY <2>2 DEF StandsAt
  <2> QED BY <2>1, <2>3 DEF a
<1>4. Len(ByteString(data)) = Len(h) + Len(data) /\ ByteString(data) \in Seq(Octets)
  BY <1>1, <1>3
<1>5. SubSeq(buf, pos + Len(h), pos + Len(h) + Len(data) - 1) = data
  <2> DEFINE a == pos + Len(h)
             s == SubSeq(buf, a, a + Len(data) - 1)
  <2>1. a \in Nat \ {0} /\ a + Len(data) - 1 <= Len(buf) /\ a + Len(data) - 1 \in Nat
    BY <1>3
  <2> HIDE DEF a
  <2>2. s \in Seq(Octets) /\ Len(s) = Len(data)
        /\ \A i \in 1 .. Len(data) : s[i] = buf[a + i - 1]
    BY <1>3, <2>1
  <2>3. \A i \in 1 .. Len(data) : s[i] = data[i]
    BY <1>3, <2>2 DEF a
  <2> HIDE DEF s
  <2>4. s = data
    BY <2>2, <2>3
  <2> QED BY <2>4 DEF a, s
<1>6. Len(ByteString(data)) > 0
  BY <1>1, <1>3, <1>4
<1>7. CASE Len(data) < 24
  <2>1. Len(h) = 1 /\ h[1] = 64 + Len(data)
    BY <1>1, <1>3, <1>7
  <2>2. buf[pos] - 64 = Len(data) /\ pos <= Len(buf)
    BY <1>3, <2>1
  <2>3. DecodeByteString(buf, pos)
          = [val |-> SubSeq(buf, pos + 1, pos + 1 + Len(data) - 1),
             next |-> pos + 1 + Len(data)]
    BY <1>7, <2>2 DEF DecodeByteString
  <2>4. pos + Len(ByteString(data)) = pos + 1 + Len(data)
    BY <1>3, <1>4, <2>1
  <2>5. DecodeByteString(buf, pos) = [val |-> data, next |-> pos + Len(ByteString(data))]
    BY <1>5, <2>1, <2>3, <2>4
  <2> QED BY <1>4, <1>6, <2>5
<1>8. CASE Len(data) >= 24
  <2>1. Len(h) = 2 /\ h[1] = 88 /\ h[2] = Len(data)
    BY <1>1, <1>3, <1>8
  <2>2. buf[pos + 1 - 1] = h[1] /\ buf[pos + 2 - 1] = h[2]
    BY <1>3, <2>1
  <2>3. buf[pos] - 64 = 24 /\ pos + 1 <= Len(buf) /\ buf[pos + 1] = Len(data)
    BY <1>3, <2>1, <2>2
  <2>4. DecodeByteString(buf, pos)
          = [val |-> SubSeq(buf, pos + 2, pos + 2 + Len(data) - 1),
             next |-> pos + 2 + Len(data)]
    BY <2>3 DEF DecodeByteString
  <2>5. pos + Len(ByteString(data)) = pos + 2 + Len(data)
    BY <1>3, <1>4, <2>1
  <2>6. DecodeByteString(buf, pos) = [val |-> data, next |-> pos + Len(ByteString(data))]
    BY <1>5, <2>1, <2>4, <2>5
  <2> QED BY <1>4, <1>6, <2>6
<1> QED BY <1>3, <1>7, <1>8

\* What garry_encode_kv wrote is what garry_decode_kv reads.
LEMMA KvReads ==
    ASSUME NEW key \in Seq(Octets), Len(key) < 256,
           NEW value \in Seq(Octets), Len(value) < 256
    PROVE  /\ EncodeKv(key, value) \in Seq(Octets)
           /\ EncodeKv(key, value) # <<>>
           /\ DecodeKv(EncodeKv(key, value)) = [ok |-> TRUE, key |-> key, value |-> value]
<1> DEFINE ks == ByteString(key)
           vs == ByteString(value)
           buf == EncodeKv(key, value)
<1>1. ks \in Seq(Octets) /\ vs \in Seq(Octets)
  <2>1. PICK h \in Seq(Octets) : ks = h \o key
    BY StringBytes
  <2>2. PICK g \in Seq(Octets) : vs = g \o value
    BY StringBytes
  <2> HIDE DEF ks, vs
  <2> QED BY <2>1, <2>2
<1>2. buf = (<<130>> \o ks) \o vs
  BY DEF EncodeKv, ArrayHeader
<1> HIDE DEF ks, vs, buf
<1>3. <<130>> \in Seq(Octets) /\ Len(<<130>>) = 1
  <2>1. 130 \in Octets
    BY OctetsAre
  <2> QED BY <2>1
<1>4. buf \in Seq(Octets) /\ buf # <<>> /\ buf[1] = 130
  BY <1>1, <1>2, <1>3
<1>5. StandsAt(buf, 1, (<<130>> \o ks) \o vs)
  BY <1>2, <1>4, StandsWhole
<1>6. (<<130>> \o ks) \in Seq(Octets) /\ Len(<<130>> \o ks) = 1 + Len(ks)
  BY <1>1, <1>3
<1>7. StandsAt(buf, 1, <<130>> \o ks) /\ StandsAt(buf, 1 + Len(<<130>> \o ks), vs)
  BY <1>1, <1>5, <1>6, StandsSplit
<1>8. StandsAt(buf, 1 + 1, ks)
  <2> DEFINE one == <<130>>
  <2>1. one \in Seq(Octets) /\ Len(one) = 1 /\ StandsAt(buf, 1, one \o ks)
    BY <1>3, <1>7
  <2> HIDE DEF one
  <2> QED BY <1>1, <2>1, StandsSplit
<1>9. StandsAt(buf, 2, ks) /\ StandsAt(buf, 2 + Len(ks), vs)
  <2>1. 1 + Len(<<130>> \o ks) = 2 + Len(ks) /\ 1 + 1 = 2
    BY <1>1, <1>6
  <2> QED BY <1>7, <1>8, <2>1
<1>10. DecodeByteString(buf, 2) = [val |-> key, next |-> 2 + Len(ks)]
  BY <1>9, StringReads DEF ks
<1>11. DecodeByteString(buf, 2 + Len(ks))
         = [val |-> value, next |-> 2 + Len(ks) + Len(vs)]
  BY <1>9, StringReads DEF vs
<1>12. ArrayHeaderSize(buf, 1) = 1 /\ DecodeArrayHeader(buf, 1) = 2
  BY <1>4 DEF ArrayHeaderSize, DecodeArrayHeader
<1>13. DecodeKv(buf) = [ok |-> TRUE, key |-> key, value |-> value]
  <2>1. 1 + ArrayHeaderSize(buf, 1) = 2
    BY <1>12
  <2>2. 2 + Len(ks) # 0 /\ 2 + Len(ks) + Len(vs) # 0
    BY <1>1
  <2> DEFINE m == 2 + Len(ks)
             e == m + Len(vs)
  <2>3. DecodeByteString(buf, 2) = [val |-> key, next |-> m]
        /\ DecodeByteString(buf, m) = [val |-> value, next |-> e] /\ m # 0 /\ e # 0
    BY <1>10, <1>11, <2>2
  <2> HIDE DEF m, e
  <2>4. DecodeByteString(buf, 2).next = m /\ DecodeByteString(buf, 2).val = key
        /\ DecodeByteString(buf, m).next = e /\ DecodeByteString(buf, m).val = value
    BY <2>3
  <2> QED BY <1>4, <1>12, <2>1, <2>3, <2>4 DEF DecodeKv
<1> QED BY <1>4, <1>13 DEF buf

\* The integers of 32 bits.
Int32(n) == n \in Int /\ n <= 2147483647 /\ -2147483647 - 1 <= n

\* The integer of a descriptor.
CidBytes(cid) == IF cid >= 0 THEN EncodeUint(cid) ELSE EncodeNegint(-1 - cid)

\* A chain id, negative or not, is read back.
LEMMA CidReads ==
    ASSUME NEW cid, Int32(cid), NEW buf, NEW pos,
           StandsAt(buf, pos, CidBytes(cid))
    PROVE  /\ buf[pos] < 64
           /\ (IF buf[pos] < 32 THEN DecodeUint(buf, pos) ELSE DecodeNegint(buf, pos))
                = [val |-> cid, next |-> pos + Len(CidBytes(cid))]
<1> DEFINE h == CidBytes(cid)
<1>1. CASE cid >= 0
  <2>1. h = Head32(0, cid) /\ cid \in Nat /\ cid <= 2147483647
    BY <1>1, SMT DEF CidBytes, EncodeUint, Int32
  <2>2. Len(h) \in Nat /\ Len(h) >= 1 /\ h[1] \in Nat /\ h[1] <= 26
    <3>1. PICK n \in Nat : n = cid
      BY <2>1
    <3>2. h = Head32(0, n) /\ n <= 2147483647
      BY <2>1, <3>1, SMT
    <3>3. HeadShape(h, 0, n)
      BY <3>2, HeadBytes, SMT
    <3> QED BY <3>3, SMT DEF HeadShape
  <2>3. DecodeHead(buf, pos, 0) = [val |-> cid, next |-> pos + Len(h)]
    BY <2>1, HeadReads, SMT
  <2> HIDE DEF h
  <2>4. pos \in Nat /\ buf[pos + 1 - 1] = h[1]
    BY <2>2, SMT DEF StandsAt, h
  <2>5. buf[pos] < 32 /\ buf[pos] < 64
    BY <2>2, <2>4, SMT
  <2> QED BY <2>3, <2>5 DEF DecodeUint, h
<1>2. CASE cid < 0
  <2> DEFINE n == -1 - cid
  <2>1. h = Head32(32, n) /\ n \in Nat /\ n <= 2147483647 /\ cid = -1 - n
    BY <1>2, SMT DEF CidBytes, EncodeNegint, Int32
  <2> HIDE DEF n
  <2>2. Len(h) \in Nat /\ Len(h) >= 1 /\ h[1] \in Nat /\ h[1] >= 32 /\ h[1] <= 58
    <3>1. HeadShape(h, 32, n)
      BY <2>1, HeadBytes, SMT
    <3> QED BY <3>1, SMT DEF HeadShape
  <2>3. DecodeHead(buf, pos, 32) = [val |-> n, next |-> pos + Len(h)]
    BY <2>1, HeadReads, SMT
  <2> HIDE DEF h
  <2>4. pos \in Nat \ {0} /\ buf[pos + 1 - 1] = h[1]
    BY <2>2, SMT DEF StandsAt, h
  <2>5. buf[pos] < 64 /\ ~ (buf[pos] < 32)
    BY <2>2, <2>4, SMT
  <2>6. pos + Len(h) # 0
    BY <2>2, <2>4, SMT
  <2>7. DecodeNegint(buf, pos) = [val |-> -1 - n, next |-> pos + Len(h)]
    BY <2>3, <2>6, SMT DEF DecodeNegint
  <2> QED BY <2>1, <2>5, <2>7 DEF h
<1> QED BY <1>1, <1>2, SMT DEF Int32

\* The bytes of a chain id: at least one, at most five.
LEMMA CidHead ==
    ASSUME NEW cid, Int32(cid)
    PROVE  CidBytes(cid) \in Seq(Octets) /\ Len(CidBytes(cid)) \in Nat
           /\ Len(CidBytes(cid)) >= 1 /\ Len(CidBytes(cid)) <= 5
<1>1. \E base \in {0, 32}, n \in Nat : n <= 2147483647 /\ CidBytes(cid) = Head32(base, n)
  <2>1. CASE cid >= 0
    BY <2>1, SMT DEF CidBytes, EncodeUint, Int32
  <2>2. CASE cid < 0
    BY <2>2, SMT DEF CidBytes, EncodeNegint, Int32
  <2> QED BY <2>1, <2>2, SMT DEF Int32
<1>2. PICK base \in {0, 32}, n \in Nat : n <= 2147483647 /\ CidBytes(cid) = Head32(base, n)
  BY <1>1
<1>3. HeadShape(CidBytes(cid), base, n)
  BY <1>2, HeadBytes, SMT
<1> QED BY <1>3, SMT DEF HeadShape

\* The chain id and the flag that garry_encode_descriptor wrote are what
\* garry_decode_descriptor reads, over the whole range of 32-bit chain ids.
LEMMA DescriptorReads ==
    ASSUME NEW cid, Int32(cid), NEW kids \in BOOLEAN
    PROVE  /\ EncodeDescriptor(cid, kids) \in Seq(Octets)
           /\ Len(EncodeDescriptor(cid, kids)) < 24
           /\ DecodeDescriptor(EncodeDescriptor(cid, kids)) = [cid |-> cid, kids |-> kids]
<1> DEFINE flag == IF kids THEN 245 ELSE 244
           a == <<162, 99, 99, 105, 100>>
           h == CidBytes(cid)
           z == <<98, 104, 99, flag>>
           buf == EncodeDescriptor(cid, kids)
<1>1. buf = (a \o h) \o z
  BY DEF EncodeDescriptor, CidBytes
<1>2. flag \in Octets /\ (flag = 245 <=> kids)
  BY OctetsAre
<1>3. a \in Seq(Octets) /\ Len(a) = 5 /\ a[1] = 162 /\ a[2] = 99
  <2>1. 162 \in Octets /\ 99 \in Octets /\ 105 \in Octets /\ 100 \in Octets
    BY OctetsAre
  <2> QED BY <2>1
<1>4. h \in Seq(Octets) /\ Len(h) \in Nat /\ Len(h) >= 1 /\ Len(h) <= 5
  BY CidHead
<1> HIDE DEF flag
<1>5. z \in Seq(Octets) /\ Len(z) = 4 /\ z[1] = 98 /\ z[4] = flag
  <2>1. 98 \in Octets /\ 104 \in Octets /\ 99 \in Octets
    BY OctetsAre
  <2> QED BY <1>2, <2>1
<1> HIDE DEF a, h, z, buf
<1>6. a \in Seq(Octets) /\ Len(a) = 5 /\ h \in Seq(Octets) /\ z \in Seq(Octets)
       /\ Len(z) = 4
  BY <1>3, <1>4, <1>5
<1>7. (a \o h) \in Seq(Octets) /\ Len(a \o h) = 5 + Len(h) /\ Len(h) \in Nat
  BY <1>6, Joined
<1>8. buf \in Seq(Octets) /\ Len(buf) = 9 + Len(h) /\ Len(buf) \in Nat
  <2> DEFINE c == a \o h
  <2>1. c \in Seq(Octets) /\ Len(c) = 5 + Len(h) /\ buf = c \o z
    BY <1>1, <1>7
  <2> HIDE DEF c
  <2>2. (c \o z) \in Seq(Octets) /\ Len(c \o z) = Len(c) + Len(z)
    BY <1>6, <2>1, Joined
  <2>3. Len(c) + Len(z) = 9 + Len(h) /\ 9 + Len(h) \in Nat
    BY <1>7, <1>6, <2>1
  <2> QED BY <2>1, <2>2, <2>3
<1>9. StandsAt(buf, 1, (a \o h) \o z)
  BY <1>1, <1>8, StandsWhole
<1>10. StandsAt(buf, 1, a \o h) /\ StandsAt(buf, 1 + Len(a \o h), z)
  BY <1>5, <1>7, <1>9, StandsSplit
<1>11. StandsAt(buf, 1, a) /\ StandsAt(buf, 1 + Len(a), h)
  BY <1>6, <1>10, StandsSplit
<1> DEFINE m == 6 + Len(h)
<1>12. StandsAt(buf, 6, h) /\ StandsAt(buf, m, z) /\ m \in Nat /\ m > 6
  <2>1. 1 + Len(a) = 6 /\ 1 + Len(a \o h) = m /\ m \in Nat /\ m > 6
    BY <1>3, <1>4, <1>7
  <2> QED BY <1>10, <1>11, <2>1
<1>13. Len(buf) = m + 3 /\ ~ (Len(buf) < 2) /\ 6 <= Len(buf)
  BY <1>4, <1>8
<1>14. buf[6] < 64 /\ (IF buf[6] < 32 THEN DecodeUint(buf, 6) ELSE DecodeNegint(buf, 6))
                          = [val |-> cid, next |-> m]
  BY <1>12, CidReads DEF h
<1> HIDE DEF m
<1>15. buf[1] = 162 /\ buf[2] = 99
  <2>1. buf[1 + 1 - 1] = a[1] /\ buf[1 + 2 - 1] = a[2]
    BY <1>3, <1>11 DEF StandsAt
  <2> QED BY <1>3, <2>1
<1>16. buf[m] = 98 /\ buf[m + 3] = flag
  <2>1. buf[m + 1 - 1] = z[1] /\ buf[m + 4 - 1] = z[4]
    BY <1>5, <1>12 DEF StandsAt
  <2>2. m + 1 - 1 = m /\ m + 4 - 1 = m + 3
    BY <1>12
  <2> QED BY <1>5, <2>1, <2>2
<1>17. DecodeDescriptor(buf) = [cid |-> cid, kids |-> kids]
  <2> DEFINE AfterText(pos) == pos + 1 + (buf[pos] - 96)
             int == IF buf[6] < 32 THEN DecodeUint(buf, 6) ELSE DecodeNegint(buf, 6)
  <2>1. AfterText(2) = 6
    BY <1>15
  <2>2. AfterText(m) = m + 3
    BY <1>12, <1>16
  <2>3. int.val = cid /\ int.next = m /\ m > 6
    BY <1>12, <1>14
  <2>4. buf[1] \in 160 .. 191
    BY <1>15
  <2>5. ~ (Len(buf) < 2 \/ buf[1] \notin 160 .. 191 \/ 6 > Len(buf) \/ buf[6] >= 64)
    <3>1. buf[6] \in Nat
      <4>1. 6 \in 1 .. Len(buf)
        BY <1>8, <1>13
      <4> QED BY <1>8, <4>1, OctetsAre
    <3> QED BY <1>8, <1>13, <1>14, <2>4, <3>1
  <2>6. DecodeDescriptor(buf)
          = LET ip == AfterText(2)
                d == IF buf[ip] < 32 THEN DecodeUint(buf, ip) ELSE DecodeNegint(buf, ip)
                q == AfterText(IF d.next > ip THEN d.next ELSE ip)
            IN  IF Len(buf) < 2 \/ buf[1] \notin 160 .. 191 \/ ip > Len(buf) \/ buf[ip] >= 64
                THEN [cid |-> 0, kids |-> FALSE]
                ELSE [cid |-> d.val, kids |-> q <= Len(buf) /\ buf[q] = 245]
    BY Zenon DEF DecodeDescriptor
  <2>7. (IF int.next > 6 THEN int.next ELSE 6) = m
    BY <2>3
  <2> HIDE DEF int
  <2>8. DecodeDescriptor(buf)
          = [cid |-> int.val, kids |-> AfterText(m) <= Len(buf) /\ buf[AfterText(m)] = 245]
    BY <2>1, <2>5, <2>6, <2>7 DEF int
  <2>9. (AfterText(m) <= Len(buf) /\ buf[AfterText(m)] = 245) = kids
    <3>1. AfterText(m) <= Len(buf)
      BY <1>8, <1>13, <2>2
    <3>2. buf[AfterText(m)] = flag
      BY <1>16, <2>2
    <3> QED BY <1>2, <3>1, <3>2
  <2> QED BY <2>3, <2>8, <2>9
<1>18. Len(buf) < 24
  BY <1>4, <1>8
<1> QED BY <1>8, <1>17, <1>18 DEF buf

------------------------------------------------------------------------------
(* Induction and recursion over the naturals, with sets and functions for
   predicates and operators. *)

\* Induction over the naturals for a set of numbers.
LEMMA NatSetInduction ==
  ASSUME NEW T, 0 \in T, \A n \in Nat : n \in T => n + 1 \in T
  PROVE  Nat \subseteq T
<1> DEFINE B == Nat \ T
<1> SUFFICES ASSUME B # {} PROVE FALSE
  OBVIOUS
<1>1. B \in SUBSET Nat
  OBVIOUS
<1>2. PICK x \in B : \A y \in B : ~ (<<y, x>> \in OpToRel(<, Nat))
  BY <1>1, NatLessThanWellFounded, WFMin
<1>3. x \in Nat /\ x # 0 /\ x - 1 \in Nat
  OBVIOUS
<1>4. \A y \in B : ~ (y < x)
  BY <1>2 DEF OpToRel
<1>5. x - 1 \in T
  BY <1>3, <1>4
<1> QED
  BY <1>3, <1>5

\* g is defined by recursion: it starts with c and applies one step after the
\* other.
StepsOn(N, X) == [1 .. N -> [X -> X]]

Recursion(g, N, X, c, step) ==
  /\ g \in [0 .. N -> X]
  /\ g[0] = c
  /\ \A n \in 1 .. N : g[n] = step[n][g[n - 1]]

\* A function over 0 .. N that is defined by recursion exists.
LEMMA RecursionExists ==
  ASSUME NEW N \in Nat, NEW X, NEW c \in X, NEW step \in StepsOn(N, X)
  PROVE  \E g : Recursion(g, N, X, c, step)
<1> USE DEF StepsOn
<1> DEFINE Sol(m, g) == /\ g \in [0 .. m -> X]
                        /\ g[0] = c
                        /\ \A n \in 1 .. m : g[n] = step[n][g[n - 1]]
           T == {m \in Nat : m <= N => \E g : Sol(m, g)}
<1>1. 0 \in T
  <2>1. Sol(0, [n \in 0 .. 0 |-> c])
    OBVIOUS
  <2> QED BY <2>1
<1>2. ASSUME NEW m \in Nat, m \in T PROVE m + 1 \in T
  <2> SUFFICES ASSUME m + 1 <= N PROVE \E g : Sol(m + 1, g)
    OBVIOUS
  <2>1. PICK g : Sol(m, g)
    BY <1>2
  <2> DEFINE h == [n \in 0 .. m + 1 |-> IF n <= m THEN g[n] ELSE step[m + 1][g[m]]]
  <2>2. step[m + 1][g[m]] \in X
    BY <2>1
  <2>3. h \in [0 .. m + 1 -> X] /\ h[0] = c
    BY <2>1, <2>2
  <2>4. ASSUME NEW n \in 1 .. m + 1 PROVE h[n] = step[n][h[n - 1]]
    <3>1. CASE n = m + 1
      BY <3>1
    <3>2. CASE n \in 1 .. m
      <4>1. h[n] = g[n] /\ h[n - 1] = g[n - 1]
        BY <3>2
      <4> QED BY <2>1, <3>2, <4>1
    <3> QED BY <3>1, <3>2
  <2> QED
    BY <2>3, <2>4
<1>3. N \in T
  BY <1>1, <1>2, NatSetInduction
<1> QED
  BY <1>3 DEF Recursion

------------------------------------------------------------------------------
(* Metadata. *)

\* The members of an interval.
LEMMA Between ==
    ASSUME NEW a \in Int, NEW b \in Int, NEW x \in a .. b
    PROVE  x \in Int /\ a <= x /\ x <= b
OBVIOUS

\* The bias makes a page id, -1 included, a number that is written in four bytes.
LEMMA IdBiased ==
    ASSUME NEW id \in PageIds
    PROVE  /\ id \in Int /\ id + PageIdBias \in Nat
           /\ id + PageIdBias <= 2147483647 /\ id + PageIdBias >= 65536
<1> DEFINE top == MaxInt32 - PageIdBias
<1>1. top \in Int /\ -1 \in Int /\ top + PageIdBias <= 2147483647 /\ PageIdBias \in Int
      /\ -1 + PageIdBias >= 65536
  BY SMT DEF PageIdBias, MaxInt32
<1>2. id \in -1 .. top
  BY Zenon DEF PageIds
<1> HIDE DEF top
<1>3. id \in Int /\ -1 <= id /\ id <= top
  BY <1>1, <1>2, Between, SMT
<1> QED BY <1>1, <1>3, SMT

\* So every page id takes five bytes.
LEMMA IdEncodes ==
    ASSUME NEW id \in PageIds
    PROVE  EncodeUint(id + PageIdBias) \in Seq(Octets) /\ Len(EncodeUint(id + PageIdBias)) = 5
<1> DEFINE n == id + PageIdBias
<1>1. n \in Nat /\ n <= 2147483647 /\ n >= 65536
  BY IdBiased, SMT
<1> HIDE DEF n
<1>2. HeadShape(Head32(0, n), 0, n)
  BY <1>1, HeadBytes, SMT
<1> QED BY <1>1, <1>2, SMT DEF HeadShape, EncodeUint, n

\* w is b[1] \o ... \o b[k], in blocks of five bytes.
Blocks(w, b, k) ==
    /\ w \in Seq(Octets)
    /\ Len(w) = 5 * k
    /\ \A j \in 1 .. k : \A i \in 1 .. 5 : w[5 * (j - 1) + i] = b[j][i]

\* One more block of five bytes.
LEMMA BlockAdded ==
    ASSUME NEW k \in Nat, NEW b, NEW w, Blocks(w, b, k),
           b[k + 1] \in Seq(Octets), Len(b[k + 1]) = 5
    PROVE  Blocks(w \o b[k + 1], b, k + 1)
<1> DEFINE x == b[k + 1]
           y == w \o x
<1>1. w \in Seq(Octets) /\ x \in Seq(Octets) /\ Len(w) = 5 * k /\ Len(x) = 5
  BY DEF Blocks
<1> HIDE DEF x
<1>2. y \in Seq(Octets) /\ Len(y) = 5 * (k + 1)
  <2>1. y \in Seq(Octets) /\ Len(y) = Len(w) + Len(x)
    BY <1>1, Joined
  <2> QED BY <1>1, <2>1
<1>3. ASSUME NEW j \in 1 .. k + 1, NEW i \in 1 .. 5
      PROVE  y[5 * (j - 1) + i] = b[j][i]
  <2>1. i \in Nat /\ i >= 1 /\ i <= 5 /\ j \in Nat /\ j >= 1 /\ j <= k + 1
    OBVIOUS
  <2>2. CASE j <= k
    <3>1. 5 * (j - 1) + i \in 1 .. Len(w) /\ j \in 1 .. k
      BY <1>1, <2>1, <2>2
    <3>2. y[5 * (j - 1) + i] = w[5 * (j - 1) + i]
      BY <1>1, <3>1
    <3> QED BY <3>1, <3>2 DEF Blocks
  <2>3. CASE j = k + 1
    <3>1. 5 * (j - 1) + i = Len(w) + i /\ i \in 1 .. Len(x)
      BY <1>1, <2>1, <2>3
    <3>2. y[Len(w) + i] = x[i]
      <4>1. w \in Seq(Octets) /\ x \in Seq(Octets) /\ i \in 1 .. Len(x)
        BY <1>1, <3>1
      <4> QED BY <4>1, JoinedAt
    <3> QED BY <2>3, <3>1, <3>2 DEF x
  <2>4. j <= k \/ j = k + 1
    BY <2>1
  <2> QED BY <2>2, <2>3, <2>4
<1> QED BY <1>2, <1>3 DEF Blocks, x

\* The page ids of the metadata are blocks of five bytes.
LEMMA IdsWritten ==
    ASSUME NEW ids \in Seq(PageIds), NEW b,
           b = [k \in 1 .. Len(ids) |-> EncodeUint(ids[k] + PageIdBias)]
    PROVE  Blocks(WrittenIds(ids), b, Len(ids))
<1> DEFINE N == Len(ids)
           Eq(g) == g = [k \in 0 .. N |->
                            IF k = 0 THEN <<>>
                            ELSE g[k - 1] \o EncodeUint(ids[k] + PageIdBias)]
           w == CHOOSE g : Eq(g)
           step == [k \in 1 .. N |-> [x \in Seq(Octets) |-> x \o b[k]]]
<1>1. N \in Nat
  OBVIOUS
<1>2. ASSUME NEW k \in 1 .. N
      PROVE  /\ b[k] \in Seq(Octets) /\ Len(b[k]) = 5
             /\ b[k] = EncodeUint(ids[k] + PageIdBias)
  BY IdEncodes
<1>3. step \in StepsOn(N, Seq(Octets))
  <2>1. ASSUME NEW k \in 1 .. N PROVE [x \in Seq(Octets) |-> x \o b[k]] \in [Seq(Octets) -> Seq(Octets)]
    BY <1>2
  <2> QED BY <2>1 DEF StepsOn
<1>4. <<>> \in Seq(Octets)
  OBVIOUS
<1> HIDE DEF N
<1>5. \E g : Recursion(g, N, Seq(Octets), <<>>, step)
  <2> HIDE DEF step
  <2> QED BY <1>1, <1>3, <1>4, RecursionExists
<1>6. PICK g : Recursion(g, N, Seq(Octets), <<>>, step)
  BY <1>5
<1>7. ASSUME NEW k \in 1 .. N PROVE g[k] = g[k - 1] \o b[k]
  <2>1. g[k] = step[k][g[k - 1]] /\ g[k - 1] \in Seq(Octets)
    <3> HIDE DEF step
    <3>1. k - 1 \in 0 .. N
      BY <1>1
    <3> QED BY <1>6, <3>1 DEF Recursion
  <2> QED BY <2>1
<1>8. Eq(g)
  <2>1. g \in [0 .. N -> Seq(Octets)] /\ g[0] = <<>>
    BY <1>6 DEF Recursion
  <2>2. ASSUME NEW k \in 0 .. N
        PROVE  g[k] = IF k = 0 THEN <<>> ELSE g[k - 1] \o EncodeUint(ids[k] + PageIdBias)
    <3>1. CASE k = 0
      BY <2>1, <3>1
    <3>2. CASE k # 0
      <4>1. k \in 1 .. N
        BY <1>1, <3>2
      <4> QED BY <1>2, <1>7, <3>2, <4>1
    <3> QED BY <3>1, <3>2
  <2> QED BY <2>1, <2>2
<1>9. Eq(w)
  BY <1>8
<1>10. WrittenIds(ids) = w[N]
  BY DEF WrittenIds, N
<1> HIDE DEF w
<1>11. w[0] = <<>> /\ \A k \in 1 .. N : w[k] = w[k - 1] \o b[k]
  <2>1. w[0] = <<>>
    BY <1>1, <1>9
  <2>2. ASSUME NEW k \in 1 .. N PROVE w[k] = w[k - 1] \o b[k]
    <3>1. k \in 0 .. N /\ k # 0
      BY <1>1
    <3> QED BY <1>2, <1>9, <3>1
  <2> QED BY <2>1, <2>2
<1> DEFINE T == {k \in Nat : k <= N => Blocks(w[k], b, k)}
<1>12. 0 \in T
  <2>1. Blocks(<<>>, b, 0)
    BY DEF Blocks
  <2> QED BY <1>11, <2>1
<1>13. ASSUME NEW k \in Nat, k \in T PROVE k + 1 \in T
  <2> SUFFICES ASSUME k + 1 <= N PROVE Blocks(w[k + 1], b, k + 1)
    OBVIOUS
  <2>1. k + 1 \in 1 .. N /\ (k + 1) - 1 = k /\ k <= N
    BY <1>1
  <2>2. Blocks(w[k], b, k)
    BY <1>13, <2>1
  <2>3. w[k + 1] = w[k] \o b[k + 1]
    BY <1>11, <2>1
  <2>4. b[k + 1] \in Seq(Octets) /\ Len(b[k + 1]) = 5
    BY <1>2, <2>1
  <2>5. Blocks(w[k] \o b[k + 1], b, k + 1)
    BY <2>2, <2>4, BlockAdded
  <2> QED BY <2>3, <2>5
<1>14. N \in T
  <2> HIDE DEF T
  <2> QED BY <1>1, <1>12, <1>13, NatSetInduction
<1> QED BY <1>10, <1>14 DEF N

\* One id of the metadata.
LEMMA IdReads ==
    ASSUME NEW ids \in Seq(PageIds), NEW buf, NEW pos, StandsAt(buf, pos, WrittenIds(ids)),
           NEW k \in 1 .. Len(ids)
    PROVE  DecodeUint(buf, pos + 5 * (k - 1))
             = [val |-> ids[k] + PageIdBias, next |-> pos + 5 * k]
<1> DEFINE N == Len(ids)
           b == [i \in 1 .. N |-> EncodeUint(ids[i] + PageIdBias)]
           w == WrittenIds(ids)
           q == pos + 5 * (k - 1)
           n == ids[k] + PageIdBias
<1>1. Blocks(w, b, N)
  BY IdsWritten
<1>2. N \in Nat /\ k \in Nat /\ k >= 1 /\ k <= N /\ ids[k] \in PageIds
  OBVIOUS
<1>3. b[k] = EncodeUint(n)
  OBVIOUS
<1>4. n \in Nat /\ n <= 2147483647
  BY <1>2, IdBiased, SMT
<1>5. EncodeUint(n) \in Seq(Octets) /\ Len(EncodeUint(n)) = 5
  BY <1>2, IdEncodes
<1> HIDE DEF n, b, w, N
<1>6. /\ buf \in Seq(Octets) /\ Len(buf) \in Nat /\ pos \in Nat \ {0} /\ Len(w) = 5 * N
      /\ pos + Len(w) <= Len(buf) + 1
      /\ \A i \in 1 .. Len(w) : buf[pos + i - 1] = w[i]
  BY <1>1 DEF Blocks, StandsAt, w
<1>7. q \in Nat \ {0} /\ q + 5 <= Len(buf) + 1
  BY <1>2, <1>6
<1>8. ASSUME NEW i \in 1 .. 5 PROVE buf[q + i - 1] = EncodeUint(n)[i]
  <2>1. w[5 * (k - 1) + i] = b[k][i]
    <3>1. k \in 1 .. N
      BY <1>2
    <3>2. \A jj \in 1 .. N : \A ii \in 1 .. 5 : w[5 * (jj - 1) + ii] = b[jj][ii]
      BY <1>1 DEF Blocks
    <3> QED BY <3>1, <3>2
  <2>2. i \in Nat /\ i >= 1 /\ i <= 5
    OBVIOUS
  <2>3. 5 * (k - 1) + i \in 1 .. Len(w) /\ pos + (5 * (k - 1) + i) - 1 = q + i - 1
    BY <1>2, <1>6, <2>2
  <2>4. buf[pos + (5 * (k - 1) + i) - 1] = w[5 * (k - 1) + i]
    BY <1>6, <2>3
  <2> QED BY <1>3, <2>1, <2>3, <2>4
<1> HIDE DEF q
<1>9. StandsAt(buf, q, EncodeUint(n))
  BY <1>5, <1>6, <1>7, <1>8 DEF StandsAt
<1>10. DecodeHead(buf, q, 0) = [val |-> n, next |-> q + Len(Head32(0, n))]
  <2>1. StandsAt(buf, q, Head32(0, n))
    BY <1>9 DEF EncodeUint
  <2> QED BY <1>4, <2>1, HeadReads, SMT
<1>11. q + Len(Head32(0, n)) = pos + 5 * k
  <2>1. Len(Head32(0, n)) = 5
    BY <1>5 DEF EncodeUint
  <2>2. (pos + 5 * (k - 1)) + 5 = pos + 5 * k
    BY <1>2, <1>6
  <2> QED BY <2>1, <2>2 DEF q
<1> QED BY <1>10, <1>11 DEF DecodeUint, q, n

\* And reading as many as were written gives them back.
LEMMA IdsRead ==
    ASSUME NEW ids \in Seq(PageIds), NEW buf, NEW pos, StandsAt(buf, pos, WrittenIds(ids))
    PROVE  ReadIds(buf, pos, Len(ids)) = ids
<1> DEFINE N == Len(ids)
           Eq(g) == g = [k \in 0 .. N |->
                IF k = 0 THEN [ids |-> <<>>, next |-> pos] ELSE ReadId(buf, g[k - 1])]
           f == CHOOSE g : Eq(g)
           part(k) == [j \in 1 .. k |-> ids[j]]
           g == [k \in 0 .. N |-> [ids |-> part(k), next |-> pos + 5 * k]]
<1>1. N \in Nat /\ pos \in Nat
  BY DEF StandsAt
<1>2. ReadIds(buf, pos, N) = f[N].ids
  BY DEF ReadIds
<1>3. ASSUME NEW k \in 1 .. N
      PROVE  /\ DecodeUint(buf, pos + 5 * (k - 1))
                   = [val |-> ids[k] + PageIdBias, next |-> pos + 5 * k]
             /\ Append(part(k - 1), (ids[k] + PageIdBias) - PageIdBias) = part(k)
  <2>1. ids[k] \in PageIds /\ ids[k] \in Int
    BY IdBiased
  <2>2. (ids[k] + PageIdBias) - PageIdBias = ids[k]
    BY <2>1 DEF PageIdBias
  <2>3. Append(part(k - 1), ids[k]) = part(k)
    OBVIOUS
  <2>4. DecodeUint(buf, pos + 5 * (k - 1))
          = [val |-> ids[k] + PageIdBias, next |-> pos + 5 * k]
    BY IdReads
  <2> QED BY <2>2, <2>3, <2>4
<1>4. part(0) = <<>> /\ part(N) = ids
  OBVIOUS
<1> HIDE DEF N, part
<1>5. ASSUME NEW k \in 1 .. N
      PROVE  ReadId(buf, g[k - 1]) = g[k]
  <2>1. k \in 0 .. N /\ k - 1 \in 0 .. N
    BY <1>1
  <2>2. /\ g[k - 1].ids = part(k - 1) /\ g[k - 1].next = pos + 5 * (k - 1)
        /\ g[k] = [ids |-> part(k), next |-> pos + 5 * k]
    BY <2>1
  <2> HIDE DEF g
  <2>3. ReadId(buf, g[k - 1])
          = [ids |-> Append(part(k - 1), (ids[k] + PageIdBias) - PageIdBias),
             next |-> pos + 5 * k]
    <3> DEFINE done == g[k - 1]
               d == DecodeUint(buf, pos + 5 * (k - 1))
    <3>1. d.val = ids[k] + PageIdBias /\ d.next = pos + 5 * k
      <4>1. d = [val |-> ids[k] + PageIdBias, next |-> pos + 5 * k]
        BY <1>3
      <4> HIDE DEF d
      <4> QED BY <4>1
    <3>2. done.ids = part(k - 1) /\ done.next = pos + 5 * (k - 1)
      BY <2>2
    <3> HIDE DEF done, d
    <3>3. ReadId(buf, done) = [ids |-> Append(done.ids, d.val - PageIdBias), next |-> d.next]
      <4>1. DecodeUint(buf, done.next) = d
        BY <3>2 DEF d
      <4> QED BY <4>1, Zenon DEF ReadId
    <3> QED BY <3>1, <3>2, <3>3 DEF done
  <2> QED BY <1>3, <2>2, <2>3
<1>6. g[0] = [ids |-> <<>>, next |-> pos]
  BY <1>1, <1>4
<1>7. Eq(g)
  <2>1. g = [k \in 0 .. N |-> g[k]]
    OBVIOUS
  <2> HIDE DEF g
  <2>2. ASSUME NEW k \in 0 .. N, k # 0 PROVE k \in 1 .. N
    BY <1>1, <2>2
  <2> QED BY <1>5, <1>6, <2>1, <2>2
<1>8. Eq(f)
  <2> HIDE DEF g
  <2> QED BY <1>7
<1> HIDE DEF f, g
<1> DEFINE T == {k \in Nat : k <= N => f[k] = g[k]}
<1>9. 0 \in T
  BY <1>1, <1>6, <1>8
<1>10. ASSUME NEW k \in Nat, k \in T PROVE k + 1 \in T
  <2> SUFFICES ASSUME k + 1 <= N PROVE f[k + 1] = g[k + 1]
    OBVIOUS
  <2>1. k + 1 \in 1 .. N /\ k + 1 \in 0 .. N /\ (k + 1) - 1 = k /\ k + 1 # 0 /\ k <= N
    BY <1>1
  <2>2. f[k] = g[k]
    BY <1>10, <2>1
  <2>3. f[k + 1] = ReadId(buf, f[(k + 1) - 1])
    BY <1>8, <2>1
  <2> QED BY <1>5, <2>1, <2>2, <2>3
<1>11. N \in T
  <2> HIDE DEF T
  <2> QED BY <1>1, <1>9, <1>10, NatSetInduction
<1>12. f[N] = g[N]
  BY <1>1, <1>11
<1>13. g[N].ids = part(N)
  BY <1>1 DEF g
<1> QED BY <1>2, <1>4, <1>12, <1>13 DEF N

\* The header of an array of less than 256 elements.
LEMMA ArrayReads ==
    ASSUME NEW c \in Nat, c < 256
    PROVE  /\ ArrayHeader(c) \in Seq(Octets)
           /\ Len(ArrayHeader(c)) \in Nat /\ Len(ArrayHeader(c)) > 0
           /\ \A buf : StandsAt(buf, 1, ArrayHeader(c))
                 => DecodeArrayHeader(buf, 1) = c
                    /\ ArrayHeaderSize(buf, 1) = Len(ArrayHeader(c))
<1> DEFINE h == ArrayHeader(c)
<1>1. CASE c < 24
  <2>1. h = <<128 + c>>
    BY <1>1 DEF ArrayHeader
  <2>2. 128 + c \in Octets
    BY <1>1, OctetsAre
  <2> HIDE DEF h
  <2>3. h \in Seq(Octets) /\ Len(h) = 1 /\ h[1] = 128 + c
    BY <2>1, <2>2
  <2>4. ASSUME NEW buf, StandsAt(buf, 1, h)
        PROVE  DecodeArrayHeader(buf, 1) = c /\ ArrayHeaderSize(buf, 1) = 1
    <3>1. buf[1] - 128 = c
      BY <2>3, <2>4 DEF StandsAt
    <3>2. c \in 0 .. 23 /\ c # 24
      BY <1>1
    <3>3. DecodeArrayHeader(buf, 1) = c
      BY <3>1, <3>2, Zenon DEF DecodeArrayHeader
    <3>4. ArrayHeaderSize(buf, 1) = 1
      BY <3>1, <3>2, Zenon DEF ArrayHeaderSize
    <3> QED BY <3>3, <3>4
  <2> QED BY <2>3, <2>4 DEF h
<1>2. CASE c >= 24
  <2>1. h = <<152, c>>
    BY <1>2 DEF ArrayHeader, Octet
  <2>2. 152 \in Octets /\ c \in Octets
    BY OctetsAre
  <2> HIDE DEF h
  <2>3. h \in Seq(Octets) /\ Len(h) = 2 /\ h[1] = 152 /\ h[2] = c
    BY <2>1, <2>2
  <2>4. ASSUME NEW buf, StandsAt(buf, 1, h)
        PROVE  DecodeArrayHeader(buf, 1) = c /\ ArrayHeaderSize(buf, 1) = 2
    <3>1. Len(buf) \in Nat /\ 1 + 2 <= Len(buf) + 1
          /\ \A i \in 1 .. 2 : buf[1 + i - 1] = h[i]
      BY <2>3, <2>4 DEF StandsAt
    <3>2. buf[1 + 1 - 1] = h[1] /\ buf[1 + 2 - 1] = h[2]
      BY <3>1
    <3>3. buf[1] - 128 = 24 /\ buf[1 + 1] = c /\ 1 + 1 <= Len(buf)
      BY <2>3, <3>1, <3>2
    <3>4. 24 \notin 0 .. 23
      OBVIOUS
    <3>5. DecodeArrayHeader(buf, 1) = c
      BY <3>3, <3>4, Zenon DEF DecodeArrayHeader
    <3>6. ArrayHeaderSize(buf, 1) = 2
      BY <3>3, Zenon DEF ArrayHeaderSize
    <3> QED BY <3>5, <3>6
  <2> QED BY <2>3, <2>4 DEF h
<1>3. c < 24 \/ c >= 24
  OBVIOUS
<1> QED BY <1>1, <1>2, <1>3

\* What garry_encode_node_meta wrote is what garry_decode_node_meta reads.
LEMMA MetaReads ==
    ASSUME NEW n, n.next \in PageIds, n.prev \in PageIds, n.children \in Seq(PageIds),
           Len(n.children) + 2 < 256, NEW kind, kind # "internal" => n.children = <<>>
    PROVE  /\ EncodeNodeMeta(n) \in Seq(Octets) /\ EncodeNodeMeta(n) # <<>>
           /\ DecodeNodeMeta(EncodeNodeMeta(n), kind)
                = [next |-> n.next, prev |-> n.prev, children |-> n.children]
<1> DEFINE two == <<n.next, n.prev>>
           kids == n.children
           ids == two \o kids
           c == Len(ids)
           h == ArrayHeader(c)
           w == WrittenIds(ids)
           buf == EncodeNodeMeta(n)
<1>1. buf = h \o w
  BY DEF EncodeNodeMeta
<1>2. two \in Seq(PageIds) /\ Len(two) = 2 /\ two[1] = n.next /\ two[2] = n.prev
  OBVIOUS
<1> HIDE DEF two
<1>3. /\ ids \in Seq(PageIds) /\ c = 2 + Len(kids) /\ c \in Nat /\ c < 256
      /\ Len(kids) \in Nat
  <2>1. ids \in Seq(PageIds) /\ Len(ids) = Len(two) + Len(kids) /\ Len(kids) \in Nat
    BY <1>2, Joined
  <2> QED BY <1>2, <2>1
<1>4. ids[1] = n.next /\ ids[2] = n.prev /\ SubSeq(ids, 3, c) = kids
  <2>1. ids[1] = two[1] /\ ids[2] = two[2]
    <3>1. two \in Seq(PageIds) /\ kids \in Seq(PageIds)
          /\ 1 \in 1 .. Len(two) /\ 2 \in 1 .. Len(two)
      BY <1>2
    <3> QED BY <3>1, JoinedLow
  <2>2. ASSUME NEW i \in 1 .. Len(kids) PROVE ids[2 + i] = kids[i]
    <3> HIDE DEF kids
    <3>1. two \in Seq(PageIds) /\ kids \in Seq(PageIds) /\ i \in 1 .. Len(kids)
      BY <1>2 DEF kids
    <3>2. (two \o kids)[Len(two) + i] = kids[i]
      BY <3>1, JoinedAt
    <3> QED BY <1>2, <3>2
  <2> DEFINE s == SubSeq(ids, 3, c)
  <2>3. s \in Seq(PageIds) /\ Len(s) = Len(kids)
        /\ \A i \in 1 .. Len(kids) : s[i] = ids[2 + i]
    <3> HIDE DEF ids, c
    <3>1. ids \in Seq(PageIds) /\ c \in Nat /\ Len(ids) = c
      BY <1>3 DEF c
    <3>2. Len(s) = c - 3 + 1 /\ s \in Seq(PageIds)
          /\ \A i \in 1 .. c - 3 + 1 : s[i] = ids[3 + i - 1]
      BY <1>3, <3>1
    <3>3. c - 3 + 1 = Len(kids)
      BY <1>3
    <3>4. \A i \in 1 .. Len(kids) : 3 + i - 1 = 2 + i
      BY <1>3
    <3> QED BY <3>2, <3>3, <3>4
  <2> HIDE DEF s, ids
  <2>4. s = kids
    BY <2>2, <2>3
  <2> QED BY <1>2, <2>1, <2>4 DEF s
<1> HIDE DEF c, ids
<1>5. Blocks(w, [k \in 1 .. Len(ids) |-> EncodeUint(ids[k] + PageIdBias)], Len(ids))
  BY <1>3, IdsWritten
<1>6. w \in Seq(Octets)
  BY <1>5 DEF Blocks
<1> HIDE DEF h, w, buf
<1>7. h \in Seq(Octets) /\ Len(h) \in Nat /\ Len(h) > 0
  BY <1>3, ArrayReads DEF h
<1>8. buf \in Seq(Octets) /\ buf # <<>>
  <2>1. buf \in Seq(Octets) /\ Len(buf) = Len(h) + Len(w) /\ Len(w) \in Nat
    BY <1>1, <1>6, <1>7, Joined
  <2> QED BY <1>7, <2>1
<1>9. StandsAt(buf, 1, h) /\ StandsAt(buf, 1 + Len(h), w)
  BY <1>1, <1>6, <1>7, <1>8, StandsWhole, StandsSplit
<1>10. DecodeArrayHeader(buf, 1) = c /\ ArrayHeaderSize(buf, 1) = Len(h)
  BY <1>3, <1>9, ArrayReads DEF h
<1>11. ReadIds(buf, 1 + Len(h), c) = ids
  BY <1>3, <1>9, IdsRead DEF w, c
<1>12. (IF kind = "internal" THEN DecodeArrayHeader(buf, 1) ELSE 2) = c
  BY <1>3, <1>10
<1>13. DecodeNodeMeta(buf, kind)
         = [next |-> ids[1], prev |-> ids[2], children |-> SubSeq(ids, 3, Len(ids))]
  BY <1>10, <1>11, <1>12, Zenon DEF DecodeNodeMeta
<1> QED BY <1>4, <1>8, <1>13 DEF buf, c

------------------------------------------------------------------------------
(* Nodes. *)

\* The value stored with an entry of a node.
StoredValue(n, e) == IF n.kind = "internal" THEN <<>> ELSE EncodeDescriptor(e.cid, FALSE)

\* The bounds of int32_t.
LEMMA Int32Range ==
    /\ -1 - MaxInt32 \in Int /\ MaxInt32 \in Int
    /\ MaxInt32 <= 2147483647 /\ -2147483647 - 1 <= -1 - MaxInt32
BY SMT DEF MaxInt32

\* A chain id is an int32_t.
LEMMA CidRange ==
    ASSUME NEW c \in -1 - MaxInt32 .. MaxInt32
    PROVE  Int32(c)
<1>1. c \in Int /\ -1 - MaxInt32 <= c /\ c <= MaxInt32
  <2> DEFINE low == -1 - MaxInt32
  <2>1. low \in Int /\ MaxInt32 \in Int /\ c \in low .. MaxInt32
    BY Int32Range, SMT
  <2> HIDE DEF low
  <2>2. c \in Int /\ low <= c /\ c <= MaxInt32
    BY <2>1, Between, SMT
  <2> QED BY <2>2 DEF low
<1> QED BY <1>1, Int32Range, SMT DEF Int32

\* The value stored with a key is shorter than 256 bytes.
LEMMA StoredBytes ==
    ASSUME NEW n, NEW e, Int32(e.cid)
    PROVE  StoredValue(n, e) \in Seq(Octets) /\ Len(StoredValue(n, e)) < 256
<1>1. CASE n.kind = "internal"
  <2>1. StoredValue(n, e) = <<>>
    BY <1>1 DEF StoredValue
  <2> QED BY <2>1
<1>2. CASE n.kind # "internal"
  <2>1. StoredValue(n, e) = EncodeDescriptor(e.cid, FALSE)
    BY <1>2 DEF StoredValue
  <2>2. EncodeDescriptor(e.cid, FALSE) \in Seq(Octets) /\ Len(EncodeDescriptor(e.cid, FALSE)) < 24
    BY DescriptorReads
  <2>3. \A k \in Nat : k < 24 => k < 256
    OBVIOUS
  <2> DEFINE d == EncodeDescriptor(e.cid, FALSE)
  <2> HIDE DEF d
  <2>4. d \in Seq(Octets) /\ Len(d) < 24
    BY <2>2 DEF d
  <2>5. Len(d) \in Nat /\ Len(d) < 256
    BY <2>3, <2>4
  <2> QED BY <2>1, <2>4, <2>5 DEF d
<1> QED BY <1>1, <1>2

\* What NodesInBounds says of one node.
BoundedNode(n) ==
    /\ n.kind \in {"leaf", "internal"}
    /\ n.next \in PageIds /\ n.prev \in PageIds
    /\ n.children \in Seq(PageIds)
    /\ Len(n.children) + 2 < 256
    /\ n.kind # "internal" => n.children = <<>>
    /\ n.entries \in Seq(Entries)
    /\ MaxKeys \in Nat /\ Len(n.entries) <= MaxKeys
    /\ n = [kind |-> n.kind, next |-> n.next, prev |-> n.prev,
            children |-> n.children, entries |-> n.entries]
    /\ \A i \in 1 .. Len(n.entries) :
          /\ n.entries[i].key \in Seq(Octets) /\ Len(n.entries[i].key) < 256
          /\ Int32(n.entries[i].cid)
          /\ n.kind = "internal" => n.entries[i].cid = 0
          /\ n.entries[i] = [key |-> n.entries[i].key, cid |-> n.entries[i].cid]

\* What NodesInBounds says of one node.
LEMMA NodeBounded ==
    ASSUME NodesInBounds, NEW n \in Nodes
    PROVE  BoundedNode(n)
<1> DEFINE E == n.entries
<1>1. /\ n \in [kind : {"leaf", "internal"}, next : PageIds, prev : PageIds,
                children : Seq(PageIds), entries : Seq(Entries)]
      /\ Len(E) <= MaxKeys
      /\ \A i \in DOMAIN E : Len(E[i].key) < 256
      /\ n.kind = "leaf" => n.children = <<>>
      /\ n.kind = "internal" => Len(n.children) + 2 < 256
      /\ n.kind = "internal" => \A i \in DOMAIN E : E[i].cid = 0
      /\ MaxKeys \in Nat
  BY Zenon DEF NodesInBounds
<1>2. /\ n.kind \in {"leaf", "internal"} /\ n.next \in PageIds /\ n.prev \in PageIds
      /\ n.children \in Seq(PageIds) /\ E \in Seq(Entries)
      /\ n = [kind |-> n.kind, next |-> n.next, prev |-> n.prev,
              children |-> n.children, entries |-> E]
  BY <1>1
<1>3. n.kind # "internal" => n.children = <<>>
  BY <1>1, <1>2
<1>4. Len(n.children) + 2 < 256
  BY <1>1, <1>2
<1>5. ASSUME NEW i \in 1 .. Len(E)
      PROVE  /\ E[i].key \in Seq(Octets) /\ Len(E[i].key) < 256
             /\ Int32(E[i].cid)
             /\ n.kind = "internal" => E[i].cid = 0
             /\ E[i] = [key |-> E[i].key, cid |-> E[i].cid]
  <2>1. E[i] \in Entries /\ i \in DOMAIN E
    BY <1>2
  <2>2. E[i].key \in Seq(Octets) /\ E[i].cid \in -1 - MaxInt32 .. MaxInt32
        /\ E[i] = [key |-> E[i].key, cid |-> E[i].cid]
    BY <2>1 DEF Entries
  <2>3. Int32(E[i].cid)
    BY <2>2, CidRange
  <2> QED BY <1>1, <2>1, <2>2, <2>3
<1> QED BY <1>1, <1>2, <1>3, <1>4, <1>5, Zenon DEF BoundedNode

\* The records of a node that is within the bounds.
LEMMA RecordsOfNode ==
    ASSUME NEW n, BoundedNode(n)
    PROVE  /\ NodeRecords(n) \in Seq(Seq(Octets) \ {<<>>})
           /\ Len(NodeRecords(n)) = Len(n.entries) + 1
           /\ NodeRecords(n)[1] = EncodeNodeMeta(n)
           /\ \A i \in 1 .. Len(n.entries) :
                 NodeRecords(n)[i + 1] = EncodeKv(n.entries[i].key, StoredValue(n, n.entries[i]))
<1> DEFINE E == n.entries
           K == Len(E)
           Rec == Seq(Octets) \ {<<>>}
           kv == [i \in 1 .. K |-> EncodeKv(E[i].key, StoredValue(n, E[i]))]
           m == <<EncodeNodeMeta(n)>>
<1>1. E \in Seq(Entries) /\ K \in Nat /\ MaxKeys \in Nat /\ K <= MaxKeys
  BY DEF BoundedNode
<1>2. (IF K < MaxKeys THEN K ELSE MaxKeys) = K
  BY <1>1
<1>3. SubSeq(E, 1, K) = E /\ DOMAIN E = 1 .. K
  BY <1>1
<1>4. NodeRecords(n) = m \o kv
  <2>1. NodeRecords(n) = m \o [i \in DOMAIN E |-> EntryRecord(n, E[i])]
    BY <1>2, <1>3, Zenon DEF NodeRecords
  <2>2. [i \in DOMAIN E |-> EntryRecord(n, E[i])] = kv
    BY <1>3, Zenon DEF EntryRecord, StoredValue
  <2> QED BY <2>1, <2>2
<1>5. ASSUME NEW i \in 1 .. K
      PROVE  EncodeKv(E[i].key, StoredValue(n, E[i])) \in Rec
  <2>1. E[i].key \in Seq(Octets) /\ Len(E[i].key) < 256 /\ Int32(E[i].cid)
    BY DEF BoundedNode
  <2>2. StoredValue(n, E[i]) \in Seq(Octets) /\ Len(StoredValue(n, E[i])) < 256
    BY <2>1, StoredBytes
  <2>3. EncodeKv(E[i].key, StoredValue(n, E[i])) \in Seq(Octets)
        /\ EncodeKv(E[i].key, StoredValue(n, E[i])) # <<>>
    BY <2>1, <2>2, KvReads
  <2> QED BY <2>3, Zenon
<1>6. EncodeNodeMeta(n) \in Rec
  <2>1. /\ n.next \in PageIds /\ n.prev \in PageIds /\ n.children \in Seq(PageIds)
        /\ Len(n.children) + 2 < 256
        /\ n.kind # "internal" => n.children = <<>>
    BY DEF BoundedNode
  <2>2. EncodeNodeMeta(n) \in Seq(Octets) /\ EncodeNodeMeta(n) # <<>>
    BY <2>1, MetaReads
  <2> QED BY <2>2, Zenon
<1> HIDE DEF Rec
<1>7. kv \in Seq(Rec) /\ Len(kv) = K
  BY <1>1, <1>5
<1>8. m \in Seq(Rec) /\ Len(m) = 1 /\ m[1] = EncodeNodeMeta(n)
  BY <1>6
<1> HIDE DEF m, kv
<1>9. (m \o kv) \in Seq(Rec) /\ Len(m \o kv) = K + 1
  <2>1. (m \o kv) \in Seq(Rec) /\ Len(m \o kv) = Len(m) + Len(kv)
    BY <1>7, <1>8, Joined
  <2> QED BY <1>1, <1>7, <1>8, <2>1
<1>10. (m \o kv)[1] = EncodeNodeMeta(n)
  <2>1. 1 \in 1 .. Len(m)
    BY <1>8
  <2> QED BY <1>7, <1>8, <2>1, JoinedLow
<1>11. ASSUME NEW i \in 1 .. K PROVE (m \o kv)[i + 1] = EncodeKv(E[i].key, StoredValue(n, E[i]))
  <2>1. i \in 1 .. Len(kv) /\ m \in Seq(Rec) /\ kv \in Seq(Rec)
    BY <1>7, <1>8
  <2>2. (m \o kv)[Len(m) + i] = kv[i]
    BY <2>1, JoinedAt
  <2>3. Len(m) + i = i + 1
    BY <1>8
  <2> QED BY <2>2, <2>3 DEF kv
<1> QED BY <1>4, <1>9, <1>10, <1>11 DEF Rec

\* The page p holds the records r.
HoldsRecords(p, r) ==
    /\ p.count = Len(r)
    /\ \A i \in 0 .. p.count - 1 : PageGet(p, i) = r[i + 1]

\* r is what a store of n has inserted, or a part of it.
Begins(r, n) ==
    /\ Len(r) \in Nat /\ Len(r) >= 1 /\ Len(r) <= Len(NodeRecords(n))
    /\ \A i \in 1 .. Len(r) : r[i] = NodeRecords(n)[i]

\* The entries behind the metadata, as garry_decode_kv returns them.
LEMMA KvsLoaded ==
    ASSUME NEW n, BoundedNode(n), NEW p, NEW r, HoldsRecords(p, r), Begins(r, n)
    PROVE  LoadedKvs(p)
             = [i \in 1 .. Len(r) - 1 |->
                   [ok |-> TRUE, key |-> n.entries[i].key,
                    value |-> StoredValue(n, n.entries[i])]]
<1> DEFINE E == n.entries
           N == Len(r)
           kv(i) == [ok |-> TRUE, key |-> E[i].key, value |-> StoredValue(n, E[i])]
           part(m) == [i \in 1 .. m - 1 |-> kv(i)]
           g == [m \in 0 .. N |-> part(m)]
           Eq(f) == f = [m \in 0 .. N |-> IF m <= 1 THEN <<>> ELSE LoadKv(p, m - 1, f[m - 1])]
           f == CHOOSE h : Eq(h)
<1>1. /\ N \in Nat /\ N >= 1 /\ N <= Len(E) + 1 /\ p.count = N /\ Len(E) \in Nat
      /\ MaxKeys \in Nat /\ Len(E) <= MaxKeys
  <2>1. E \in Seq(Entries) /\ MaxKeys \in Nat /\ Len(E) <= MaxKeys
    BY DEF BoundedNode
  <2> QED BY <2>1, RecordsOfNode DEF Begins, HoldsRecords
<1>2. LoadedKvs(p) = f[N]
  BY <1>1 DEF LoadedKvs
<1>3. ASSUME NEW i \in 1 .. N - 1 PROVE DecodeKv(PageGet(p, i)) = kv(i)
  <2>1. i \in 0 .. p.count - 1 /\ i + 1 \in 1 .. N /\ i \in 1 .. Len(E)
    BY <1>1
  <2>2. PageGet(p, i) = r[i + 1]
    BY <2>1 DEF HoldsRecords
  <2>3. r[i + 1] = NodeRecords(n)[i + 1]
    BY <2>1 DEF Begins
  <2>4. NodeRecords(n)[i + 1] = EncodeKv(E[i].key, StoredValue(n, E[i]))
    BY <2>1, RecordsOfNode
  <2>5. E[i].key \in Seq(Octets) /\ Len(E[i].key) < 256 /\ Int32(E[i].cid)
    BY <2>1 DEF BoundedNode
  <2>6. StoredValue(n, E[i]) \in Seq(Octets) /\ Len(StoredValue(n, E[i])) < 256
    BY <2>5, StoredBytes
  <2>7. DecodeKv(EncodeKv(E[i].key, StoredValue(n, E[i]))) = kv(i)
    BY <2>5, <2>6, KvReads
  <2> QED BY <2>2, <2>3, <2>4, <2>7
<1>4. ASSUME NEW m \in 2 .. N PROVE LoadKv(p, m - 1, part(m - 1)) = part(m)
  <2>1. m - 1 \in 1 .. N - 1 /\ m - 1 \in Nat /\ m - 2 \in Nat
    BY <1>1
  <2>2. DecodeKv(PageGet(p, m - 1)) = kv(m - 1)
    BY <1>3, <2>1
  <2>3. kv(m - 1).ok = TRUE
    OBVIOUS
  <2> HIDE DEF kv
  <2>4. Len(part(m - 1)) = m - 2
    BY <2>1
  <2>5. Len(part(m - 1)) < MaxKeys
    BY <1>1, <2>4
  <2>6. Append(part(m - 1), kv(m - 1)) = part(m)
    BY <2>1, <2>4
  <2> HIDE DEF part
  <2> QED BY <2>2, <2>3, <2>5, <2>6, Zenon DEF LoadKv
<1>5. part(0) = <<>> /\ part(1) = <<>>
  OBVIOUS
<1> HIDE DEF N, kv, part
<1>6. ASSUME NEW m \in 0 .. N
      PROVE  g[m] = IF m <= 1 THEN <<>> ELSE LoadKv(p, m - 1, g[m - 1])
  <2>1. CASE m <= 1
    <3>1. m = 0 \/ m = 1
      BY <1>1, <2>1
    <3> QED BY <1>5, <2>1, <3>1
  <2>2. CASE ~ (m <= 1)
    <3>1. m \in 2 .. N /\ m - 1 \in 0 .. N
      BY <1>1, <2>2
    <3> QED BY <1>4, <2>2, <3>1
  <2> QED BY <2>1, <2>2
<1>7. g = [m \in 0 .. N |-> g[m]]
  OBVIOUS
<1>8. g[N] = part(N)
  BY <1>1
<1> HIDE DEF g
<1>9. Eq(g)
  BY <1>6, <1>7
<1>10. Eq(f)
  BY <1>9
<1> HIDE DEF f
<1> DEFINE T == {m \in Nat : m <= N => f[m] = g[m]}
<1>11. 0 \in T
  <2>1. f[0] = <<>> /\ g[0] = <<>>
    BY <1>1, <1>6, <1>10
  <2> QED BY <2>1
<1>12. ASSUME NEW m \in Nat, m \in T PROVE m + 1 \in T
  <2> SUFFICES ASSUME m + 1 <= N PROVE f[m + 1] = g[m + 1]
    OBVIOUS
  <2>1. m + 1 \in 0 .. N /\ (m + 1) - 1 = m /\ m <= N
    BY <1>1
  <2>2. f[m] = g[m]
    BY <1>12, <2>1
  <2>3. f[m + 1] = IF m + 1 <= 1 THEN <<>> ELSE LoadKv(p, (m + 1) - 1, f[(m + 1) - 1])
    BY <1>10, <2>1
  <2>4. g[m + 1] = IF m + 1 <= 1 THEN <<>> ELSE LoadKv(p, (m + 1) - 1, g[(m + 1) - 1])
    BY <1>6, <2>1
  <2> QED BY <2>1, <2>2, <2>3, <2>4
<1>13. N \in T
  <2> HIDE DEF T
  <2> QED BY <1>1, <1>11, <1>12, NatSetInduction
<1>14. f[N] = part(N)
  BY <1>1, <1>8, <1>13
<1> QED BY <1>2, <1>14 DEF part, kv, N

\* A page that holds the metadata of a node and its first entries loads as the
\* node cut behind those entries.
LEMMA PartLoads ==
    ASSUME NEW n, BoundedNode(n), NEW p, NEW r, HoldsRecords(p, r), Begins(r, n),
           p.kind = n.kind
    PROVE  LoadNode(p) = [kind |-> n.kind, next |-> n.next, prev |-> n.prev,
                          children |-> n.children,
                          entries |-> [i \in 1 .. Len(r) - 1 |-> n.entries[i]]]
<1> DEFINE E == n.entries
           N == Len(r)
           kv(i) == [ok |-> TRUE, key |-> E[i].key, value |-> StoredValue(n, E[i])]
           kvs == [i \in 1 .. N - 1 |-> kv(i)]
           kind == IF p.kind \in {"leaf", "overflow"} THEN p.kind ELSE "internal"
           mt == [next |-> n.next, prev |-> n.prev, children |-> n.children]
<1>1. kind = n.kind
  BY DEF BoundedNode
<1>2. LoadedKvs(p) = kvs
  BY KvsLoaded
<1>3. /\ N \in Nat /\ N >= 1 /\ p.count = N /\ N <= Len(E) + 1 /\ Len(E) \in Nat
  <2>1. E \in Seq(Entries)
    BY DEF BoundedNode
  <2> QED BY <2>1, RecordsOfNode DEF Begins, HoldsRecords
<1>4. PageGet(p, 0) = EncodeNodeMeta(n)
  <2>1. 0 \in 0 .. p.count - 1 /\ 1 \in 1 .. N /\ 0 + 1 = 1
    BY <1>3
  <2>2. PageGet(p, 0) = r[1]
    BY <2>1 DEF HoldsRecords
  <2>3. r[1] = NodeRecords(n)[1]
    BY <2>1 DEF Begins
  <2> QED BY <2>2, <2>3, RecordsOfNode
<1>5. PageGet(p, 0) # <<>> /\ DecodeNodeMeta(PageGet(p, 0), n.kind) = mt
  <2>1. /\ n.next \in PageIds /\ n.prev \in PageIds /\ n.children \in Seq(PageIds)
        /\ Len(n.children) + 2 < 256
        /\ n.kind # "internal" => n.children = <<>>
    BY DEF BoundedNode
  <2> QED BY <1>4, <2>1, MetaReads
<1>6. p.count > 0
  BY <1>3
<1>7. DOMAIN kvs = 1 .. N - 1
  OBVIOUS
<1>8. ASSUME NEW i \in 1 .. N - 1
      PROVE  [key |-> kvs[i].key,
              cid |-> IF n.kind = "internal" THEN 0 ELSE DecodeDescriptor(kvs[i].value).cid]
             = E[i]
  <2>1. i \in 1 .. Len(E)
    BY <1>3
  <2>2. Int32(E[i].cid) /\ (n.kind = "internal" => E[i].cid = 0)
        /\ E[i] = [key |-> E[i].key, cid |-> E[i].cid]
    BY <2>1 DEF BoundedNode
  <2>3. kvs[i].key = E[i].key /\ kvs[i].value = StoredValue(n, E[i])
    OBVIOUS
  <2>4. CASE n.kind = "internal"
    BY <2>2, <2>3, <2>4
  <2>5. CASE n.kind # "internal"
    <3>1. StoredValue(n, E[i]) = EncodeDescriptor(E[i].cid, FALSE)
      BY <2>5 DEF StoredValue
    <3>2. DecodeDescriptor(EncodeDescriptor(E[i].cid, FALSE)) = [cid |-> E[i].cid, kids |-> FALSE]
      BY <2>2, DescriptorReads
    <3>3. DecodeDescriptor(kvs[i].value).cid = E[i].cid
      <4> HIDE DEF kvs
      <4>1. DecodeDescriptor(kvs[i].value) = [cid |-> E[i].cid, kids |-> FALSE]
        BY <2>3, <3>1, <3>2, Zenon
      <4> QED BY <4>1
    <3> QED BY <2>2, <2>3, <2>5, <3>3
  <2> QED BY <2>4, <2>5
<1> DEFINE ents(s) == [i \in DOMAIN s |->
                 [key |-> s[i].key,
                  cid |-> IF n.kind = "internal" THEN 0
                          ELSE DecodeDescriptor(s[i].value).cid]]
<1>9. ents(kvs) = [i \in 1 .. N - 1 |-> E[i]]
  <2> HIDE DEF kvs
  <2> QED BY <1>7, <1>8
<1>10. LoadNode(p)
         = [kind |-> kind, next |-> mt.next, prev |-> mt.prev,
            children |-> IF kind = "internal" THEN mt.children ELSE <<>>,
            entries |-> ents(LoadedKvs(p))]
  <2> HIDE DEF mt, kvs
  <2> QED BY <1>1, <1>5, <1>6, Zenon DEF LoadNode
<1>11. (IF kind = "internal" THEN mt.children ELSE <<>>) = n.children
  BY <1>1 DEF BoundedNode
<1>12. mt.next = n.next /\ mt.prev = n.prev
  OBVIOUS
<1> HIDE DEF mt, kind, kvs, ents
<1> QED BY <1>1, <1>2, <1>9, <1>10, <1>11, <1>12

\* All of it loads as the node.
LEMMA WholeLoads ==
    ASSUME NEW n, BoundedNode(n), NEW p, NEW r, HoldsRecords(p, r), p.kind = n.kind,
           r = NodeRecords(n)
    PROVE  LoadNode(p) = n
<1> DEFINE E == n.entries
<1>1. E \in Seq(Entries)
  BY DEF BoundedNode
<1>2. Len(r) = Len(E) + 1 /\ Len(r) \in Nat /\ Len(r) >= 1
  BY <1>1, RecordsOfNode
<1>3. Begins(r, n)
  BY <1>2 DEF Begins
<1>4. [i \in 1 .. Len(r) - 1 |-> E[i]] = E
  BY <1>1, <1>2
<1>5. LoadNode(p) = [kind |-> n.kind, next |-> n.next, prev |-> n.prev,
                     children |-> n.children,
                     entries |-> [i \in 1 .. Len(r) - 1 |-> E[i]]]
  BY <1>3, PartLoads
<1>6. n = [kind |-> n.kind, next |-> n.next, prev |-> n.prev,
           children |-> n.children, entries |-> E]
  BY DEF BoundedNode
<1> QED BY <1>4, <1>5, <1>6

\* A page that garry_allocate_leaf initialised loads as a leaf without entries.
LEMMA EmptyLoads ==
    ASSUME NEW p, p.kind = "leaf", p.count = 0
    PROVE  LoadNode(p) = EmptyLeaf
<1> DEFINE Eq(h) == h = [m \in 0 .. 0 |-> IF m <= 1 THEN <<>> ELSE LoadKv(p, m - 1, h[m - 1])]
           f == CHOOSE h : Eq(h)
           g == [m \in 0 .. 0 |-> <<>>]
<1>1. Eq(g)
  OBVIOUS
<1>2. Eq(f)
  <2> HIDE DEF g
  <2> QED BY <1>1
<1>3. LoadedKvs(p) = f[0]
  BY DEF LoadedKvs
<1> HIDE DEF f
<1>4. LoadedKvs(p) = <<>>
  BY <1>2, <1>3
<1>5. ~ (p.count > 0)
  OBVIOUS
<1> DEFINE none == [next |-> -1, prev |-> -1, children |-> <<>>]
           ents(s) == [i \in DOMAIN s |->
                 [key |-> s[i].key, cid |-> DecodeDescriptor(s[i].value).cid]]
<1>6. none.next = -1 /\ none.prev = -1
  OBVIOUS
<1>7. ents(<<>>) = <<>>
  OBVIOUS
<1> HIDE DEF ents
<1>8. "leaf" # "internal" /\ "leaf" \in {"leaf", "overflow"}
  OBVIOUS
<1>9. LoadNode(p) = [kind |-> "leaf", next |-> none.next, prev |-> none.prev,
                     children |-> <<>>, entries |-> ents(LoadedKvs(p))]
  <2> HIDE DEF none
  <2> QED BY <1>5, <1>8, Zenon DEF LoadNode, none, ents
<1> HIDE DEF none
<1> QED BY <1>4, <1>6, <1>7, <1>9 DEF EmptyLeaf

(* Stores, evictions and loads. *)

\* The page p is laid out soundly and returns the records r.
SoundPage(p, r) ==
    /\ p \in Page /\ r \in Seq(Records)
    /\ p.count = Len(r)
    /\ p.freeStart = HeaderSize + SlotSize * p.count
    /\ p.freeStart <= p.freeEnd
    /\ p.freeEnd <= PageSize
    /\ \A i \in 0 .. p.count - 1 :
          /\ p.freeEnd <= p.slots[i].offset
          /\ p.slots[i].offset + p.slots[i].length <= PageSize
    /\ \A i, j \in 0 .. p.count - 1 :
          i < j => p.slots[j].offset + p.slots[j].length <= p.slots[i].offset
    /\ \A i \in 0 .. p.count - 1 : PageGet(p, i) = r[i + 1]

\* SoundPage is the invariant of SlottedPage, said of any page.
LEMMA SoundHere ==
    /\ SoundPage(page, recs) <=> PageTypeOK /\ PageSound /\ RecordsKept
    /\ SoundPage(page', recs') <=> PageTypeOK' /\ PageSound' /\ RecordsKept'
BY Zenon DEF SoundPage, PageTypeOK, PageSound, RecordsKept

\* All records of n are in the page; or n is the leaf that was allocated.
Stored(p, r, n) ==
    \/ n = EmptyLeaf /\ r = <<>> /\ p.kind = "leaf"
    \/ n \in Nodes /\ p.kind = n.kind /\ r = NodeRecords(n)

\* The page holds n or, after a store that ran out of room, its beginning.
Partly(p, r, n) ==
    \/ Stored(p, r, n)
    \/ n \in Nodes /\ p.kind = n.kind /\ (MetadataFits => Begins(r, n))

\* In a store: what is in the page and what is still to be inserted.
Storing ==
    /\ node \in Nodes /\ page.kind = node.kind
    /\ todo \in Seq(Records)
    /\ recs \o todo = NodeRecords(node)
    /\ recs = <<>> => page = FreshPage(node.kind)

\* The page and the copy in the file are sound and hold at least the beginning
\* of a node; between stores that is the node named by held.  After a store that
\* did not run out of room the page holds the whole node, and what is not dirty
\* is in the file as well.
NodeInv ==
    /\ SoundPage(page, recs) /\ SoundPage(disk.page, disk.recs)
    /\ Partly(disk.page, disk.recs, disk.node)
    /\ held \in {node, disk.node}
    /\ storing => Storing /\ ~ cut /\ held = node
    /\ ~ storing => Partly(page, recs, held)
    /\ ~ storing /\ ~ cut => /\ Stored(page, recs, node)
                             /\ ~ dirty => page = disk.page /\ recs = disk.recs

\* An initialised page is sound.
LEMMA FreshIsSound ==
    ASSUME NEW kind \in Kinds
    PROVE  SoundPage(FreshPage(kind), <<>>) /\ FreshPage(kind).kind = kind
<1>1. FreshPage(kind) \in Page
  BY PageAssumption DEF FreshPage, Page, Slot, Word
<1>2. FreshPage(kind).count = 0 /\ FreshPage(kind).freeStart = HeaderSize
      /\ FreshPage(kind).freeEnd = PageSize /\ FreshPage(kind).kind = kind
  BY DEF FreshPage
<1> QED BY <1>1, <1>2, PageAssumption DEF SoundPage

\* Inserting moves the first of the remaining records behind the others.
LEMMA Shift ==
    ASSUME NEW S, NEW a \in Seq(S), NEW t \in Seq(S), t # <<>>
    PROVE  /\ Append(a, Head(t)) \o Tail(t) = a \o t
           /\ Head(t) \in S /\ Tail(t) \in Seq(S)
           /\ Append(a, Head(t)) \in Seq(S) /\ Append(a, Head(t)) # <<>>
<1> DEFINE h == Head(t)
           u == Tail(t)
<1>1. h \in S /\ u \in Seq(S) /\ t = <<h>> \o u
  BY HeadTailProperties
<1> HIDE DEF h, u
<1>2. <<h>> \in Seq(S) /\ Append(a, h) = a \o <<h>>
  BY <1>1, AppendIsConcat
<1>3. (a \o <<h>>) \o u = a \o (<<h>> \o u)
  BY <1>1, <1>2, ConcatAssociative
<1>4. Append(a, h) \in Seq(S) /\ Append(a, h) # <<>>
  BY <1>1, AppendProperties
<1>5. Append(a, h) \o u = a \o t
  BY <1>1, <1>2, <1>3
<1> QED BY <1>1, <1>4, <1>5 DEF h, u

\* The records of a node may be inserted into a page.
LEMMA RecordsAreRecords ==
    ASSUME NodesInBounds, NEW n \in Nodes
    PROVE  NodeRecords(n) \in Seq(Records) /\ n.kind \in Kinds /\ NodeRecords(n) # <<>>
<1>1. BoundedNode(n)
  BY NodeBounded
<1>2. n.kind \in Kinds
  BY <1>1 DEF BoundedNode, Kinds
<1> DEFINE R == NodeRecords(n)
           Q == Seq(Octets) \ {<<>>}
<1>3. R \in Seq(Q) /\ Len(R) = Len(n.entries) + 1
  BY <1>1, RecordsOfNode
<1>4. Octets \subseteq Byte
  BY DEF NodesInBounds
<1>5. Seq(Octets) \subseteq Seq(Byte)
  BY <1>4
<1>6. Q \subseteq Records
  BY <1>5 DEF Records
<1> HIDE DEF R, Q
<1>7. R \in Seq(Records)
  BY <1>3, <1>6
<1>8. R # <<>>
  <2>1. n.entries \in Seq(Entries)
    BY <1>1 DEF BoundedNode
  <2>2. Len(n.entries) \in Nat
    BY <2>1
  <2> QED BY <1>3, <2>2
<1> QED BY <1>2, <1>7, <1>8 DEF R

\* The leaf that garry_allocate_leaf initialises satisfies the invariant.
LEMMA NodeInvInit == NInit => NodeInv
<1> SUFFICES ASSUME NInit PROVE NodeInv
  OBVIOUS
<1>1. "leaf" \in Kinds
  BY DEF Kinds
<1>2. SoundPage(page, recs) /\ page.kind = "leaf"
  BY <1>1, FreshIsSound DEF NInit
<1>3. Stored(page, recs, node)
  BY <1>2 DEF NInit, Stored
<1>4. disk.page = page /\ disk.recs = recs /\ disk.node = node /\ held = node
  BY DEF NInit
<1>5. ~ storing /\ ~ cut /\ dirty
  BY DEF NInit
<1> QED BY <1>2, <1>3, <1>4, <1>5 DEF NodeInv, Partly

\* garry_store_node begins: an empty page and all the records to insert.
LEMMA BeginKeeps ==
    ASSUME NodesInBounds, NodeInv, NEW n \in Nodes, NEW m \in BOOLEAN, BeginStore(n, m)
    PROVE  NodeInv'
<1>1. /\ page' = FreshPage(n.kind) /\ recs' = <<>> /\ node' = n /\ todo' = NodeRecords(n)
      /\ storing' = TRUE /\ cut' = FALSE /\ held' = n /\ disk' = disk
  BY DEF BeginStore, Reinit
<1>2. n.kind \in Kinds /\ NodeRecords(n) \in Seq(Records)
  BY RecordsAreRecords
<1>3. SoundPage(page', recs') /\ page'.kind = n.kind
  BY <1>1, <1>2, FreshIsSound
<1>4. recs' \o todo' = NodeRecords(n)
  BY <1>1, <1>2
<1>5. Storing'
  BY <1>1, <1>2, <1>3, <1>4 DEF Storing
<1>6. SoundPage(disk.page, disk.recs)' /\ Partly(disk.page, disk.recs, disk.node)'
  BY <1>1 DEF NodeInv
<1> QED BY <1>1, <1>3, <1>5, <1>6 DEF NodeInv

\* One record is inserted: page and remainder still make up the node.
LEMMA StoreKeeps ==
    ASSUME NodesInBounds, NodeInv, StoreRecord
    PROVE  NodeInv'
<1>1. /\ storing /\ todo # <<>> /\ InsertRecord(Head(todo)) /\ todo' = Tail(todo)
      /\ node' = node /\ storing' = storing /\ cut' = cut /\ held' = held /\ disk' = disk
  BY DEF StoreRecord
<1>2. Storing /\ ~ cut /\ held = node /\ SoundPage(page, recs)
  BY <1>1 DEF NodeInv
<1>3. /\ recs \in Seq(Records) /\ todo \in Seq(Records) /\ page.kind = node.kind
      /\ node \in Nodes /\ recs \o todo = NodeRecords(node)
  BY <1>2 DEF Storing, SoundPage
<1> DEFINE d == Head(todo)
<1>4. /\ d \in Records /\ Tail(todo) \in Seq(Records)
      /\ Append(recs, d) \o Tail(todo) = recs \o todo /\ Append(recs, d) # <<>>
  BY <1>1, <1>3, Shift
<1> HIDE DEF d
<1>5. InsertRecord(d) /\ recs' = Append(recs, d)
  BY <1>1 DEF d, InsertRecord
<1>6. PageTypeOK /\ PageSound /\ RecordsKept
  BY <1>2, SoundHere
<1>7. PageTypeOK' /\ PageSound' /\ RecordsKept'
  BY <1>4, <1>5, <1>6, InsertKeepsSound, InsertKeepsRecords
<1>8. SoundPage(page', recs')
  BY <1>7, SoundHere
<1>9. page'.kind = page.kind
  <2> DEFINE n == Len(d)
             end == page.freeEnd - n
  <2>1. page' = [kind |-> page.kind, count |-> page.count + 1,
                 freeStart |-> page.freeStart + SlotSize, freeEnd |-> end,
                 slots |-> [page.slots EXCEPT ![page.count] = [offset |-> end, length |-> n]],
                 bytes |-> CopiedIn(page.bytes, end, d)]
    BY <1>4, <1>5, <1>6, InsertFacts
  <2> QED BY <2>1
<1>10. Storing'
  <2>1. recs' \o todo' = NodeRecords(node') /\ todo' \in Seq(Records) /\ recs' # <<>>
    BY <1>1, <1>3, <1>4, <1>5
  <2> QED BY <1>1, <1>3, <1>9, <2>1 DEF Storing
<1>11. SoundPage(disk.page, disk.recs)' /\ Partly(disk.page, disk.recs, disk.node)'
  BY <1>1 DEF NodeInv
<1> QED BY <1>1, <1>2, <1>8, <1>10, <1>11 DEF NodeInv

\* Where the store runs out of room the metadata is in the page.
LEMMA CutKeeps ==
    ASSUME NodesInBounds, NodeInv, StoreCut
    PROVE  NodeInv'
<1>1. /\ storing /\ todo # <<>> /\ ~ Fits(page, Len(Head(todo))) /\ storing' = FALSE
      /\ cut' = TRUE
      /\ page' = page /\ recs' = recs /\ node' = node /\ held' = held /\ disk' = disk
  BY DEF StoreCut
<1>2. Storing /\ held = node /\ SoundPage(page, recs)
  BY <1>1 DEF NodeInv
<1>3. /\ recs \in Seq(Records) /\ todo \in Seq(Records) /\ page.kind = node.kind
      /\ node \in Nodes /\ recs \o todo = NodeRecords(node)
      /\ recs = <<>> => page = FreshPage(node.kind)
  BY <1>2 DEF Storing, SoundPage
<1>4. ASSUME MetadataFits PROVE Begins(recs, node)
  <2>1. recs # <<>>
    <3> SUFFICES ASSUME recs = <<>> PROVE FALSE
      OBVIOUS
    <3>1. todo = NodeRecords(node)
      BY <1>3
    <3>2. Head(todo) = EncodeNodeMeta(node)
      <4>1. BoundedNode(node)
        BY <1>3, NodeBounded
      <4>2. NodeRecords(node)[1] = EncodeNodeMeta(node)
        BY <4>1, RecordsOfNode
      <4> QED BY <1>1, <1>3, <3>1, <4>2
    <3>3. Fits(FreshPage(node.kind), Len(EncodeNodeMeta(node)))
      BY <1>3, <1>4 DEF MetadataFits
    <3> QED BY <1>1, <1>3, <3>2, <3>3
  <2>2. Len(recs) \in Nat /\ Len(recs) >= 1
    BY <1>3, <2>1
  <2>3. Len(recs) <= Len(recs \o todo) /\ \A i \in 1 .. Len(recs) : (recs \o todo)[i] = recs[i]
    BY <1>3
  <2> QED BY <1>3, <2>2, <2>3 DEF Begins
<1>5. Partly(page', recs', held') /\ held' = node'
  BY <1>1, <1>2, <1>3, <1>4 DEF Partly
<1>6. SoundPage(page', recs') /\ SoundPage(disk.page, disk.recs)'
      /\ Partly(disk.page, disk.recs, disk.node)'
  BY <1>1 DEF NodeInv
<1> QED BY <1>1, <1>5, <1>6 DEF NodeInv

\* All records are in: the page holds the node and is dirty.
LEMMA EndKeeps ==
    ASSUME NodesInBounds, NodeInv, EndStore
    PROVE  NodeInv'
<1>1. /\ storing /\ todo = <<>> /\ storing' = FALSE /\ dirty' = TRUE /\ cut' = cut
      /\ page' = page /\ recs' = recs /\ node' = node /\ held' = held /\ disk' = disk
  BY DEF EndStore
<1>2. Storing /\ ~ cut /\ held = node /\ SoundPage(page, recs)
  BY <1>1 DEF NodeInv
<1>3. /\ recs \in Seq(Records) /\ page.kind = node.kind /\ node \in Nodes
      /\ recs \o todo = NodeRecords(node)
  BY <1>2 DEF Storing, SoundPage
<1>4. recs = NodeRecords(node)
  BY <1>1, <1>3
<1>5. Stored(page', recs', node') /\ held' = node'
  BY <1>1, <1>2, <1>3, <1>4 DEF Stored
<1>6. SoundPage(page', recs') /\ SoundPage(disk.page, disk.recs)'
      /\ Partly(disk.page, disk.recs, disk.node)'
  BY <1>1 DEF NodeInv
<1> QED BY <1>1, <1>2, <1>5, <1>6 DEF NodeInv, Partly

\* The caller marks the page: what the page and the file hold stays.
LEMMA MarkKeeps ==
    ASSUME NodeInv, CallerMarks
    PROVE  NodeInv'
<1>1. /\ ~ storing /\ storing' = storing /\ dirty' = TRUE /\ cut' = cut /\ page' = page
      /\ recs' = recs /\ node' = node /\ held' = held /\ disk' = disk
  BY DEF CallerMarks
<1> QED BY <1>1 DEF NodeInv

\* The file holds what the page held when it was dirty, and the pool
\* reads that back.
LEMMA EvictKeeps ==
    ASSUME NodesInBounds, NodeInv, EvictAndReload
    PROVE  NodeInv'
<1>1. /\ ~ storing /\ storing' = storing /\ cut' = cut /\ node' = node /\ dirty' = FALSE
      /\ page' = disk'.page /\ recs' = disk'.recs /\ held' = disk'.node
      /\ disk' = IF dirty THEN [page |-> page, recs |-> recs, node |-> held] ELSE disk
  BY DEF EvictAndReload
<1>2. CASE dirty
  <2>1. /\ disk'.page = page /\ disk'.recs = recs /\ disk'.node = held
        /\ page' = page /\ recs' = recs
    BY <1>1, <1>2
  <2>2. SoundPage(page, recs) /\ Partly(page, recs, held)
        /\ (~ cut => Stored(page, recs, node))
    BY <1>1 DEF NodeInv
  <2> QED BY <1>1, <2>1, <2>2 DEF NodeInv
<1>3. CASE ~ dirty
  <2>1. disk' = disk /\ page' = disk.page /\ recs' = disk.recs
    BY <1>1, <1>3
  <2>2. SoundPage(disk.page, disk.recs) /\ Partly(disk.page, disk.recs, disk.node)
    BY DEF NodeInv
  <2>3. ~ cut => Stored(disk.page, disk.recs, node)
    BY <1>1, <1>3 DEF NodeInv
  <2> QED BY <1>1, <2>1, <2>2, <2>3 DEF NodeInv
<1> QED BY <1>2, <1>3

\* NodeInv is inductive.
LEMMA NodeInvStep ==
    ASSUME NodesInBounds, NodeInv, [NNext]_nodeVars
    PROVE  NodeInv'
<1>1. ASSUME NEW n \in Nodes, NEW m \in BOOLEAN, BeginStore(n, m) PROVE NodeInv'
  BY <1>1, BeginKeeps
<1>2. CASE UNCHANGED nodeVars
  BY <1>2 DEF nodeVars, NodeInv, Storing
<1> QED BY <1>1, <1>2, StoreKeeps, CutKeeps, EndKeeps, MarkKeeps, EvictKeeps DEF NNext

\* garry_load_node gives back a node all of whose records are in the page.
LEMMA StoredMeansLoads ==
    ASSUME NodesInBounds, NEW p, NEW r, NEW n, SoundPage(p, r), Stored(p, r, n)
    PROVE  LoadNode(p) = n
<1>1. HoldsRecords(p, r) /\ p.count = Len(r)
  BY DEF SoundPage, HoldsRecords
<1>2. CASE n = EmptyLeaf /\ r = <<>> /\ p.kind = "leaf"
  BY <1>1, <1>2, EmptyLoads
<1>3. CASE n \in Nodes /\ p.kind = n.kind /\ r = NodeRecords(n)
  BY <1>1, <1>3, NodeBounded, WholeLoads
<1> QED BY <1>2, <1>3 DEF Stored

\* The node l is n with the entries behind the first few left out.
BeginningOf(l, n) ==
    /\ <<l.kind, l.next, l.prev, l.children>> = <<n.kind, n.next, n.prev, n.children>>
    /\ IsPrefix(l.entries, n.entries)

\* garry_load_node on a page that was cut short gives the beginning of the node.
LEMMA PartlyMeansBeginning ==
    ASSUME NodesInBounds, MetadataFits, NEW p, NEW r, NEW n, SoundPage(p, r), Partly(p, r, n)
    PROVE  BeginningOf(LoadNode(p), n)
<1>1. CASE Stored(p, r, n)
  <2>1. LoadNode(p) = n
    BY <1>1, StoredMeansLoads
  <2>2. \E S : n.entries \in Seq(S)
    <3>1. CASE n \in Nodes
      <4>1. BoundedNode(n)
        BY <3>1, NodeBounded
      <4>2. n.entries \in Seq(Entries)
        BY <4>1 DEF BoundedNode
      <4> QED BY <4>2
    <3>2. CASE n = EmptyLeaf
      <4>1. n.entries = <<>>
        BY <3>2 DEF EmptyLeaf
      <4>2. n.entries \in Seq({})
        BY <4>1
      <4> QED BY <4>2
    <3> QED BY <1>1, <3>1, <3>2 DEF Stored
  <2>3. IsPrefix(n.entries, n.entries)
    BY <2>2 DEF IsPrefix
  <2> QED BY <2>1, <2>3 DEF BeginningOf
<1>2. CASE n \in Nodes /\ p.kind = n.kind /\ (MetadataFits => Begins(r, n))
  <2>1. HoldsRecords(p, r) /\ Begins(r, n) /\ BoundedNode(n)
    BY <1>2, NodeBounded DEF SoundPage, HoldsRecords
  <2> DEFINE E == n.entries
             k == Len(r) - 1
             l == LoadNode(p)
             s == [i \in 1 .. k |-> E[i]]
  <2>2. l = [kind |-> n.kind, next |-> n.next, prev |-> n.prev,
             children |-> n.children, entries |-> s]
    BY <1>2, <2>1, PartLoads
  <2>3. E \in Seq(Entries) /\ Len(E) \in Nat /\ k \in Nat /\ k <= Len(E)
    <3>1. E \in Seq(Entries)
      BY <2>1 DEF BoundedNode
    <3>2. Len(r) \in Nat /\ Len(r) >= 1 /\ Len(r) <= Len(E) + 1
      BY <2>1, RecordsOfNode DEF Begins
    <3> QED BY <3>1, <3>2
  <2> HIDE DEF k, l, E
  <2>4. IsPrefix(s, E)
    <3>1. s \in Seq(Entries) /\ Len(s) = k
      BY <2>3
    <3>2. SubSeq(s, 1, k) = s
      BY <3>1, SubSeqFull
    <3>3. SubSeq(E, 1, k) = s
      BY <2>3
    <3> QED BY <2>3, <3>1, <3>2, <3>3 DEF IsPrefix
  <2> HIDE DEF s
  <2>5. l.kind = n.kind /\ l.next = n.next /\ l.prev = n.prev /\ l.children = n.children
        /\ l.entries = s
    BY <2>2
  <2> QED BY <2>4, <2>5 DEF BeginningOf, l, E
<1> QED BY <1>1, <1>2 DEF Partly

\* A node that was stored in full is read back as it was stored: metadata,
\* children, keys and chain ids, through the encoder, the slots of the page,
\* an eviction and the decoder, for every page size and every node within the
\* format's bounds.
THEOREM NodesLoad == ASSUME NodesInBounds PROVE NodeSpec => []StoredNodeLoads
<1>1. NInit => NodeInv
  BY NodeInvInit
<1>2. NodeInv /\ [NNext]_nodeVars => NodeInv'
  BY NodeInvStep
<1>3. NodeInv => StoredNodeLoads
  BY StoredMeansLoads DEF NodeInv, StoredNodeLoads
<1> QED BY <1>1, <1>2, <1>3, PTL DEF NodeSpec

\* A page holds the metadata and the first entries of one node, the one last
\* stored or the one that was in the file, whatever stores ran out of room and
\* whenever the page was marked dirty and evicted.
THEOREM PagesLoadOneNode ==
    ASSUME NodesInBounds, MetadataFits
    PROVE  NodeSpec => []OneNodeLoads
<1>1. NInit => NodeInv
  BY NodeInvInit
<1>2. NodeInv /\ [NNext]_nodeVars => NodeInv'
  BY NodeInvStep
<1>3. NodeInv => OneNodeLoads
  <2> SUFFICES ASSUME NodeInv, ~ storing PROVE
               held \in {node, disk.node} /\ BeginningOf(LoadNode(page), held)
    BY Zenon DEF OneNodeLoads, BeginningOf
  <2>1. held \in {node, disk.node} /\ Partly(page, recs, held) /\ SoundPage(page, recs)
    BY DEF NodeInv
  <2> QED BY <2>1, PartlyMeansBeginning
<1> QED BY <1>1, <1>2, <1>3, PTL DEF NodeSpec
==============================================================================
