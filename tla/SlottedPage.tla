----------------------------- MODULE SlottedPage -----------------------------
(***************************************************************************)
(* The slotted page of src/slotted_page.c: a header of HeaderSize bytes, a  *)
(* slot directory that grows upwards behind it, and records that grow       *)
(* downwards from the end of the page.  Tree nodes and version chains are   *)
(* laid out this way.                                                       *)
(*                                                                          *)
(* The counters of the header and the slot directory are fields of their    *)
(* own; bytes is the page as the records see it.  A record copied over the  *)
(* directory, or a slot written over a record, shows as a violation of      *)
(* PageSound, which says where each of the two ends.                        *)
(***************************************************************************)
EXTENDS Integers, Sequences

CONSTANTS PageSize,    \* bytes of a page
          HeaderSize,  \* GARRY_PAGE_HEADER_SIZE, 32
          SlotSize,    \* GARRY_SLOT_SIZE, 4
          MaxSlots,    \* GARRY_MAX_SLOTS, 128
          Byte         \* the values of a byte

Word == 65536          \* a slot keeps its offset and its length in 16 bits each

ASSUME PageAssumption ==
    /\ HeaderSize \in Nat \ {0}
    /\ SlotSize \in Nat \ {0}
    /\ MaxSlots \in Nat
    /\ PageSize \in HeaderSize .. Word
    /\ 0 \in Byte

VARIABLES page,  \* the page in its buffer
          recs   \* history: the records inserted since the page was initialised

pageVars == <<page, recs>>

(* No caller inserts an empty record: a node's metadata, an encoded entry and
   a version header all have at least one byte. *)
Records == {d \in Seq(Byte) : d # <<>>}

Slot == [offset : 0 .. Word - 1, length : 0 .. Word - 1]

Kinds == {"leaf", "internal", "chain", "overflow"}

Page == [kind : Kinds, count : Nat, freeStart : Nat, freeEnd : Nat,
         slots : [0 .. MaxSlots - 1 -> Slot],
         bytes : [0 .. PageSize - 1 -> Byte]]

(* garry_page_init: the page zeroed, its kind, no record, everything behind
   the header free. *)
FreshPage(kind) ==
    [kind |-> kind, count |-> 0, freeStart |-> HeaderSize, freeEnd |-> PageSize,
     slots |-> [i \in 0 .. MaxSlots - 1 |-> [offset |-> 0, length |-> 0]],
     bytes |-> [i \in 0 .. PageSize - 1 |-> 0]]

(* Variant: the room the new slot takes is forgotten. *)
FitsWithoutSlot(p, dlen) ==
    /\ p.count < MaxSlots
    /\ p.freeEnd - dlen >= HeaderSize
    /\ p.freeEnd - p.freeStart >= dlen

(* The five checks of garry_page_insert, in its order. *)
Fits(p, dlen) ==
    /\ p.count < MaxSlots
    /\ p.freeStart + SlotSize <= p.freeEnd
    /\ p.freeEnd - dlen >= HeaderSize
    /\ p.freeEnd - p.freeStart >= dlen + SlotSize
    /\ p.freeEnd - dlen >= p.freeStart + SlotSize

(* garry_write_slot: both fields are cut to 16 bits. *)
WrittenSlot(offset, length) == [offset |-> offset % Word, length |-> length % Word]

(* garry_copy_bytes_in *)
CopiedIn(bytes, offset, data) ==
    [i \in 0 .. PageSize - 1 |->
        IF i \in offset .. offset + Len(data) - 1 THEN data[i - offset + 1]
                                                  ELSE bytes[i]]

(* garry_page_insert on a page with room: the slot, the counters, the data. *)
PageInsert(p, data) ==
    LET end == p.freeEnd - Len(data) IN
    [p EXCEPT !.slots[p.count] = WrittenSlot(end, Len(data)),
              !.freeStart = @ + SlotSize,
              !.count = @ + 1,
              !.freeEnd = end,
              !.bytes = CopiedIn(@, end, data)]

(* garry_page_get; -1 is the empty sequence, which every caller treats the
   same way. *)
PageGet(p, idx) ==
    IF idx \in 0 .. p.count - 1 /\ p.slots[idx].length <= PageSize - HeaderSize
    THEN LET s == p.slots[idx] IN
         [i \in 1 .. s.length |-> p.bytes[s.offset + i - 1]]
    ELSE <<>>

------------------------------------------------------------------------------
PageStart == page \in {FreshPage(k) : k \in Kinds} /\ recs = <<>>

(* garry_page_init on a page that was in use: a node that is stored again, a
   chain that is rebuilt by pruning. *)
Reinit(kind) == page' = FreshPage(kind) /\ recs' = <<>>

(* garry_page_insert with room for the record; without it nothing changes. *)
InsertRecord(data) ==
    /\ Fits(page, Len(data))
    /\ page' = PageInsert(page, data)
    /\ recs' = Append(recs, data)

PageNext ==
    \/ \E kind \in Kinds : Reinit(kind)
    \/ \E data \in Records : InsertRecord(data)

PageSpec == PageStart /\ [][PageNext]_pageVars

------------------------------------------------------------------------------
PageTypeOK == page \in Page /\ recs \in Seq(Records)

(* The directory stays below the records: it ends at freeStart, which never
   passes freeEnd; every record lies between freeEnd and the end of the page,
   and no two records overlap. *)
PageSound ==
    /\ page.count = Len(recs)
    /\ page.freeStart = HeaderSize + SlotSize * page.count
    /\ page.freeStart <= page.freeEnd
    /\ page.freeEnd <= PageSize
    /\ \A i \in 0 .. page.count - 1 :
          /\ page.freeEnd <= page.slots[i].offset
          /\ page.slots[i].offset + page.slots[i].length <= PageSize
    /\ \A i, j \in 0 .. page.count - 1 :
          i < j => page.slots[j].offset + page.slots[j].length
                       <= page.slots[i].offset

(* Every record that garry_page_insert accepted is returned unchanged by
   garry_page_get, whatever was inserted after it. *)
RecordsKept ==
    \A i \in 0 .. page.count - 1 : PageGet(page, i) = recs[i + 1]
==============================================================================
