----------------------------- MODULE BufferPool -----------------------------
(***************************************************************************)
(* The page cache (src/src/buffer_pool.c): slots with pin counts and dirty *)
(* flags, eviction of the least recently used unpinned slot, and the free  *)
(* list of pages, linked through the pages themselves.  Every operation    *)
(* runs under slot_locks[0] and is one step; what the callers do with the  *)
(* buffer between pin and release is not protected by it.                  *)
(*                                                                         *)
(* The callers are threads that pin a page, perhaps write it and mark it   *)
(* dirty, and release it, as the B-tree and the version chains do.  A call *)
(* that fails and changes nothing is no step.  io tells whether the write  *)
(* to the file that an operation makes succeeds.                           *)
(***************************************************************************)
EXTENDS Integers, FiniteSets

CONSTANTS Threads,
          Data,        \* what a caller writes on a page
          Capacity,    \* number of slots
          MaxPage,     \* bound: pages ever used
          MaxFrees     \* bound: pages ever freed

ASSUME PoolAssumption ==
  /\ Capacity \in Nat \ {0}
  /\ MaxPage \in Nat
  /\ MaxFrees \in Nat
  /\ IsFiniteSet(Threads)

VARIABLES slots,            \* loaded, page_ids, pin_counts, dirty, pages
          age,              \* the rank of each slot by last_access, 1 the oldest
          file,             \* the pages in the database file
          next_page,
          free_list_head,
          hold,             \* the buffer each thread has pinned
          inUse,            \* history: pages handed out and not freed
          freed,            \* history: pages ever freed
          truth             \* history: what was last written on each page in use

poolVars == <<slots, age, file, next_page, free_list_head, hold, inUse, freed, truth>>

NoPage == 0     \* the code's -1
NoSlot == 0
Pages  == 1 .. MaxPage
Slots  == 1 .. Capacity

Zero    == [tag |-> "zero"]
Of(d)   == [tag |-> "data", data |-> d]
Link(p) == [tag |-> "free", next |-> p]
Unset   == [tag |-> "unset"]      \* in truth: nothing written since the allocation

NoHold == [page |-> NoPage, slot |-> NoSlot, wrote |-> FALSE]

EmptySlot == [loaded |-> FALSE, page |-> NoPage, pin |-> 0, dirty |-> FALSE, data |-> Zero]

Filled(p, c) == [loaded |-> TRUE, page |-> p, pin |-> 0, dirty |-> FALSE, data |-> c]

PInit ==
  /\ slots = [s \in Slots |-> EmptySlot]
  /\ age = [s \in Slots |-> s]
  /\ file = [p \in Pages |-> Zero]
  /\ next_page = 1
  /\ free_list_head = NoPage
  /\ hold = [t \in Threads |-> NoHold]
  /\ inUse = {}
  /\ freed = {}
  /\ truth = [p \in Pages |-> Unset]

-----------------------------------------------------------------------------
(* Finding and filling slots.  pl is a record of slots, age and file. *)

Pool == [slots |-> slots, age |-> age, file |-> file]

Lowest(S) == CHOOSE s \in S : \A r \in S : s <= r

\* find_slot
FindSlot(ss, p) ==
  LET S == {s \in Slots : ss[s].loaded /\ ss[s].page = p}
  IN  IF S = {} THEN NoSlot ELSE Lowest(S)

\* The slot of S that was accessed least recently.
Oldest(pl, S) == CHOOSE s \in S : \A r \in S : pl.age[s] <= pl.age[r]

\* Variant: pins are not looked at.
VictimIgnoringPins(pl) ==
  LET empty == {s \in Slots : ~ pl.slots[s].loaded}
  IN  IF empty # {} THEN Lowest(empty) ELSE Oldest(pl, Slots)

\* find_eviction_candidate: an empty slot, else the oldest that is not pinned.
Victim(pl) ==
  LET empty    == {s \in Slots : ~ pl.slots[s].loaded}
      unpinned == {s \in Slots : pl.slots[s].pin = 0}
  IN  IF empty # {} THEN Lowest(empty)
      ELSE IF unpinned = {} THEN NoSlot
      ELSE Oldest(pl, unpinned)

\* access_counter++ and its assignment to last_access
Touch(ages, s) ==
  [r \in Slots |-> IF r = s THEN Capacity
                   ELSE IF ages[r] > ages[s] THEN ages[r] - 1 ELSE ages[r]]

\* Variant: the page is never written.
WriteBackNothing(pl, v) == pl.file

\* The file once a dirty slot is written.
WriteBack(pl, v) ==
  IF pl.slots[v].dirty THEN [pl.file EXCEPT ![pl.slots[v].page] = pl.slots[v].data]
  ELSE pl.file

\* A victim there is, and what it holds can be written.
CanEvict(pl, io) ==
  /\ Victim(pl) # NoSlot
  /\ pl.slots[Victim(pl)].dirty => io

\* The victim taken for page p with content c.
Refilled(pl, p, c) ==
  LET v == Victim(pl)
  IN  [slots |-> [pl.slots EXCEPT ![v] = Filled(p, c)],
       age   |-> Touch(pl.age, v),
       file  |-> WriteBack(pl, v)]

\* ensure_loaded, when it succeeds
Loads(pl, p, io) == FindSlot(pl.slots, p) # NoSlot \/ CanEvict(pl, io)

Loaded(pl, p) ==
  IF FindSlot(pl.slots, p) # NoSlot THEN pl
  ELSE Refilled(pl, p, WriteBack(pl, Victim(pl))[p])

-----------------------------------------------------------------------------
\* The slot of a page in pl is pinned and handed to t.
TakePin(t, p, pl) ==
  LET s == FindSlot(pl.slots, p)
  IN  /\ slots' = [pl.slots EXCEPT ![s].pin = @ + 1]
      /\ age' = Touch(pl.age, s)
      /\ file' = pl.file
      /\ hold' = [hold EXCEPT ![t] = [page |-> p, slot |-> s, wrote |-> FALSE]]
      /\ UNCHANGED <<next_page, free_list_head, inUse, freed, truth>>

\* garry_pool_pin_page
Pin(t, p, io) ==
  /\ hold[t] = NoHold
  /\ p \in inUse
  /\ Loads(Pool, p, io)
  /\ TakePin(t, p, Loaded(Pool, p))

\* garry_pool_try_pin
TryPin(t, p) ==
  /\ hold[t] = NoHold
  /\ p \in inUse
  /\ FindSlot(slots, p) # NoSlot
  /\ TakePin(t, p, Pool)

\* The caller writes through the pointer it got.
Write(t, d) ==
  /\ hold[t] # NoHold
  /\ slots' = [slots EXCEPT ![hold[t].slot].data = Of(d)]
  /\ truth' = [truth EXCEPT ![hold[t].page] = Of(d)]
  /\ hold' = [hold EXCEPT ![t].wrote = TRUE]
  /\ UNCHANGED <<age, file, next_page, free_list_head, inUse, freed>>

\* garry_pool_mark_dirty
MarkDirty(t) ==
  LET s == FindSlot(slots, hold[t].page)
  IN  /\ hold[t].wrote
      /\ slots' = IF s # NoSlot THEN [slots EXCEPT ![s].dirty = TRUE] ELSE slots
      /\ hold' = [hold EXCEPT ![t].wrote = FALSE]
      /\ UNCHANGED <<age, file, next_page, free_list_head, inUse, freed, truth>>

\* garry_pool_release_page, by a caller that marked what it wrote
Release(t) ==
  LET s == FindSlot(slots, hold[t].page)
  IN  /\ hold[t] # NoHold
      /\ ~ hold[t].wrote
      /\ slots' = IF s # NoSlot /\ slots[s].pin > 0 THEN [slots EXCEPT ![s].pin = @ - 1]
                  ELSE slots
      /\ hold' = [hold EXCEPT ![t] = NoHold]
      /\ UNCHANGED <<age, file, next_page, free_list_head, inUse, freed, truth>>

-----------------------------------------------------------------------------
\* Variant: the next page of the list is not read.
AfterHeadSame(p) == p

\* The list behind its head p: known only if the page is in the pool.
AfterHead(p) ==
  LET s == FindSlot(slots, p)
  IN  IF s = NoSlot THEN NoPage
      ELSE IF slots[s].data.tag = "free" THEN slots[s].data.next
      ELSE 1     \* the first bytes of a page that is no link

\* garry_pool_allocate's page p in the victim's slot, zeroed
Place(p) ==
  /\ slots' = Refilled(Pool, p, Zero).slots
  /\ age' = Refilled(Pool, p, Zero).age
  /\ file' = Refilled(Pool, p, Zero).file
  /\ inUse' = inUse \union {p}
  /\ truth' = [truth EXCEPT ![p] = Unset]

\* garry_pool_allocate from the free list: the head is taken off before a slot
\* is found, and stays off when none is.
AllocateFree(io) ==
  /\ free_list_head # NoPage
  /\ free_list_head' = AfterHead(free_list_head)
  /\ IF CanEvict(Pool, io) THEN Place(free_list_head)
     ELSE UNCHANGED <<slots, age, file, inUse, truth>>
  /\ UNCHANGED <<next_page, hold, freed>>

\* garry_pool_allocate with an empty free list
AllocateNew(io) ==
  /\ free_list_head = NoPage
  /\ next_page <= MaxPage
  /\ CanEvict(Pool, io)
  /\ Place(next_page)
  /\ next_page' = next_page + 1
  /\ UNCHANGED <<free_list_head, hold, freed>>

(***************************************************************************)
(* garry_pool_free_page of a page nobody has pinned: write it if dirty     *)
(* (a failure is ignored), drop it, load it again and put the link on it.  *)
(***************************************************************************)
FreePage(p, io) ==
  LET s   == FindSlot(slots, p)
      out == IF s = NoSlot THEN Pool
             ELSE [Pool EXCEPT !.slots[s] = [@ EXCEPT !.loaded = FALSE, !.pin = 0, !.dirty = FALSE],
                               !.file = IF io THEN WriteBack(Pool, s) ELSE file]
      pl  == IF Loads(out, p, io) THEN Loaded(out, p) ELSE out
      r   == FindSlot(pl.slots, p)
  IN  /\ Cardinality(freed \union {p}) <= MaxFrees
      /\ p \in inUse
      /\ \A t \in Threads : hold[t].page # p
      /\ slots' = IF r = NoSlot THEN pl.slots
                  ELSE [pl.slots EXCEPT ![r].data = Link(free_list_head), ![r].dirty = TRUE]
      /\ age' = pl.age
      /\ file' = pl.file
      /\ free_list_head' = p
      /\ inUse' = inUse \ {p}
      /\ freed' = freed \union {p}
      /\ truth' = [truth EXCEPT ![p] = Unset]
      /\ UNCHANGED <<next_page, hold>>

-----------------------------------------------------------------------------
\* The file once the dirty slots of S are written, in slot order.
Written(S) ==
  [p \in Pages |->
     LET D == {s \in S : slots[s].dirty /\ slots[s].page = p}
     IN  IF D = {} THEN file[p] ELSE slots[CHOOSE s \in D : \A r \in D : r <= s].data]

\* Those slots are clean then.
Flush(S) ==
  /\ file' = Written(S)
  /\ slots' = [s \in Slots |-> IF s \in S THEN [slots[s] EXCEPT !.dirty = FALSE] ELSE slots[s]]

\* garry_pool_flush_page
FlushPage(p) ==
  /\ FindSlot(slots, p) # NoSlot
  /\ Flush({FindSlot(slots, p)})
  /\ UNCHANGED <<age, next_page, free_list_head, hold, inUse, freed, truth>>

\* garry_pool_flush_all: slot after slot up to n, behind which a write fails.
FlushAll(n) ==
  /\ Flush(1 .. n)
  /\ UNCHANGED <<age, next_page, free_list_head, hold, inUse, freed, truth>>

\* garry_pool_close, then garry_pool_create and what garry_engine_open restores.
\* A write that fails is not reported: nothing is promised about its page then.
Close(failed) ==
  /\ \A t \in Threads : hold[t] = NoHold
  /\ failed \subseteq {s \in Slots : slots[s].dirty}
  /\ file' = Written(Slots \ failed)
  /\ truth' = [p \in Pages |-> IF \E s \in failed : slots[s].page = p THEN Unset ELSE truth[p]]
  /\ slots' = [s \in Slots |-> EmptySlot]
  /\ age' = [s \in Slots |-> s]
  /\ UNCHANGED <<next_page, free_list_head, hold, inUse, freed>>

PNext ==
  \/ \E t \in Threads :
        \/ \E p \in Pages : (\E io \in BOOLEAN : Pin(t, p, io)) \/ TryPin(t, p)
        \/ \E d \in Data : Write(t, d)
        \/ MarkDirty(t)
        \/ Release(t)
  \/ \E io \in BOOLEAN :
        AllocateFree(io) \/ AllocateNew(io) \/ \E p \in Pages : FreePage(p, io)
  \/ \E p \in Pages : FlushPage(p)
  \/ \E n \in Slots : FlushAll(n)
  \/ \E failed \in SUBSET Slots : Close(failed)

PSpec == PInit /\ [][PNext]_poolVars

-----------------------------------------------------------------------------
Contents == {Zero} \union {Of(d) : d \in Data} \union {Link(p) : p \in Pages \union {NoPage}}

SlotType ==
  [loaded : BOOLEAN, page : Pages \union {NoPage}, pin : Nat, dirty : BOOLEAN, data : Contents]

HoldType == [page : Pages \union {NoPage}, slot : Slots \union {NoSlot}, wrote : BOOLEAN]

\* Types of the pool's state.
PTypeOK ==
  /\ slots \in [Slots -> SlotType]
  /\ age \in [Slots -> Slots]
  /\ file \in [Pages -> Contents]
  /\ next_page \in 1 .. MaxPage + 1
  /\ free_list_head \in Pages \union {NoPage}
  /\ hold \in [Threads -> HoldType]
  /\ inUse \subseteq Pages
  /\ freed \subseteq Pages
  /\ truth \in [Pages -> Contents \union {Unset}]

\* The buffer a caller got from pin keeps holding that page until it releases
\* it, whatever the others pin, allocate, free and flush meanwhile; a release
\* reaches the pin it is for, so that no slot stays pinned for nobody.
PinsHold ==
  /\ \A t \in Threads : hold[t] # NoHold =>
        /\ slots[hold[t].slot].loaded
        /\ slots[hold[t].slot].page = hold[t].page
  /\ \A s \in Slots : slots[s].pin = Cardinality({t \in Threads : hold[t].slot = s})

\* The page the free list gives out next is in nobody's use, and if it is in
\* the pool what is read there is a link.
FreeListSound ==
  LET s == FindSlot(slots, free_list_head)
  IN  free_list_head # NoPage =>
        /\ free_list_head \notin inUse
        /\ s # NoSlot => slots[s].data.tag = "free"

\* What a pin of the page shows: the slot or, if there is none, the file.
Shown(p) == IF FindSlot(slots, p) = NoSlot THEN file[p] ELSE slots[FindSlot(slots, p)].data

\* A page that was never freed shows what was last written on it, although it
\* was evicted, flushed and loaded again in between, writes to the file failed
\* and other pages were freed and given out again.
PoolCoherent == \A p \in inUse \ freed : truth[p] # Unset => Shown(p) = truth[p]

\* So does a page that was freed and given out again (garry_pool_allocate).
ReuseCoherent == \A p \in inUse : truth[p] # Unset => Shown(p) = truth[p]
=============================================================================
