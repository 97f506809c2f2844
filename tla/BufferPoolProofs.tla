-------------------------- MODULE BufferPoolProofs --------------------------
(***************************************************************************)
(* Theorems about BufferPool, for every number of slots, pages and         *)
(* threads, frees and reuse included: the buffers callers have pinned stay *)
(* theirs, every page that was never freed shows what was last written on  *)
(* it, and the free list gives out no page that is in use.                 *)
(***************************************************************************)
EXTENDS BufferPool, FiniteSetTheorems, WellFoundedInduction, TLAPS

-----------------------------------------------------------------------------
(* Finding slots. *)

\* A set of numbers that is not empty has a least one.
LEMMA LeastNat ==
  ASSUME NEW T \in SUBSET Nat, T # {}
  PROVE  \E x \in T : \A y \in T : x <= y
<1>1. PICK x \in T : \A y \in T : ~ (<<y, x>> \in OpToRel(<, Nat))
  BY NatLessThanWellFounded, WFMin
<1>2. \A y \in T : ~ (y < x)
  BY <1>1 DEF OpToRel
<1> QED BY <1>2

\* Slots are numbers from 1 to the capacity.
LEMMA SlotsNat ==
  /\ Slots \subseteq Nat /\ NoSlot \notin Slots /\ Capacity \in Slots
  /\ \A i, j \in Slots : i > j => i - 1 \in Slots
BY PoolAssumption DEF Slots, NoSlot

\* The lowest of some slots is one of them.
LEMMA LowestIn ==
  ASSUME NEW S \in SUBSET Slots, S # {}
  PROVE  Lowest(S) \in S /\ \A r \in S : Lowest(S) <= r
<1>1. S \in SUBSET Nat
  BY SlotsNat
<1>2. \E s \in S : \A r \in S : s <= r
  BY <1>1, LeastNat
<1> QED BY <1>2 DEF Lowest

\* A set of slots that is not empty has a highest one.
LEMMA GreatestSlot ==
  ASSUME NEW S \in SUBSET Slots, S # {}
  PROVE  \E s \in S : \A r \in S : r <= s
<1> DEFINE T == {Capacity - s : s \in S}
<1>1. \A s \in S : s \in Nat /\ Capacity - s \in Nat
  BY PoolAssumption DEF Slots
<1>2. T \in SUBSET Nat /\ T # {}
  BY <1>1
<1>3. PICK x \in T : \A y \in T : x <= y
  BY <1>2, LeastNat
<1>4. PICK s \in S : Capacity - s = x
  BY <1>3
<1>5. \A r \in S : Capacity - s <= Capacity - r
  BY <1>3, <1>4
<1> QED BY <1>1, <1>5, PoolAssumption

\* The least recently used of some slots is one of them.
LEMMA OldestIn ==
  ASSUME NEW pl, pl.age \in [Slots -> Slots], NEW S \in SUBSET Slots, S # {}
  PROVE  Oldest(pl, S) \in S
<1> DEFINE T == {pl.age[s] : s \in S}
<1>1. T \in SUBSET Nat /\ T # {}
  <2>1. \A s \in S : pl.age[s] \in Nat
    BY SlotsNat
  <2> QED BY <2>1
<1>2. PICK x \in T : \A y \in T : x <= y
  BY <1>1, LeastNat
<1>3. PICK s \in S : pl.age[s] = x
  BY <1>2
<1>4. \A r \in S : pl.age[s] <= pl.age[r]
  BY <1>2, <1>3
<1> QED BY <1>4 DEF Oldest

\* find_slot finds a slot that holds the page, if there is one.
LEMMA FindSlotIs ==
  ASSUME NEW ss, NEW p
  PROVE  /\ FindSlot(ss, p) = NoSlot => \A s \in Slots : ~ (ss[s].loaded /\ ss[s].page = p)
         /\ FindSlot(ss, p) # NoSlot => /\ FindSlot(ss, p) \in Slots
                                        /\ ss[FindSlot(ss, p)].loaded
                                        /\ ss[FindSlot(ss, p)].page = p
         /\ (\E s \in Slots : ss[s].loaded /\ ss[s].page = p) => FindSlot(ss, p) # NoSlot
<1> DEFINE S == {s \in Slots : ss[s].loaded /\ ss[s].page = p}
<1>1. NoSlot \notin Slots
  BY DEF NoSlot, Slots
<1>2. CASE S = {}
  BY <1>2 DEF FindSlot
<1>3. CASE S # {}
  <2>1. Lowest(S) \in S
    BY <1>3, LowestIn
  <2>2. FindSlot(ss, p) = Lowest(S)
    BY <1>3 DEF FindSlot
  <2> QED BY <2>1, <2>2, <1>1
<1> QED BY <1>2, <1>3

\* The slot it finds is the first of the page.
LEMMA FindSlotFirst ==
  ASSUME NEW ss, NEW p
  PROVE  \A r \in Slots : ss[r].loaded /\ ss[r].page = p => FindSlot(ss, p) <= r
<1> DEFINE S == {s \in Slots : ss[s].loaded /\ ss[s].page = p}
<1>1. CASE S = {}
  BY <1>1
<1>2. CASE S # {}
  <2>1. \A r \in S : Lowest(S) <= r
    BY <1>2, LowestIn
  <2> QED BY <1>2, <2>1 DEF FindSlot
<1> QED BY <1>1, <1>2

\* The pool as the record that loading works on.
PoolType == [slots : [Slots -> SlotType], age : [Slots -> Slots], file : [Pages -> Contents]]

\* find_eviction_candidate never returns a slot that is loaded and pinned.
LEMMA VictimIs ==
  ASSUME NEW pl \in PoolType, Victim(pl) # NoSlot
  PROVE  /\ Victim(pl) \in Slots
         /\ pl.slots[Victim(pl)].loaded => pl.slots[Victim(pl)].pin = 0
<1> DEFINE empty    == {s \in Slots : ~ pl.slots[s].loaded}
           unpinned == {s \in Slots : pl.slots[s].pin = 0}
<1>1. CASE empty # {}
  <2>1. Lowest(empty) \in empty
    BY <1>1, LowestIn
  <2>2. Victim(pl) = Lowest(empty)
    BY <1>1 DEF Victim
  <2> QED BY <2>1, <2>2
<1>2. CASE empty = {}
  <2>1. unpinned # {} /\ Victim(pl) = Oldest(pl, unpinned)
    BY <1>2 DEF Victim
  <2>2. Oldest(pl, unpinned) \in unpinned
    BY <2>1, OldestIn DEF PoolType
  <2> QED BY <2>1, <2>2
<1> QED BY <1>1, <1>2

\* An access keeps the ranks in range.
LEMMA TouchType ==
  ASSUME NEW ages \in [Slots -> Slots], NEW s \in Slots
  PROVE  Touch(ages, s) \in [Slots -> Slots]
<1>1. \A r \in Slots : ages[r] \in Slots
  OBVIOUS
<1> QED BY <1>1, SlotsNat DEF Touch

\* Taking the victim for a page keeps the types.
LEMMA RefilledType ==
  ASSUME NEW pl \in PoolType, Victim(pl) # NoSlot, NEW p \in Pages, NEW c \in Contents
  PROVE  Refilled(pl, p, c) \in PoolType
<1> DEFINE v == Victim(pl)
<1>1. v \in Slots
  BY VictimIs
<1>2. Filled(p, c) \in SlotType
  BY DEF Filled, SlotType
<1>3. [pl.slots EXCEPT ![v] = Filled(p, c)] \in [Slots -> SlotType]
  BY <1>1, <1>2 DEF PoolType
<1>4. Touch(pl.age, v) \in [Slots -> Slots]
  BY <1>1, TouchType DEF PoolType
<1>5. WriteBack(pl, v) \in [Pages -> Contents]
  BY <1>1 DEF PoolType, WriteBack, SlotType
<1> QED BY <1>3, <1>4, <1>5 DEF Refilled, PoolType

\* What allocation and callers put on a page is a content.
LEMMA ContentsHas == Zero \in Contents /\ \A d \in Data : Of(d) \in Contents
BY DEF Contents

\* ensure_loaded keeps the types and finds the page a slot.
LEMMA LoadedIs ==
  ASSUME NEW pl \in PoolType, NEW p \in Pages, NEW io, Loads(pl, p, io)
  PROVE  /\ Loaded(pl, p) \in PoolType
         /\ FindSlot(Loaded(pl, p).slots, p) # NoSlot
<1>1. CASE FindSlot(pl.slots, p) # NoSlot
  BY <1>1 DEF Loaded
<1>2. CASE FindSlot(pl.slots, p) = NoSlot
  <2> DEFINE v == Victim(pl)
             c == WriteBack(pl, v)[p]
  <2>1. v # NoSlot /\ v \in Slots
    BY <1>2, VictimIs DEF Loads, CanEvict
  <2>2. c \in Contents
    BY <2>1 DEF PoolType, WriteBack, SlotType
  <2>3. Loaded(pl, p) = Refilled(pl, p, c)
    BY <1>2 DEF Loaded
  <2>4. Loaded(pl, p).slots = [pl.slots EXCEPT ![v] = Filled(p, c)]
    BY <2>3 DEF Refilled
  <2>5. Loaded(pl, p).slots[v].loaded /\ Loaded(pl, p).slots[v].page = p
    BY <2>4, <2>1 DEF PoolType, Filled
  <2> QED BY <2>1, <2>2, <2>3, <2>5, RefilledType, FindSlotIs
<1> QED BY <1>1, <1>2

-----------------------------------------------------------------------------
(* Types. *)

\* The types of the variables are those of the record.
LEMMA PoolTyped == PTypeOK => Pool \in PoolType
BY DEF PTypeOK, Pool, PoolType

\* A new pool is well typed.
LEMMA InitTyped == PInit => PTypeOK
<1> SUFFICES ASSUME PInit PROVE PTypeOK
  OBVIOUS
<1>1. EmptySlot \in SlotType
  BY ContentsHas DEF EmptySlot, SlotType
<1>2. NoHold \in HoldType
  BY DEF NoHold, HoldType
<1>3. next_page \in 1 .. MaxPage + 1
  BY PoolAssumption DEF PInit
<1> QED BY <1>1, <1>2, <1>3, ContentsHas DEF PInit, PTypeOK

\* Pinning a page of a pool of the right type.
LEMMA TakePinTyped ==
  ASSUME PTypeOK, NEW t \in Threads, NEW p \in Pages, NEW pl \in PoolType,
         FindSlot(pl.slots, p) # NoSlot, TakePin(t, p, pl)
  PROVE  PTypeOK'
<1> DEFINE s == FindSlot(pl.slots, p)
<1>1. s \in Slots
  BY FindSlotIs
<1>2. slots' \in [Slots -> SlotType]
  BY <1>1 DEF TakePin, PoolType, SlotType
<1>3. age' \in [Slots -> Slots]
  BY <1>1, TouchType DEF TakePin, PoolType
<1>4. hold' \in [Threads -> HoldType]
  BY <1>1 DEF TakePin, HoldType, PTypeOK
<1>5. file' \in [Pages -> Contents]
  BY DEF TakePin, PoolType
<1> QED BY <1>2, <1>3, <1>4, <1>5 DEF TakePin, PTypeOK

\* garry_pool_allocate's page in the victim's slot keeps the types.
LEMMA PlaceTyped ==
  ASSUME PTypeOK, NEW p \in Pages, NEW io, CanEvict(Pool, io), Place(p)
  PROVE  /\ slots' \in [Slots -> SlotType]
         /\ age' \in [Slots -> Slots]
         /\ file' \in [Pages -> Contents]
         /\ inUse' \subseteq Pages
         /\ truth' \in [Pages -> Contents \union {Unset}]
<1>1. Refilled(Pool, p, Zero) \in PoolType
  BY PoolTyped, RefilledType, ContentsHas DEF CanEvict
<1> QED BY <1>1 DEF Place, PoolType, PTypeOK

\* Writing dirty slots to the file.
LEMMA WrittenTyped ==
  ASSUME PTypeOK, NEW S \in SUBSET Slots
  PROVE  Written(S) \in [Pages -> Contents]
<1> SUFFICES ASSUME NEW p \in Pages PROVE Written(S)[p] \in Contents
  BY DEF Written
<1> DEFINE D == {s \in S : slots[s].dirty /\ slots[s].page = p}
<1>1. CASE D = {}
  BY <1>1 DEF Written, PTypeOK
<1>2. CASE D # {}
  <2> DEFINE m == CHOOSE s \in D : \A r \in D : r <= s
  <2>1. \E s \in D : \A r \in D : r <= s
    BY <1>2, GreatestSlot
  <2>2. m \in D
    BY <2>1
  <2>3. Written(S)[p] = slots[m].data
    BY <1>2 DEF Written
  <2> QED BY <2>2, <2>3 DEF PTypeOK, SlotType
<1> QED BY <1>1, <1>2

\* A slot as garry_pool_free_page drops it, and as it puts the link on it.
Dropped(x) == [x EXCEPT !.loaded = FALSE, !.pin = 0, !.dirty = FALSE]
Linking(x, next) == [x EXCEPT !.data = Link(next), !.dirty = TRUE]

\* p is in a slot.
InSlot(ss, p) == \E s \in Slots : ss[s].loaded /\ ss[s].page = p

\* The stages of garry_pool_free_page: out, where the first slot of the page
\* is dropped; pl, where the page is in a slot again, if it can be; and the
\* link on that slot.
DropsPage(p, out) ==
  \/ ~ InSlot(slots, p) /\ out = Pool
  \/ \E s \in Slots : /\ slots[s].loaded /\ slots[s].page = p
                      /\ out.slots = [slots EXCEPT ![s] = Dropped(slots[s])]
                      /\ \A q \in Pages \ {p} : out.file[q] = file[q]

ReloadsPage(p, out, pl) ==
  \/ pl = out
  \/ /\ ~ InSlot(out.slots, p) /\ Victim(out) # NoSlot
     /\ \E c \in Contents : pl = Refilled(out, p, c)

LinksPage(p, pl) ==
  \/ ~ InSlot(pl.slots, p) /\ slots' = pl.slots
  \/ \E r \in Slots : /\ pl.slots[r].loaded /\ pl.slots[r].page = p
                      /\ slots' = [pl.slots EXCEPT ![r] = Linking(pl.slots[r], free_list_head)]

\* garry_pool_free_page goes through these stages.
LEMMA FreeSteps ==
  ASSUME PTypeOK, NEW p \in Pages, NEW io \in BOOLEAN, FreePage(p, io)
  PROVE  \E out \in PoolType, pl \in PoolType :
            /\ DropsPage(p, out) /\ ReloadsPage(p, out, pl) /\ LinksPage(p, pl)
            /\ age' = pl.age /\ file' = pl.file
<1> DEFINE s   == FindSlot(slots, p)
           out == IF s = NoSlot THEN Pool
                  ELSE [Pool EXCEPT !.slots[s] = [@ EXCEPT !.loaded = FALSE, !.pin = 0, !.dirty = FALSE],
                                    !.file = IF io THEN WriteBack(Pool, s) ELSE file]
           pl  == IF Loads(out, p, io) THEN Loaded(out, p) ELSE out
           r   == FindSlot(pl.slots, p)
<1>1. out \in PoolType /\ DropsPage(p, out)
  <2>1. CASE s = NoSlot
    <3>1. ~ InSlot(slots, p)
      BY <2>1, FindSlotIs DEF InSlot
    <3> QED BY <2>1, <3>1, PoolTyped DEF DropsPage
  <2>2. CASE s # NoSlot
    <3>1. s \in Slots /\ slots[s].loaded /\ slots[s].page = p
      BY <2>2, FindSlotIs
    <3>2. Dropped(slots[s]) \in SlotType
      <4>1. slots[s] \in SlotType
        BY <3>1 DEF PTypeOK
      <4> QED BY <4>1 DEF Dropped, SlotType
    <3>3. /\ WriteBack(Pool, s) \in [Pages -> Contents]
          /\ \A q \in Pages \ {p} : WriteBack(Pool, s)[q] = file[q]
      BY <3>1 DEF WriteBack, Pool, PTypeOK, SlotType
    <3>4. out = [slots |-> [slots EXCEPT ![s] = Dropped(slots[s])], age |-> age,
                 file |-> IF io THEN WriteBack(Pool, s) ELSE file]
      BY <2>2, <3>1 DEF Pool, PTypeOK, Dropped
    <3> HIDE DEF s, out
    <3>5. [slots EXCEPT ![s] = Dropped(slots[s])] \in [Slots -> SlotType]
      BY <3>1, <3>2 DEF PTypeOK
    <3>6. out \in PoolType
      BY <3>3, <3>4, <3>5 DEF PoolType, PTypeOK
    <3>7. /\ out.slots = [slots EXCEPT ![s] = Dropped(slots[s])]
          /\ \A q \in Pages \ {p} : out.file[q] = file[q]
      BY <3>3, <3>4
    <3> QED BY <3>1, <3>6, <3>7 DEF DropsPage
  <2> QED BY <2>1, <2>2
<1>2. /\ slots' = IF r = NoSlot THEN pl.slots
                  ELSE [pl.slots EXCEPT ![r].data = Link(free_list_head), ![r].dirty = TRUE]
      /\ age' = pl.age /\ file' = pl.file
  BY DEF FreePage
<1> HIDE DEF out
<1>3. pl \in PoolType /\ ReloadsPage(p, out, pl)
  <2>1. CASE Loads(out, p, io) /\ FindSlot(out.slots, p) = NoSlot
    <3> DEFINE v == Victim(out)
               c == WriteBack(out, v)[p]
    <3>1. v # NoSlot /\ v \in Slots
      BY <1>1, <2>1, VictimIs DEF Loads, CanEvict
    <3>2. c \in Contents
      BY <1>1, <3>1 DEF PoolType, WriteBack, SlotType
    <3>3. pl = Refilled(out, p, c)
      BY <2>1 DEF Loaded
    <3>4. ~ InSlot(out.slots, p)
      BY <2>1, FindSlotIs DEF InSlot
    <3> HIDE DEF pl, c
    <3> QED BY <1>1, <3>1, <3>2, <3>3, <3>4, RefilledType DEF ReloadsPage
  <2>2. CASE ~ (Loads(out, p, io) /\ FindSlot(out.slots, p) = NoSlot)
    BY <1>1, <2>2 DEF Loaded, ReloadsPage
  <2> QED BY <2>1, <2>2
<1> HIDE DEF pl
<1>4. LinksPage(p, pl)
  <2>1. CASE r = NoSlot
    BY <1>2, <2>1, FindSlotIs DEF LinksPage, InSlot
  <2>2. CASE r # NoSlot
    <3>1. r \in Slots /\ pl.slots[r].loaded /\ pl.slots[r].page = p
      BY <2>2, FindSlotIs
    <3> HIDE DEF r
    <3>2. slots' = [pl.slots EXCEPT ![r] = Linking(pl.slots[r], free_list_head)]
      BY <1>2, <1>3, <2>2, <3>1 DEF Linking, PoolType
    <3> QED BY <3>1, <3>2 DEF LinksPage
  <2> QED BY <2>1, <2>2
<1> QED BY <1>1, <1>2, <1>3, <1>4

\* garry_pool_free_page keeps the types.
LEMMA FreeTyped ==
  ASSUME PTypeOK, NEW p \in Pages, NEW io \in BOOLEAN, FreePage(p, io)
  PROVE  PTypeOK'
<1>1. PICK pl \in PoolType : LinksPage(p, pl) /\ age' = pl.age /\ file' = pl.file
  BY FreeSteps
<1>2. slots' \in [Slots -> SlotType]
  <2>1. pl.slots \in [Slots -> SlotType]
    BY DEF PoolType
  <2>2. ASSUME NEW r \in Slots PROVE Linking(pl.slots[r], free_list_head) \in SlotType
    <3>1. pl.slots[r] \in SlotType /\ Link(free_list_head) \in Contents
      BY <2>1 DEF PTypeOK, Contents
    <3> QED BY <3>1 DEF Linking, SlotType
  <2> QED BY <1>1, <2>1, <2>2 DEF LinksPage
<1>3. age' \in [Slots -> Slots] /\ file' \in [Pages -> Contents]
  BY <1>1 DEF PoolType
<1>4. /\ free_list_head' = p /\ inUse' = inUse \ {p} /\ freed' = freed \union {p}
      /\ truth' = [truth EXCEPT ![p] = Unset] /\ next_page' = next_page /\ hold' = hold
  BY DEF FreePage
<1> QED BY <1>2, <1>3, <1>4 DEF PTypeOK

\* Every operation keeps the types.
LEMMA TypeNext == PTypeOK /\ [PNext]_poolVars => PTypeOK'
<1> SUFFICES ASSUME PTypeOK, [PNext]_poolVars PROVE PTypeOK'
  OBVIOUS
<1>1. ASSUME NEW t \in Threads, NEW p \in Pages, NEW io \in BOOLEAN, Pin(t, p, io)
      PROVE  PTypeOK'
  <2>1. Loads(Pool, p, io) /\ TakePin(t, p, Loaded(Pool, p))
    BY <1>1 DEF Pin
  <2> QED BY <2>1, PoolTyped, LoadedIs, TakePinTyped
<1>2. ASSUME NEW t \in Threads, NEW p \in Pages, TryPin(t, p) PROVE PTypeOK'
  <2>1. FindSlot(Pool.slots, p) # NoSlot /\ TakePin(t, p, Pool)
    BY <1>2 DEF TryPin, Pool
  <2> QED BY <2>1, PoolTyped, TakePinTyped
<1>3. ASSUME NEW t \in Threads, NEW d \in Data, Write(t, d) PROVE PTypeOK'
  <2>1. slots' \in [Slots -> SlotType]
    BY <1>3, ContentsHas DEF Write, PTypeOK, SlotType
  <2>2. truth' \in [Pages -> Contents \union {Unset}]
    BY <1>3, ContentsHas DEF Write, PTypeOK
  <2>3. hold' \in [Threads -> HoldType]
    BY <1>3 DEF Write, PTypeOK, HoldType
  <2> QED BY <1>3, <2>1, <2>2, <2>3 DEF Write, PTypeOK
<1>4. ASSUME NEW t \in Threads, MarkDirty(t) PROVE PTypeOK'
  <2>1. slots' \in [Slots -> SlotType]
    BY <1>4 DEF MarkDirty, PTypeOK, SlotType
  <2>2. hold' \in [Threads -> HoldType]
    BY <1>4 DEF MarkDirty, PTypeOK, HoldType
  <2> QED BY <1>4, <2>1, <2>2 DEF MarkDirty, PTypeOK
<1>5. ASSUME NEW t \in Threads, Release(t) PROVE PTypeOK'
  <2> DEFINE s == FindSlot(slots, hold[t].page)
  <2>1. slots' \in [Slots -> SlotType]
    <3>1. CASE s # NoSlot /\ slots[s].pin > 0
      <4>1. s \in Slots
        BY <3>1, FindSlotIs
      <4>2. slots[s].pin - 1 \in Nat
        BY <3>1, <4>1 DEF PTypeOK, SlotType
      <4>3. slots' = [slots EXCEPT ![s].pin = @ - 1]
        BY <1>5, <3>1 DEF Release
      <4> HIDE DEF s
      <4> QED BY <4>1, <4>2, <4>3 DEF PTypeOK, SlotType
    <3>2. CASE ~ (s # NoSlot /\ slots[s].pin > 0)
      BY <1>5, <3>2 DEF Release, PTypeOK
    <3> QED BY <3>1, <3>2
  <2>2. hold' \in [Threads -> HoldType]
    BY <1>5 DEF Release, PTypeOK, HoldType, NoHold
  <2> QED BY <1>5, <2>1, <2>2 DEF Release, PTypeOK
<1>6. ASSUME NEW io \in BOOLEAN, AllocateFree(io) PROVE PTypeOK'
  <2>1. free_list_head \in Pages
    BY <1>6 DEF AllocateFree, PTypeOK
  <2>2. AfterHead(free_list_head) \in Pages \union {NoPage}
    <3> DEFINE s == FindSlot(slots, free_list_head)
    <3>1. s = NoSlot \/ slots[s].data \in Contents
      BY FindSlotIs DEF PTypeOK, SlotType
    <3> HIDE DEF s
    <3>2. ASSUME NEW c \in Contents, c.tag = "free" PROVE c.next \in Pages \union {NoPage}
      BY <3>2 DEF Contents, Zero, Of, Link
    <3>3. 1 \in Pages
      BY <2>1, PoolAssumption DEF Pages
    <3> QED BY <3>1, <3>2, <3>3 DEF AfterHead, s
  <2>3. CASE CanEvict(Pool, io)
    BY <1>6, <2>1, <2>2, <2>3, PlaceTyped DEF AllocateFree, PTypeOK
  <2>4. CASE ~ CanEvict(Pool, io)
    BY <1>6, <2>2, <2>4 DEF AllocateFree, PTypeOK
  <2> QED BY <2>3, <2>4
<1>7. ASSUME NEW io \in BOOLEAN, AllocateNew(io) PROVE PTypeOK'
  <2>1. next_page \in Pages /\ next_page + 1 \in 1 .. MaxPage + 1
    BY <1>7, PoolAssumption DEF AllocateNew, PTypeOK, Pages
  <2> QED BY <1>7, <2>1, PlaceTyped DEF AllocateNew, PTypeOK
<1>8. ASSUME NEW io \in BOOLEAN, NEW p \in Pages, FreePage(p, io) PROVE PTypeOK'
  BY <1>8, FreeTyped
<1>9. ASSUME NEW S \in SUBSET Slots, Flush(S),
             UNCHANGED <<age, next_page, free_list_head, hold, inUse, freed, truth>>
      PROVE  PTypeOK'
  <2>1. slots' \in [Slots -> SlotType]
    BY <1>9 DEF Flush, PTypeOK, SlotType
  <2>2. file' \in [Pages -> Contents]
    BY <1>9, WrittenTyped DEF Flush
  <2> QED BY <1>9, <2>1, <2>2 DEF PTypeOK
<1>10. ASSUME NEW p \in Pages, FlushPage(p) PROVE PTypeOK'
  BY <1>9, <1>10, FindSlotIs DEF FlushPage
<1>11. ASSUME NEW n \in Slots, FlushAll(n) PROVE PTypeOK'
  <2>1. 1 .. n \in SUBSET Slots
    BY PoolAssumption DEF Slots
  <2> QED BY <1>9, <1>11, <2>1 DEF FlushAll
<1>12. ASSUME NEW failed \in SUBSET Slots, Close(failed) PROVE PTypeOK'
  <2>1. EmptySlot \in SlotType
    BY ContentsHas DEF EmptySlot, SlotType
  <2>2. file' \in [Pages -> Contents]
    BY <1>12, WrittenTyped DEF Close
  <2>3. truth' \in [Pages -> Contents \union {Unset}]
    BY <1>12 DEF Close, PTypeOK
  <2> QED BY <1>12, <2>1, <2>2, <2>3 DEF Close, PTypeOK
<1>13. CASE UNCHANGED poolVars
  BY <1>13 DEF poolVars, PTypeOK
<1> QED BY <1>1, <1>2, <1>3, <1>4, <1>5, <1>6, <1>7, <1>8, <1>10, <1>11, <1>12, <1>13 DEF PNext

-----------------------------------------------------------------------------
(***************************************************************************)
(* What holds of a pool pl, the buffers h that threads have, the pages use *)
(* given out, the pages fr ever freed and what tr was last written, which  *)
(* is Unset for a page of fr.  A page that was never freed is in at most   *)
(* one slot, and the slot a caller has is the first that find_slot meets,  *)
(* so that mark_dirty and release reach it; the pins of a slot are its     *)
(* holders, so that a victim has none; and a slot that is clean agrees     *)
(* with the file unless a holder has still to mark what it wrote.          *)
(***************************************************************************)
OneSlot(ss, fr) ==
  \A r, s \in Slots : ss[r].loaded /\ ss[s].loaded /\ ss[r].page = ss[s].page
                         /\ ss[r].page \notin fr => r = s

SlotsKnown(ss, use, fr) ==
  \A s \in Slots : /\ ss[s].dirty => ss[s].loaded
                   /\ ss[s].loaded => ss[s].page \in use \union fr

HeldStays(ss, h, use) ==
  \A t \in Threads : h[t] # NoHold =>
     /\ h[t].slot \in Slots
     /\ h[t].page \in use
     /\ ss[h[t].slot].loaded
     /\ ss[h[t].slot].page = h[t].page
     /\ \A r \in Slots : ss[r].loaded /\ ss[r].page = h[t].page => h[t].slot <= r

Holders(h, s) == {t \in Threads : h[t].slot = s}

PinsCounted(ss, h) == \A s \in Slots : ss[s].pin = Cardinality(Holders(h, s))

BuffersShow(ss, tr) ==
  \A s \in Slots : ss[s].loaded /\ tr[ss[s].page] # Unset => ss[s].data = tr[ss[s].page]

Unmarked(h, s) == \E t \in Threads : h[t].slot = s /\ h[t].wrote

CleanWritten(pl, h, tr) ==
  \A s \in Slots :
     pl.slots[s].loaded /\ ~ pl.slots[s].dirty /\ ~ Unmarked(h, s) /\ tr[pl.slots[s].page] # Unset
        => pl.file[pl.slots[s].page] = tr[pl.slots[s].page]

FileShows(pl, use, tr) ==
  \A p \in use : ~ InSlot(pl.slots, p) /\ tr[p] # Unset => pl.file[p] = tr[p]

Doubted(fr, tr) == \A p \in fr : tr[p] = Unset

Sound(pl, h, use, fr, tr) ==
  /\ OneSlot(pl.slots, fr)
  /\ SlotsKnown(pl.slots, use, fr)
  /\ HeldStays(pl.slots, h, use)
  /\ PinsCounted(pl.slots, h)
  /\ BuffersShow(pl.slots, tr)
  /\ CleanWritten(pl, h, tr)
  /\ FileShows(pl, use, tr)
  /\ Doubted(fr, tr)

\* What was last written on each page that was never freed.
Sure == [p \in Pages |-> IF p \in freed THEN Unset ELSE truth[p]]

TruthType == [Pages -> Contents \union {Unset}]

\* Sure is of the type of truth.
LEMMA SureTyped == PTypeOK => Sure \in TruthType /\ \A p \in Pages \ freed : Sure[p] = truth[p]
BY DEF PTypeOK, Sure, TruthType

\* A slot nobody has pinned, or that is not loaded, is held by nobody.
LEMMA VictimUnheld ==
  ASSUME NEW pl \in PoolType, NEW h \in [Threads -> HoldType], NEW use,
         HeldStays(pl.slots, h, use), PinsCounted(pl.slots, h), Victim(pl) # NoSlot
  PROVE  Holders(h, Victim(pl)) = {}
<1> DEFINE v == Victim(pl)
<1>1. v \in Slots /\ (pl.slots[v].loaded => pl.slots[v].pin = 0)
  BY VictimIs
<1> HIDE DEF v
<1>2. CASE pl.slots[v].loaded
  <2>1. Cardinality(Holders(h, v)) = 0
    BY <1>1, <1>2 DEF PinsCounted
  <2>2. IsFiniteSet(Holders(h, v))
    BY PoolAssumption, FS_Subset DEF Holders
  <2> QED BY <2>1, <2>2, FS_EmptySet DEF v
<1>3. CASE ~ pl.slots[v].loaded
  <2>1. \A t \in Threads : h[t].slot = v => h[t] # NoHold
    BY <1>1, SlotsNat DEF NoHold
  <2> QED BY <1>1, <1>3, <2>1 DEF HeldStays, Holders, v
<1> QED BY <1>2, <1>3

\* Taking the victim for a page that is in no slot, or that was freed and is
\* in nobody's use.
LEMMA RefilledSound ==
  ASSUME NEW pl \in PoolType, NEW h \in [Threads -> HoldType], NEW use \in SUBSET Pages,
         NEW fr \in SUBSET Pages, NEW tr \in TruthType,
         Sound(pl, h, use, fr, tr), Victim(pl) # NoSlot,
         NEW p \in Pages, NEW c \in Contents,
         ~ InSlot(pl.slots, p) \/ (p \in fr /\ p \notin use),
         NEW use2 \in SUBSET Pages, use \subseteq use2, use2 \subseteq use \union {p},
         p \in use2 \union fr,
         NEW tr2 \in TruthType, Doubted(fr, tr2),
         \A q \in Pages \ {p} : tr2[q] = tr[q],
         tr2[p] # Unset => c = tr2[p] /\ pl.file[p] = tr2[p]
  PROVE  Sound(Refilled(pl, p, c), h, use2, fr, tr2)
<1> DEFINE v  == Victim(pl)
           ss == pl.slots
           ff == WriteBack(pl, v)
           s2 == [ss EXCEPT ![v] = Filled(p, c)]
<1>1. v \in Slots /\ Holders(h, v) = {}
  BY VictimIs, VictimUnheld DEF Sound
<1>2. ss \in [Slots -> SlotType] /\ pl.file \in [Pages -> Contents]
  BY DEF PoolType
<1>3. /\ s2[v].loaded /\ s2[v].page = p /\ s2[v].pin = 0 /\ ~ s2[v].dirty /\ s2[v].data = c
      /\ \A s \in Slots \ {v} : s2[s] = ss[s]
  BY <1>1, <1>2 DEF Filled
<1>4. Refilled(pl, p, c).slots = s2 /\ Refilled(pl, p, c).file = ff
  BY DEF Refilled
<1>5. \A q \in Pages : ff[q] = IF ss[v].dirty /\ ss[v].page = q THEN ss[v].data ELSE pl.file[q]
  BY <1>1, <1>2 DEF WriteBack
<1> HIDE DEF v, ss, ff, s2
<1>6. \A s \in Slots : ss[s].loaded => ss[s].page # p \/ p \in fr
  BY DEF InSlot, ss
<1>7. \A s \in Slots : ss[s].loaded => ss[s].page \in use \union fr /\ ss[s].page \in Pages
  BY DEF Sound, SlotsKnown, ss
<1>8. ss[v].dirty => ss[v].loaded
  BY <1>1 DEF Sound, SlotsKnown, ss
<1>9. OneSlot(s2, fr)
  BY <1>1, <1>3, <1>6 DEF Sound, OneSlot, ss
<1>10. SlotsKnown(s2, use2, fr)
  BY <1>1, <1>3, <1>7 DEF Sound, SlotsKnown, ss
<1>11. HeldStays(s2, h, use2)
  <2> SUFFICES ASSUME NEW t \in Threads, h[t] # NoHold
               PROVE  /\ h[t].slot \in Slots /\ h[t].page \in use2
                      /\ s2[h[t].slot].loaded /\ s2[h[t].slot].page = h[t].page
                      /\ \A r \in Slots : s2[r].loaded /\ s2[r].page = h[t].page => h[t].slot <= r
    BY DEF HeldStays
  <2>1. /\ h[t].slot \in Slots /\ h[t].page \in use
        /\ ss[h[t].slot].loaded /\ ss[h[t].slot].page = h[t].page
        /\ \A r \in Slots : ss[r].loaded /\ ss[r].page = h[t].page => h[t].slot <= r
    BY DEF Sound, HeldStays, ss
  <2>2. h[t].slot # v
    BY <1>1 DEF Holders
  <2>3. h[t].page # p
    BY <2>1 DEF InSlot, ss
  <2> QED BY <1>3, <2>1, <2>2, <2>3
<1>12. PinsCounted(s2, h)
  BY <1>1, <1>3, FS_EmptySet DEF Sound, PinsCounted, ss
<1>13. BuffersShow(s2, tr2)
  <2> SUFFICES ASSUME NEW s \in Slots, s2[s].loaded, tr2[s2[s].page] # Unset
               PROVE  s2[s].data = tr2[s2[s].page]
    BY DEF BuffersShow
  <2>1. CASE s = v
    BY <1>3, <2>1
  <2>2. CASE s # v
    <3>1. s2[s] = ss[s] /\ ss[s].page \in Pages /\ ss[s].page # p
      BY <1>3, <1>6, <1>7, <2>2 DEF Doubted
    <3> QED BY <3>1 DEF Sound, BuffersShow, ss
  <2> QED BY <2>1, <2>2
<1>14. tr2[p] # Unset => ff[p] = pl.file[p]
  BY <1>1, <1>5, <1>6, <1>8 DEF Doubted
<1>15. CleanWritten(Refilled(pl, p, c), h, tr2)
  <2> SUFFICES ASSUME NEW s \in Slots, s2[s].loaded, ~ s2[s].dirty, ~ Unmarked(h, s),
                      tr2[s2[s].page] # Unset
               PROVE  ff[s2[s].page] = tr2[s2[s].page]
    BY <1>4 DEF CleanWritten
  <2>1. CASE s = v
    BY <1>3, <1>14, <2>1
  <2>2. CASE s # v
    <3>1. s2[s] = ss[s] /\ ss[s].page \in Pages /\ ss[s].page # p /\ ss[s].page \notin fr
      BY <1>3, <1>6, <1>7, <2>2 DEF Doubted
    <3>2. pl.file[ss[s].page] = tr[ss[s].page]
      BY <3>1 DEF Sound, CleanWritten, ss
    <3>3. ~ (ss[v].dirty /\ ss[v].page = ss[s].page)
      BY <1>1, <1>8, <2>2, <3>1 DEF Sound, OneSlot, ss
    <3> QED BY <1>5, <3>1, <3>2, <3>3
  <2> QED BY <2>1, <2>2
<1>16. FileShows(Refilled(pl, p, c), use2, tr2)
  <2> SUFFICES ASSUME NEW q \in use2, ~ InSlot(s2, q), tr2[q] # Unset
               PROVE  ff[q] = tr2[q]
    BY <1>4 DEF FileShows
  <2>1. q # p /\ q \in use /\ q \in Pages
    BY <1>1, <1>3 DEF InSlot
  <2>2. CASE ss[v].loaded /\ ss[v].page = q
    <3>1. ~ Unmarked(h, v)
      BY <1>1 DEF Unmarked, Holders
    <3>2. ss[v].data = tr[q]
      BY <1>1, <2>1, <2>2 DEF Sound, BuffersShow, ss
    <3>3. ~ ss[v].dirty => pl.file[q] = tr[q]
      BY <1>1, <2>1, <2>2, <3>1 DEF Sound, CleanWritten, ss
    <3> QED BY <1>5, <2>1, <2>2, <3>2, <3>3
  <2>3. CASE ~ (ss[v].loaded /\ ss[v].page = q)
    <3>1. ~ InSlot(ss, q)
      BY <1>3, <2>3 DEF InSlot
    <3>2. pl.file[q] = tr[q]
      BY <2>1, <3>1 DEF Sound, FileShows, ss
    <3> QED BY <1>5, <1>8, <2>1, <2>3, <3>2
  <2> QED BY <2>2, <2>3
<1> QED BY <1>4, <1>9, <1>10, <1>11, <1>12, <1>13, <1>15, <1>16 DEF Sound

\* ensure_loaded of a page in use
LEMMA LoadedSound ==
  ASSUME PTypeOK, Sound(Pool, hold, inUse, freed, Sure), NEW p \in inUse, NEW io,
         Loads(Pool, p, io)
  PROVE  Sound(Loaded(Pool, p), hold, inUse, freed, Sure)
<1>1. CASE FindSlot(slots, p) # NoSlot
  BY <1>1 DEF Loaded, Pool
<1>2. CASE FindSlot(slots, p) = NoSlot
  <2> DEFINE v == Victim(Pool)
             c == WriteBack(Pool, v)[p]
  <2>1. /\ Pool \in PoolType /\ p \in Pages /\ Pool.slots = slots /\ Pool.file = file
        /\ hold \in [Threads -> HoldType] /\ inUse \in SUBSET Pages /\ freed \in SUBSET Pages
        /\ Sure \in TruthType /\ Doubted(freed, Sure)
    BY PoolTyped, SureTyped DEF PTypeOK, Pool, Sound
  <2>2. v # NoSlot /\ v \in Slots
    BY <1>2, <2>1, VictimIs DEF Loads, CanEvict
  <2>3. ~ InSlot(slots, p)
    BY <1>2, FindSlotIs DEF InSlot
  <2>4. c = file[p]
    <3>1. ~ (slots[v].dirty /\ slots[v].page = p)
      BY <2>1, <2>2, <2>3 DEF Sound, SlotsKnown, InSlot
    <3> HIDE DEF v
    <3> QED BY <2>1, <2>2, <3>1 DEF WriteBack, PTypeOK
  <2>5. Sure[p] # Unset => file[p] = Sure[p]
    BY <2>1, <2>3 DEF Sound, FileShows
  <2>6. Loaded(Pool, p) = Refilled(Pool, p, c)
    BY <1>2, <2>1 DEF Loaded
  <2>7. c \in Contents /\ p \in inUse
    BY <2>1, <2>4 DEF PTypeOK
  <2> HIDE DEF v, c
  <2>8. Sound(Refilled(Pool, p, c), hold, inUse, freed, Sure)
    BY <2>1, <2>2, <2>3, <2>4, <2>5, <2>7, RefilledSound DEF v
  <2> QED BY <2>6, <2>8
<1> QED BY <1>1, <1>2

\* The slot of a page is the one its holders have.
LEMMA HolderSlot ==
  ASSUME PTypeOK, Sound(Pool, hold, inUse, freed, Sure), NEW t \in Threads, hold[t] # NoHold
  PROVE  /\ FindSlot(slots, hold[t].page) = hold[t].slot
         /\ hold[t].slot \in Slots
         /\ slots[hold[t].slot].loaded
         /\ slots[hold[t].slot].page = hold[t].page
         /\ hold[t].page \in inUse
<1> DEFINE p == hold[t].page
           m == hold[t].slot
           s == FindSlot(slots, p)
<1>1. /\ m \in Slots /\ slots[m].loaded /\ slots[m].page = p /\ p \in inUse
      /\ \A r \in Slots : slots[r].loaded /\ slots[r].page = p => m <= r
  BY DEF Sound, HeldStays, Pool
<1>2. /\ s \in Slots /\ slots[s].loaded /\ slots[s].page = p
      /\ \A r \in Slots : slots[r].loaded /\ slots[r].page = p => s <= r
  BY <1>1, FindSlotIs, FindSlotFirst
<1> HIDE DEF s, p, m
<1>3. s <= m /\ m <= s /\ s \in Nat /\ m \in Nat
  BY <1>1, <1>2, SlotsNat
<1>4. s = m
  BY <1>3
<1> QED BY <1>1, <1>4 DEF s, m, p

\* The holders of a slot can be counted.
LEMMA HoldersFinite == \A h, s : IsFiniteSet(Holders(h, s))
BY PoolAssumption, FS_Subset DEF Holders

\* garry_pool_pin_page and garry_pool_try_pin
LEMMA TakePinSound ==
  ASSUME PTypeOK, NEW t \in Threads, hold[t] = NoHold, NEW p \in inUse, NEW pl \in PoolType,
         Sound(pl, hold, inUse, freed, Sure), FindSlot(pl.slots, p) # NoSlot, TakePin(t, p, pl)
  PROVE  Sound(Pool, hold, inUse, freed, Sure)'
<1> DEFINE s == FindSlot(pl.slots, p)
           ss == pl.slots
<1>1. /\ s \in Slots /\ ss[s].loaded /\ ss[s].page = p
      /\ \A r \in Slots : ss[r].loaded /\ ss[r].page = p => s <= r
  BY FindSlotIs, FindSlotFirst
<1>2. /\ slots' = [ss EXCEPT ![s].pin = @ + 1] /\ file' = pl.file
      /\ hold' = [hold EXCEPT ![t] = [page |-> p, slot |-> s, wrote |-> FALSE]]
      /\ inUse' = inUse /\ freed' = freed /\ Sure' = Sure
  BY DEF TakePin, Sure
<1> HIDE DEF s, ss
<1>3. ss \in [Slots -> SlotType]
  BY DEF PoolType, ss
<1>4. /\ slots'[s].pin = ss[s].pin + 1
      /\ \A r \in Slots : /\ slots'[r].loaded = ss[r].loaded /\ slots'[r].page = ss[r].page
                          /\ slots'[r].dirty = ss[r].dirty /\ slots'[r].data = ss[r].data
                          /\ r # s => slots'[r].pin = ss[r].pin
  BY <1>1, <1>2, <1>3 DEF SlotType
<1>5. /\ hold'[t].slot = s /\ hold'[t].page = p /\ ~ hold'[t].wrote
      /\ \A u \in Threads \ {t} : hold'[u] = hold[u]
  BY <1>2 DEF PTypeOK
<1>6. OneSlot(slots', freed) /\ SlotsKnown(slots', inUse, freed) /\ BuffersShow(slots', Sure)
  BY <1>4 DEF Sound, OneSlot, SlotsKnown, BuffersShow, ss
<1>7. HeldStays(slots', hold', inUse)
  <2> SUFFICES ASSUME NEW u \in Threads, hold'[u] # NoHold
               PROVE  /\ hold'[u].slot \in Slots /\ hold'[u].page \in inUse
                      /\ slots'[hold'[u].slot].loaded
                      /\ slots'[hold'[u].slot].page = hold'[u].page
                      /\ \A r \in Slots : slots'[r].loaded /\ slots'[r].page = hold'[u].page
                                            => hold'[u].slot <= r
    BY DEF HeldStays
  <2>1. CASE u = t
    BY <1>1, <1>4, <1>5, <2>1
  <2>2. CASE u # t
    BY <1>4, <1>5, <2>2 DEF Sound, HeldStays, ss
  <2> QED BY <2>1, <2>2
<1>8. PinsCounted(slots', hold')
  <2>1. hold[t].slot \notin Slots
    BY SlotsNat DEF NoHold
  <2>2. Holders(hold', s) = Holders(hold, s) \union {t} /\ t \notin Holders(hold, s)
    BY <1>1, <1>5, <2>1 DEF Holders
  <2>3. \A r \in Slots \ {s} : Holders(hold', r) = Holders(hold, r)
    BY <1>5, <2>1 DEF Holders
  <2>4. Cardinality(Holders(hold', s)) = Cardinality(Holders(hold, s)) + 1
    BY <2>2, HoldersFinite, FS_AddElement
  <2> QED BY <1>1, <1>4, <2>3, <2>4 DEF Sound, PinsCounted, ss
<1>9. \A r \in Slots : Unmarked(hold, r) => Unmarked(hold', r)
  BY <1>5 DEF Unmarked, NoHold
<1>10. CleanWritten(Pool', hold', Sure)
  BY <1>2, <1>4, <1>9 DEF Sound, CleanWritten, Pool, ss
<1>11. FileShows(Pool', inUse, Sure)
  BY <1>2, <1>4 DEF Sound, FileShows, InSlot, Pool, ss
<1> QED BY <1>2, <1>6, <1>7, <1>8, <1>10, <1>11 DEF Sound, Pool

\* The caller writes through the pointer it got.
LEMMA WriteSound ==
  ASSUME PTypeOK, Sound(Pool, hold, inUse, freed, Sure), NEW t \in Threads,
         NEW d \in Data, Write(t, d)
  PROVE  Sound(Pool, hold, inUse, freed, Sure)'
<1> DEFINE s == hold[t].slot
           p == hold[t].page
<1>1. s \in Slots /\ slots[s].loaded /\ slots[s].page = p /\ p \in inUse /\ p \in Pages
  BY HolderSlot DEF Write, PTypeOK
<1>2. /\ slots' = [slots EXCEPT ![s].data = Of(d)] /\ truth' = [truth EXCEPT ![p] = Of(d)]
      /\ hold' = [hold EXCEPT ![t].wrote = TRUE] /\ file' = file /\ inUse' = inUse
      /\ freed' = freed
  BY DEF Write
<1>3. hold[t] # NoHold
  BY DEF Write
<1> HIDE DEF s, p
<1>4. /\ slots'[s].data = Of(d)
      /\ \A r \in Slots : /\ slots'[r].loaded = slots[r].loaded /\ slots'[r].page = slots[r].page
                          /\ slots'[r].dirty = slots[r].dirty /\ slots'[r].pin = slots[r].pin
                          /\ r # s => slots'[r].data = slots[r].data
  BY <1>1, <1>2 DEF PTypeOK, SlotType
<1>5. /\ hold'[t].wrote
      /\ \A u \in Threads : /\ hold'[u].slot = hold[u].slot /\ hold'[u].page = hold[u].page
                            /\ hold[u].wrote => hold'[u].wrote
                            /\ u # t => hold'[u] = hold[u]
  BY <1>2 DEF PTypeOK, HoldType
<1>6. /\ p \notin freed => Sure'[p] = Of(d)
      /\ \A q \in Pages \ {p} : Sure'[q] = Sure[q]
      /\ \A q \in freed : Sure'[q] = Unset
  BY <1>1, <1>2 DEF PTypeOK, Sure
<1>7. \A r \in Slots \ {s} : slots[r].loaded => /\ slots[r].page # p \/ p \in freed
                                                /\ slots[r].page \in Pages
  BY <1>1 DEF Sound, OneSlot, SlotsKnown, PTypeOK, Pool
<1>8. OneSlot(slots', freed) /\ SlotsKnown(slots', inUse, freed)
  BY <1>4 DEF Sound, OneSlot, SlotsKnown, Pool
<1>9. HeldStays(slots', hold', inUse)
  BY <1>3, <1>4, <1>5 DEF Sound, HeldStays, Pool
<1>10. PinsCounted(slots', hold')
  <2>1. \A r \in Slots : Holders(hold', r) = Holders(hold, r)
    BY <1>5 DEF Holders
  <2> QED BY <1>4, <2>1 DEF Sound, PinsCounted, Pool
<1>11. BuffersShow(slots', Sure')
  <2> SUFFICES ASSUME NEW r \in Slots, slots'[r].loaded, Sure'[slots'[r].page] # Unset
               PROVE  slots'[r].data = Sure'[slots'[r].page]
    BY DEF BuffersShow
  <2>1. CASE r = s
    BY <1>1, <1>4, <1>6, <2>1
  <2>2. CASE r # s
    BY <1>4, <1>6, <1>7, <2>2 DEF Sound, BuffersShow, Pool
  <2> QED BY <2>1, <2>2
<1>12. Unmarked(hold', s) /\ \A r \in Slots : Unmarked(hold, r) => Unmarked(hold', r)
  BY <1>5 DEF Unmarked, s
<1>13. CleanWritten(Pool', hold', Sure')
  <2> SUFFICES ASSUME NEW r \in Slots, slots'[r].loaded, ~ slots'[r].dirty, ~ Unmarked(hold', r),
                      Sure'[slots'[r].page] # Unset
               PROVE  file'[slots'[r].page] = Sure'[slots'[r].page]
    BY DEF CleanWritten, Pool
  <2>1. r # s /\ ~ Unmarked(hold, r)
    BY <1>12
  <2>2. slots[r].loaded /\ ~ slots[r].dirty /\ slots'[r].page = slots[r].page
    BY <1>4
  <2>3. Sure'[slots[r].page] = Sure[slots[r].page]
    BY <1>6, <1>7, <2>1, <2>2
  <2>4. file[slots[r].page] = Sure[slots[r].page]
    BY <2>1, <2>2, <2>3 DEF Sound, CleanWritten, Pool
  <2> QED BY <1>2, <2>2, <2>3, <2>4
<1>14. FileShows(Pool', inUse, Sure')
  <2> SUFFICES ASSUME NEW q \in inUse, ~ InSlot(slots', q), Sure'[q] # Unset
               PROVE  file'[q] = Sure'[q]
    BY DEF FileShows, Pool
  <2>1. q # p /\ q \in Pages /\ ~ InSlot(slots, q)
    BY <1>1, <1>4 DEF InSlot, PTypeOK
  <2> QED BY <1>2, <1>6, <2>1 DEF Sound, FileShows, Pool
<1> QED BY <1>2, <1>6, <1>8, <1>9, <1>10, <1>11, <1>13, <1>14 DEF Sound, Doubted, Pool

\* garry_pool_mark_dirty reaches the slot that was written.
LEMMA MarkDirtySound ==
  ASSUME PTypeOK, Sound(Pool, hold, inUse, freed, Sure), NEW t \in Threads, MarkDirty(t)
  PROVE  Sound(Pool, hold, inUse, freed, Sure)'
<1> DEFINE s == hold[t].slot
<1>1. hold[t] # NoHold
  BY DEF MarkDirty, NoHold
<1>2. s \in Slots /\ slots[s].loaded /\ FindSlot(slots, hold[t].page) = s /\ s # NoSlot
  BY <1>1, HolderSlot, SlotsNat
<1>3. /\ slots' = [slots EXCEPT ![s].dirty = TRUE] /\ hold' = [hold EXCEPT ![t].wrote = FALSE]
      /\ file' = file /\ inUse' = inUse /\ freed' = freed /\ Sure' = Sure
  BY <1>2 DEF MarkDirty, Sure
<1> HIDE DEF s
<1>4. /\ slots'[s].dirty
      /\ \A r \in Slots : /\ slots'[r].loaded = slots[r].loaded /\ slots'[r].page = slots[r].page
                          /\ slots'[r].data = slots[r].data /\ slots'[r].pin = slots[r].pin
                          /\ r # s => slots'[r].dirty = slots[r].dirty
  BY <1>2, <1>3 DEF PTypeOK, SlotType
<1>5. \A u \in Threads : /\ hold'[u].slot = hold[u].slot /\ hold'[u].page = hold[u].page
                         /\ u # t => hold'[u] = hold[u]
  BY <1>3 DEF PTypeOK, HoldType
<1>6. OneSlot(slots', freed) /\ SlotsKnown(slots', inUse, freed) /\ BuffersShow(slots', Sure)
  BY <1>2, <1>4 DEF Sound, OneSlot, SlotsKnown, BuffersShow, Pool
<1>7. HeldStays(slots', hold', inUse)
  BY <1>1, <1>4, <1>5 DEF Sound, HeldStays, Pool
<1>8. PinsCounted(slots', hold')
  <2>1. \A r \in Slots : Holders(hold', r) = Holders(hold, r)
    BY <1>5 DEF Holders
  <2> QED BY <1>4, <2>1 DEF Sound, PinsCounted, Pool
<1>9. \A r \in Slots \ {s} : Unmarked(hold, r) => Unmarked(hold', r)
  BY <1>5 DEF Unmarked, s
<1>10. CleanWritten(Pool', hold', Sure)
  BY <1>3, <1>4, <1>9 DEF Sound, CleanWritten, Pool
<1>11. FileShows(Pool', inUse, Sure)
  BY <1>3, <1>4 DEF Sound, FileShows, InSlot, Pool
<1> QED BY <1>3, <1>6, <1>7, <1>8, <1>10, <1>11 DEF Sound, Pool

\* garry_pool_release_page takes away the pin of its caller.
LEMMA ReleaseSound ==
  ASSUME PTypeOK, Sound(Pool, hold, inUse, freed, Sure), NEW t \in Threads, Release(t)
  PROVE  Sound(Pool, hold, inUse, freed, Sure)'
<1> DEFINE s == hold[t].slot
<1>1. hold[t] # NoHold /\ ~ hold[t].wrote
  BY DEF Release
<1>2. s \in Slots /\ FindSlot(slots, hold[t].page) = s /\ s # NoSlot
  BY <1>1, HolderSlot, SlotsNat
<1>3. t \in Holders(hold, s) /\ slots[s].pin = Cardinality(Holders(hold, s))
  BY <1>2 DEF Holders, Sound, PinsCounted, Pool
<1>4. slots[s].pin \in Nat
  BY <1>2 DEF PTypeOK, SlotType
<1> HIDE DEF s
<1>5. Cardinality(Holders(hold, s) \ {t}) = slots[s].pin - 1 /\ slots[s].pin > 0
  <2>1. IsFiniteSet(Holders(hold, s))
    BY HoldersFinite
  <2>2. Cardinality(Holders(hold, s)) # 0
    BY <1>3, <2>1, FS_EmptySet
  <2>3. Cardinality(Holders(hold, s) \ {t}) = Cardinality(Holders(hold, s)) - 1
    BY <1>3, <2>1, FS_RemoveElement
  <2>4. slots[s].pin # 0
    BY <1>3, <2>2
  <2>5. slots[s].pin > 0
    BY <1>4, <2>4
  <2> QED BY <1>3, <2>3, <2>5
<1>6. /\ slots' = [slots EXCEPT ![s].pin = @ - 1] /\ hold' = [hold EXCEPT ![t] = NoHold]
      /\ file' = file /\ inUse' = inUse /\ freed' = freed /\ Sure' = Sure
  BY <1>2, <1>5 DEF Release, Sure
<1>7. /\ slots'[s].pin = slots[s].pin - 1
      /\ \A r \in Slots : /\ slots'[r].loaded = slots[r].loaded /\ slots'[r].page = slots[r].page
                          /\ slots'[r].data = slots[r].data /\ slots'[r].dirty = slots[r].dirty
                          /\ r # s => slots'[r].pin = slots[r].pin
  BY <1>2, <1>6 DEF PTypeOK, SlotType
<1>8. hold'[t] = NoHold /\ \A u \in Threads \ {t} : hold'[u] = hold[u]
  BY <1>6 DEF PTypeOK
<1>9. OneSlot(slots', freed) /\ SlotsKnown(slots', inUse, freed) /\ BuffersShow(slots', Sure)
  BY <1>7 DEF Sound, OneSlot, SlotsKnown, BuffersShow, Pool
<1>10. HeldStays(slots', hold', inUse)
  BY <1>7, <1>8 DEF Sound, HeldStays, Pool
<1>11. PinsCounted(slots', hold')
  <2>1. NoHold.slot \notin Slots
    BY SlotsNat DEF NoHold
  <2>2. Holders(hold', s) = Holders(hold, s) \ {t}
    BY <1>2, <1>8, <2>1 DEF Holders
  <2>3. \A r \in Slots \ {s} : Holders(hold', r) = Holders(hold, r)
    BY <1>8, <2>1 DEF Holders, s
  <2> QED BY <1>5, <1>7, <2>2, <2>3 DEF Sound, PinsCounted, Pool
<1>12. \A r \in Slots : Unmarked(hold, r) => Unmarked(hold', r)
  BY <1>1, <1>8 DEF Unmarked
<1>13. CleanWritten(Pool', hold', Sure)
  BY <1>6, <1>7, <1>12 DEF Sound, CleanWritten, Pool
<1>14. FileShows(Pool', inUse, Sure)
  BY <1>6, <1>7 DEF Sound, FileShows, InSlot, Pool
<1> QED BY <1>6, <1>9, <1>10, <1>11, <1>13, <1>14 DEF Sound, Pool

\* What writing the dirty slots of S leaves in the file.
LEMMA WrittenIs ==
  ASSUME PTypeOK, Sound(Pool, hold, inUse, freed, Sure), NEW S \in SUBSET Slots
  PROVE  /\ \A s \in S : slots[s].dirty /\ slots[s].page \notin freed
                         => Written(S)[slots[s].page] = slots[s].data
         /\ \A p \in Pages : (\A s \in S : slots[s].dirty => slots[s].page # p)
                                => Written(S)[p] = file[p]
<1>1. ASSUME NEW s \in S, slots[s].dirty, slots[s].page \notin freed
      PROVE  Written(S)[slots[s].page] = slots[s].data
  <2> DEFINE p == slots[s].page
             D == {r \in S : slots[r].dirty /\ slots[r].page = p}
  <2>1. \A r \in D : r = s
    BY <1>1 DEF Sound, OneSlot, SlotsKnown, Pool
  <2>2. s \in D /\ s \in Nat
    BY <1>1, SlotsNat
  <2>3. p \in Pages
    BY <1>1 DEF Sound, SlotsKnown, PTypeOK, Pool
  <2>4. Written(S)[p] = IF D = {} THEN file[p]
                        ELSE slots[CHOOSE r \in D : \A q \in D : q <= r].data
    BY <2>3 DEF Written
  <2>5. \E r \in D : \A q \in D : q <= r
    BY <2>1, <2>2
  <2> HIDE DEF D, p
  <2>6. (CHOOSE r \in D : \A q \in D : q <= r) = s
    BY <2>1, <2>5
  <2> QED BY <2>2, <2>4, <2>6 DEF p
<1>2. ASSUME NEW p \in Pages, \A s \in S : slots[s].dirty => slots[s].page # p
      PROVE  Written(S)[p] = file[p]
  BY <1>2 DEF Written
<1> QED BY <1>1, <1>2

\* garry_pool_flush_page and garry_pool_flush_all
LEMMA FlushSound ==
  ASSUME PTypeOK, Sound(Pool, hold, inUse, freed, Sure), NEW S \in SUBSET Slots, Flush(S),
         UNCHANGED <<hold, inUse, freed, truth>>
  PROVE  Sound(Pool, hold, inUse, freed, Sure)'
<1>1. file' = Written(S) /\ Sure' = Sure
  BY DEF Flush, Sure
<1>2. \A r \in Slots : /\ slots'[r].loaded = slots[r].loaded /\ slots'[r].page = slots[r].page
                       /\ slots'[r].data = slots[r].data /\ slots'[r].pin = slots[r].pin
                       /\ r \notin S => slots'[r].dirty = slots[r].dirty
                       /\ r \in S => ~ slots'[r].dirty
  BY DEF Flush, PTypeOK, SlotType
<1>3. /\ \A s \in S : slots[s].dirty /\ slots[s].page \notin freed
                         => file'[slots[s].page] = slots[s].data
      /\ \A p \in Pages : (\A s \in S : slots[s].dirty => slots[s].page # p) => file'[p] = file[p]
  BY <1>1, WrittenIs
<1>4. OneSlot(slots', freed) /\ SlotsKnown(slots', inUse, freed) /\ BuffersShow(slots', Sure)
  BY <1>2 DEF Sound, OneSlot, SlotsKnown, BuffersShow, Pool
<1>5. HeldStays(slots', hold, inUse) /\ PinsCounted(slots', hold)
  BY <1>2 DEF Sound, HeldStays, PinsCounted, Pool
<1>6. CleanWritten(Pool', hold, Sure)
  <2> SUFFICES ASSUME NEW r \in Slots, slots'[r].loaded, ~ slots'[r].dirty, ~ Unmarked(hold, r),
                      Sure[slots'[r].page] # Unset
               PROVE  file'[slots'[r].page] = Sure[slots'[r].page]
    BY DEF CleanWritten, Pool
  <2>1. /\ slots[r].loaded /\ slots'[r].page = slots[r].page /\ slots[r].page \in Pages
        /\ slots[r].page \notin freed
    BY <1>2 DEF Sound, SlotsKnown, Doubted, PTypeOK, Pool
  <2>2. CASE slots[r].dirty
    <3>1. r \in S
      BY <1>2, <2>2
    <3>2. slots[r].data = Sure[slots[r].page]
      BY <2>1 DEF Sound, BuffersShow, Pool
    <3> QED BY <1>3, <2>1, <2>2, <3>1, <3>2
  <2>3. CASE ~ slots[r].dirty
    <3>1. file[slots[r].page] = Sure[slots[r].page]
      BY <2>1, <2>3 DEF Sound, CleanWritten, Pool
    <3>2. \A s \in S : slots[s].dirty => slots[s].page # slots[r].page
      BY <2>1, <2>3 DEF Sound, OneSlot, SlotsKnown, Pool
    <3> QED BY <1>3, <2>1, <3>1, <3>2
  <2> QED BY <2>2, <2>3
<1>7. FileShows(Pool', inUse, Sure)
  <2> SUFFICES ASSUME NEW q \in inUse, ~ InSlot(slots', q), Sure[q] # Unset
               PROVE  file'[q] = Sure[q]
    BY DEF FileShows, Pool
  <2>1. ~ InSlot(slots, q) /\ q \in Pages
    BY <1>2 DEF InSlot, PTypeOK
  <2>2. \A s \in S : slots[s].dirty => slots[s].page # q
    BY <2>1 DEF Sound, SlotsKnown, InSlot, Pool
  <2> QED BY <1>3, <2>1, <2>2 DEF Sound, FileShows, Pool
<1> QED BY <1>1, <1>4, <1>5, <1>6, <1>7 DEF Sound, Pool

\* Closing the pool and opening it again.
LEMMA CloseSound ==
  ASSUME PTypeOK, Sound(Pool, hold, inUse, freed, Sure), NEW failed \in SUBSET Slots,
         Close(failed)
  PROVE  Sound(Pool, hold, inUse, freed, Sure)'
<1>1. /\ file' = Written(Slots \ failed) /\ slots' = [s \in Slots |-> EmptySlot]
      /\ hold' = hold /\ inUse' = inUse /\ \A t \in Threads : hold[t] = NoHold
      /\ truth' = [p \in Pages |-> IF \E s \in failed : slots[s].page = p THEN Unset ELSE truth[p]]
      /\ freed' = freed
  BY DEF Close
<1>2. \A s \in Slots : ~ slots'[s].loaded /\ ~ slots'[s].dirty /\ slots'[s].pin = 0
  BY <1>1 DEF EmptySlot
<1>3. /\ OneSlot(slots', freed) /\ SlotsKnown(slots', inUse, freed) /\ BuffersShow(slots', Sure')
      /\ HeldStays(slots', hold, inUse) /\ CleanWritten(Pool', hold, Sure')
  BY <1>1, <1>2 DEF OneSlot, SlotsKnown, BuffersShow, HeldStays, CleanWritten, Pool
<1>4. PinsCounted(slots', hold)
  <2>1. \A s \in Slots : Holders(hold, s) = {}
    BY <1>1, SlotsNat DEF Holders, NoHold
  <2> QED BY <1>2, <2>1, FS_EmptySet DEF PinsCounted
<1>5. FileShows(Pool', inUse, Sure')
  <2> SUFFICES ASSUME NEW q \in inUse, Sure'[q] # Unset
               PROVE  file'[q] = Sure'[q]
    BY DEF FileShows, Pool
  <2>1. /\ q \in Pages /\ q \notin freed /\ Sure'[q] = Sure[q]
        /\ \A s \in failed : slots[s].page # q
    BY <1>1 DEF PTypeOK, Sure
  <2>2. CASE \E s \in Slots : slots[s].dirty /\ slots[s].page = q
    <3>1. PICK s \in Slots : slots[s].dirty /\ slots[s].page = q
      BY <2>2
    <3>2. s \in Slots \ failed /\ slots[s].loaded
      BY <2>1, <3>1 DEF Sound, SlotsKnown, Pool
    <3>3. slots[s].data = Sure[q]
      BY <2>1, <3>1, <3>2 DEF Sound, BuffersShow, Pool
    <3> QED BY <1>1, <2>1, <3>1, <3>2, <3>3, WrittenIs
  <2>3. CASE ~ \E s \in Slots : slots[s].dirty /\ slots[s].page = q
    <3>1. file'[q] = file[q]
      BY <1>1, <2>1, <2>3, WrittenIs
    <3>2. CASE InSlot(slots, q)
      <4>1. PICK s \in Slots : slots[s].loaded /\ slots[s].page = q
        BY <3>2 DEF InSlot
      <4>2. ~ slots[s].dirty /\ ~ Unmarked(hold, s)
        BY <1>1, <2>3, <4>1 DEF Unmarked, NoHold
      <4> QED BY <2>1, <3>1, <4>1, <4>2 DEF Sound, CleanWritten, Pool
    <3>3. CASE ~ InSlot(slots, q)
      BY <2>1, <3>1, <3>3 DEF Sound, FileShows, Pool
    <3> QED BY <3>2, <3>3
  <2> QED BY <2>2, <2>3
<1>6. Doubted(freed, Sure')
  BY <1>1 DEF Doubted, Sure, PTypeOK
<1> QED BY <1>1, <1>3, <1>4, <1>5, <1>6 DEF Sound, Pool

\* garry_pool_allocate of a page that was never given out, or was freed
LEMMA PlaceSound ==
  ASSUME PTypeOK, Sound(Pool, hold, inUse, freed, Sure), NEW p \in Pages,
         ~ InSlot(slots, p) \/ (p \in freed /\ p \notin inUse),
         Victim(Pool) # NoSlot, Place(p), hold' = hold, freed' = freed
  PROVE  Sound(Pool, hold, inUse, freed, Sure)'
<1>1. /\ Pool \in PoolType /\ Pool.slots = slots /\ Pool.file = file
      /\ hold \in [Threads -> HoldType] /\ inUse \in SUBSET Pages /\ freed \in SUBSET Pages
      /\ Sure \in TruthType
  BY PoolTyped, SureTyped DEF PTypeOK, Pool
<1>2. truth' = [truth EXCEPT ![p] = Unset] /\ inUse' = inUse \union {p}
  BY DEF Place
<1>3. /\ Sure' \in TruthType /\ Sure'[p] = Unset /\ Doubted(freed, Sure')
      /\ \A q \in Pages \ {p} : Sure'[q] = Sure[q]
  BY <1>1, <1>2 DEF Sure, PTypeOK, TruthType, Doubted
<1>4. inUse' \in SUBSET Pages /\ p \in inUse' /\ Zero \in Contents
  BY <1>1, <1>2, ContentsHas
<1> HIDE DEF Sure
<1>5. Sound(Refilled(Pool, p, Zero), hold, inUse', freed, Sure')
  BY <1>1, <1>2, <1>3, <1>4, RefilledSound
<1>6. Pool' = Refilled(Pool, p, Zero)
  BY DEF Place, Refilled, Pool
<1> QED BY <1>5, <1>6

-----------------------------------------------------------------------------
(***************************************************************************)
(* Copies of a page.  A page given out a second time can be in two slots,  *)
(* the one it had on the free list and the one allocate took: never in     *)
(* more, and in one at most once it is free again.                         *)
(***************************************************************************)
TwoCopies(ss) ==
  \A q, r, s \in Slots : /\ ss[q].loaded /\ ss[r].loaded /\ ss[s].loaded
                         /\ ss[q].page = ss[r].page /\ ss[r].page = ss[s].page
                         => q = r \/ r = s \/ q = s

OnceUnused(ss, use) ==
  \A r, s \in Slots : ss[r].loaded /\ ss[s].loaded /\ ss[r].page = ss[s].page
                         /\ ss[r].page \notin use => r = s

Copies(ss, use) == TwoCopies(ss) /\ OnceUnused(ss, use)

(***************************************************************************)
(* The free list as the code has it in the pages: L[1] .. L[n], none of    *)
(* them in use, and in every slot of one of them the link to the next.  A  *)
(* page of it may be in no slot; the list ends there when it gets there.   *)
(***************************************************************************)
After(n, L, i) == IF i < n THEN L[i + 1] ELSE NoPage

Linked(ss, n, L) ==
  \A i \in 1 .. n : \A s \in Slots : ss[s].loaded /\ ss[s].page = L[i]
                                        => ss[s].data = Link(After(n, L, i))

FreeList(n, L, head, use, fr) ==
  /\ \A i, j \in 1 .. n : L[i] = L[j] => i = j
  /\ \A i \in 1 .. n : L[i] \in fr /\ L[i] \notin use
  /\ head = IF n = 0 THEN NoPage ELSE L[1]

Lists(n) == [1 .. n -> Pages]

Chained(ss, head, use, fr) ==
  \E n \in Nat : \E L \in Lists(n) : FreeList(n, L, head, use, fr) /\ Linked(ss, n, L)

\* What slots hold, but for the pins and the dirty flags, and outside page p.
SameBut(ss, s2, p) ==
  \A s \in Slots : s2[s].loaded /\ s2[s].page # p =>
     ss[s].loaded /\ s2[s].page = ss[s].page /\ s2[s].data = ss[s].data

\* No page is in more slots, and none that is loaded has another content.
LEMMA SlotsKept ==
  ASSUME NEW ss, NEW s2, NEW use, NEW head, NEW fr,
         \A s \in Slots : s2[s].loaded => /\ ss[s].loaded /\ s2[s].page = ss[s].page
                                          /\ s2[s].data = ss[s].data \/ s2[s].page \in use
  PROVE  /\ Copies(ss, use) => Copies(s2, use)
         /\ Chained(ss, head, use, fr) => Chained(s2, head, use, fr)
<1>1. Copies(ss, use) => Copies(s2, use)
  BY DEF Copies, TwoCopies, OnceUnused
<1>2. ASSUME NEW n \in Nat, NEW L \in Lists(n), FreeList(n, L, head, use, fr), Linked(ss, n, L)
      PROVE  Linked(s2, n, L)
  BY <1>2 DEF FreeList, Linked
<1> QED BY <1>1, <1>2 DEF Chained

\* Taking the victim for a page: what becomes of its copies.
LEMMA RefilledCopies ==
  ASSUME NEW pl \in PoolType, Victim(pl) # NoSlot, NEW p \in Pages, NEW c, NEW use,
         Copies(pl.slots, use), ~ InSlot(pl.slots, p) \/ p \notin use,
         NEW use2, use \subseteq use2, ~ InSlot(pl.slots, p) \/ p \in use2
  PROVE  Copies(Refilled(pl, p, c).slots, use2)
<1> DEFINE v  == Victim(pl)
           ss == pl.slots
           s2 == [ss EXCEPT ![v] = Filled(p, c)]
<1>1. v \in Slots
  BY VictimIs
<1>2. /\ s2[v].loaded /\ s2[v].page = p
      /\ \A s \in Slots \ {v} : s2[s] = ss[s]
  BY <1>1 DEF Filled, PoolType
<1>3. Refilled(pl, p, c).slots = s2
  BY DEF Refilled
<1> HIDE DEF v, ss, s2
<1>4. TwoCopies(ss) /\ OnceUnused(ss, use)
  BY DEF Copies, ss
<1>5. \A r, s \in Slots : ss[r].loaded /\ ss[s].loaded /\ ss[r].page = p /\ ss[s].page = p => r = s
  BY <1>4 DEF OnceUnused, InSlot, ss
<1>6. TwoCopies(s2)
  <2> SUFFICES ASSUME NEW q \in Slots, NEW r \in Slots, NEW s \in Slots,
                      s2[q].loaded, s2[r].loaded, s2[s].loaded,
                      s2[q].page = s2[r].page, s2[r].page = s2[s].page,
                      q # r, r # s, q # s
               PROVE  FALSE
    BY DEF TwoCopies
  <2>1. CASE s2[q].page = p
    <3>1. \A x \in Slots, y \in Slots :
             x # v /\ y # v /\ s2[x].loaded /\ s2[y].loaded /\ s2[x].page = p /\ s2[y].page = p => x = y
      BY <1>2, <1>5
    <3> QED BY <2>1, <3>1
  <2>2. CASE s2[q].page # p
    <3>1. s2[q] = ss[q] /\ s2[r] = ss[r] /\ s2[s] = ss[s]
      BY <1>2, <2>2
    <3> QED BY <1>4, <3>1 DEF TwoCopies
  <2> QED BY <2>1, <2>2
<1>7. OnceUnused(s2, use2)
  <2> SUFFICES ASSUME NEW r \in Slots, NEW s \in Slots, s2[r].loaded, s2[s].loaded,
                      s2[r].page = s2[s].page, s2[r].page \notin use2
               PROVE  r = s
    BY DEF OnceUnused
  <2>1. CASE s2[r].page = p
    <3>1. \A x \in Slots : ss[x].loaded => ss[x].page # p
      BY <2>1 DEF InSlot, ss
    <3> QED BY <1>2, <2>1, <3>1
  <2>2. CASE s2[r].page # p
    <3>1. s2[r] = ss[r] /\ s2[s] = ss[s]
      BY <1>2, <2>2
    <3> QED BY <1>4, <3>1 DEF OnceUnused
  <2> QED BY <2>1, <2>2
<1> QED BY <1>3, <1>6, <1>7 DEF Copies

\* Taking the victim for a page touches no other page's slots.
LEMMA RefilledSame ==
  ASSUME NEW pl \in PoolType, Victim(pl) # NoSlot, NEW p \in Pages, NEW c
  PROVE  SameBut(pl.slots, Refilled(pl, p, c).slots, p)
<1>1. Victim(pl) \in Slots
  BY VictimIs
<1>2. Refilled(pl, p, c).slots = [pl.slots EXCEPT ![Victim(pl)] = Filled(p, c)]
  BY DEF Refilled
<1> QED BY <1>1, <1>2 DEF SameBut, Filled, PoolType

\* ... and no link of a list that the page is not on.
LEMMA SameLinks ==
  ASSUME NEW ss, NEW s2, NEW p, SameBut(ss, s2, p),
         NEW n \in Nat, NEW L \in Lists(n), \A i \in 1 .. n : L[i] # p, Linked(ss, n, L)
  PROVE  Linked(s2, n, L)
BY DEF SameBut, Linked

\* A page that is in no slot is brought in for a caller: nothing else changes.
LEMMA RefilledChain ==
  ASSUME NEW pl \in PoolType, Victim(pl) # NoSlot, NEW p \in Pages, NEW c, NEW use, p \in use,
         NEW head, NEW fr, Chained(pl.slots, head, use, fr)
  PROVE  Chained(Refilled(pl, p, c).slots, head, use, fr)
<1>1. PICK n \in Nat : \E L \in Lists(n) : FreeList(n, L, head, use, fr) /\ Linked(pl.slots, n, L)
  BY DEF Chained
<1>2. PICK L \in Lists(n) : FreeList(n, L, head, use, fr) /\ Linked(pl.slots, n, L)
  BY <1>1
<1>3. \A i \in 1 .. n : L[i] # p
  BY <1>2 DEF FreeList
<1>4. Linked(Refilled(pl, p, c).slots, n, L)
  BY <1>2, <1>3, RefilledSame, SameLinks
<1> QED BY <1>2, <1>4 DEF Chained

\* The head of the list is a page that was freed, in nobody's use; behind it
\* is the list without it, or none if the page is in no slot.
LEMMA HeadTaken ==
  ASSUME PTypeOK, Chained(slots, free_list_head, inUse, freed), free_list_head # NoPage
  PROVE  /\ free_list_head \in freed /\ free_list_head \notin inUse
         /\ \E n \in Nat : \E L \in Lists(n) :
               /\ FreeList(n, L, AfterHead(free_list_head), inUse \union {free_list_head}, freed)
               /\ Linked(slots, n, L)
<1> DEFINE p == free_list_head
           s == FindSlot(slots, p)
<1>1. PICK n \in Nat : \E L \in Lists(n) :
         FreeList(n, L, p, inUse, freed) /\ Linked(slots, n, L)
  BY DEF Chained
<1>2. PICK L \in Lists(n) : FreeList(n, L, p, inUse, freed) /\ Linked(slots, n, L)
  BY <1>1
<1>3. n # 0 /\ 1 \in 1 .. n /\ p = L[1] /\ n - 1 \in Nat
  BY <1>2 DEF FreeList
<1>4. p \in freed /\ p \notin inUse
  BY <1>2, <1>3 DEF FreeList
<1>5. CASE s = NoSlot
  <2>1. AfterHead(p) = NoPage
    BY <1>5 DEF AfterHead
  <2>2. PICK M : M = [i \in 1 .. 0 |-> p]
    OBVIOUS
  <2>3. M \in Lists(0) /\ FreeList(0, M, NoPage, inUse \union {p}, freed) /\ Linked(slots, 0, M)
    BY <2>2 DEF Lists, FreeList, Linked
  <2> QED BY <1>4, <2>1, <2>3
<1>6. CASE s # NoSlot
  <2>1. s \in Slots /\ slots[s].loaded /\ slots[s].page = p
    BY <1>6, FindSlotIs
  <2>2. slots[s].data = Link(After(n, L, 1))
    BY <1>2, <1>3, <2>1 DEF Linked
  <2>3. AfterHead(p) = After(n, L, 1)
    BY <1>6, <2>2 DEF AfterHead, Link
  <2>4. PICK M : M = [i \in 1 .. n - 1 |-> L[i + 1]]
    OBVIOUS
  <2> HIDE DEF p, s
  <2>5. \A i \in 1 .. n - 1 : i + 1 \in 1 .. n /\ M[i] = L[i + 1] /\ M[i] \in Pages
    <3>1. \A i \in 1 .. n - 1 : i + 1 \in 1 .. n /\ M[i] = L[i + 1]
      BY <1>3, <2>4
    <3> QED BY <3>1 DEF Lists
  <2>6. M \in Lists(n - 1)
    BY <2>4, <2>5 DEF Lists
  <2>7. FreeList(n - 1, M, AfterHead(p), inUse \union {p}, freed)
    <3>1. \A i, j \in 1 .. n - 1 : M[i] = M[j] => i = j
      <4> TAKE i, j \in 1 .. n - 1
      <4>1. L[i + 1] = L[j + 1] => i + 1 = j + 1
        BY <1>2, <2>5 DEF FreeList
      <4> QED BY <2>5, <4>1
    <3>2. \A i \in 1 .. n - 1 : M[i] \in freed /\ M[i] \notin inUse \union {p}
      <4> TAKE i \in 1 .. n - 1
      <4>1. L[i + 1] \in freed /\ L[i + 1] \notin inUse
        BY <1>2, <2>5 DEF FreeList
      <4>2. L[i + 1] # L[1]
        <5>1. L[i + 1] = L[1] => i + 1 = 1
          BY <1>2, <1>3, <2>5 DEF FreeList
        <5> QED BY <5>1
      <4> QED BY <1>3, <2>5, <4>1, <4>2
    <3>3. AfterHead(p) = IF n - 1 = 0 THEN NoPage ELSE M[1]
      BY <1>3, <2>3, <2>5 DEF After
    <3> QED BY <3>1, <3>2, <3>3 DEF FreeList
  <2>8. Linked(slots, n - 1, M)
    <3> SUFFICES ASSUME NEW i \in 1 .. n - 1, NEW r \in Slots, slots[r].loaded, slots[r].page = M[i]
                 PROVE  slots[r].data = Link(After(n - 1, M, i))
      BY DEF Linked
    <3>1. i + 1 \in 1 .. n /\ slots[r].page = L[i + 1]
      BY <2>5
    <3>2. slots[r].data = Link(After(n, L, i + 1))
      BY <1>2, <3>1 DEF Linked
    <3>3. After(n, L, i + 1) = After(n - 1, M, i)
      <4>1. CASE i < n - 1
        <5>1. i + 1 \in 1 .. n - 1 /\ i + 1 < n
          BY <1>3, <4>1
        <5>2. M[i + 1] = L[(i + 1) + 1]
          BY <2>5, <5>1
        <5> QED BY <4>1, <5>1, <5>2 DEF After
      <4>2. CASE ~ (i < n - 1)
        <5>1. ~ (i + 1 < n)
          BY <1>3, <4>2
        <5> QED BY <4>2, <5>1 DEF After
      <4> QED BY <4>1, <4>2
    <3> QED BY <3>2, <3>3
  <2> QED BY <1>3, <1>4, <2>6, <2>7, <2>8 DEF p
<1> QED BY <1>5, <1>6

\* garry_pool_allocate takes the head off the list, with a slot for it or not.
LEMMA AllocateFreeChained ==
  ASSUME PTypeOK, Chained(slots, free_list_head, inUse, freed), NEW io, AllocateFree(io)
  PROVE  Chained(slots, free_list_head, inUse, freed)'
<1> DEFINE p == free_list_head
<1>1. p # NoPage /\ free_list_head' = AfterHead(p) /\ freed' = freed /\ p \in Pages
  BY DEF AllocateFree, PTypeOK
<1>2. PICK n \in Nat : \E L \in Lists(n) :
         FreeList(n, L, AfterHead(p), inUse \union {p}, freed) /\ Linked(slots, n, L)
  BY <1>1, HeadTaken
<1>3. PICK L \in Lists(n) :
         FreeList(n, L, AfterHead(p), inUse \union {p}, freed) /\ Linked(slots, n, L)
  BY <1>2
<1>4. CASE CanEvict(Pool, io)
  <2>1. /\ slots' = Refilled(Pool, p, Zero).slots /\ inUse' = inUse \union {p}
        /\ Victim(Pool) # NoSlot /\ Pool \in PoolType /\ Pool.slots = slots
    BY <1>4, PoolTyped DEF AllocateFree, Place, CanEvict, Pool
  <2>2. SameBut(slots, slots', p)
    BY <1>1, <2>1, RefilledSame
  <2>3. \A i \in 1 .. n : L[i] # p
    BY <1>3 DEF FreeList
  <2>4. Linked(slots', n, L)
    BY <1>3, <2>2, <2>3, SameLinks
  <2> QED BY <1>1, <1>3, <2>1, <2>4 DEF Chained
<1>5. CASE ~ CanEvict(Pool, io)
  <2>1. slots' = slots /\ inUse' = inUse
    BY <1>5 DEF AllocateFree
  <2>2. FreeList(n, L, AfterHead(p), inUse, freed)
    BY <1>3 DEF FreeList
  <2> QED BY <1>1, <1>3, <2>1, <2>2 DEF Chained
<1> QED BY <1>4, <1>5

-----------------------------------------------------------------------------
(* Freeing a page. *)

\* Nobody has the page: nothing is claimed of what it shows from here on.
LEMMA ForgetSound ==
  ASSUME PTypeOK, Sound(Pool, hold, inUse, freed, Sure), NEW p \in inUse,
         \A t \in Threads : hold[t].page # p,
         NEW tr \in TruthType, tr[p] = Unset, \A q \in Pages \ {p} : tr[q] = Sure[q]
  PROVE  Sound(Pool, hold, inUse \ {p}, freed \union {p}, tr)
<1>1. Pool.slots = slots /\ Pool.file = file /\ inUse \subseteq Pages /\ freed \subseteq Pages
  BY DEF Pool, PTypeOK
<1>2. \A s \in Slots : slots[s].loaded => slots[s].page \in Pages
  BY <1>1 DEF Sound, SlotsKnown
<1>3. OneSlot(slots, freed \union {p})
  BY <1>1 DEF Sound, OneSlot
<1>4. SlotsKnown(slots, inUse \ {p}, freed \union {p})
  BY <1>1 DEF Sound, SlotsKnown
<1>5. HeldStays(slots, hold, inUse \ {p})
  BY <1>1 DEF Sound, HeldStays
<1>6. PinsCounted(slots, hold)
  BY <1>1 DEF Sound
<1>7. BuffersShow(slots, tr)
  BY <1>1, <1>2 DEF Sound, BuffersShow
<1>8. CleanWritten(Pool, hold, tr)
  BY <1>1, <1>2 DEF Sound, CleanWritten
<1>9. FileShows(Pool, inUse \ {p}, tr)
  BY <1>1 DEF Sound, FileShows
<1>10. Doubted(freed \union {p}, tr)
  BY <1>1 DEF Sound, Doubted
<1> QED BY <1>1, <1>3, <1>4, <1>5, <1>6, <1>7, <1>8, <1>9, <1>10 DEF Sound

\* The first slot of the page is dropped; what the file has of it does not matter.
LEMMA DropSound ==
  ASSUME PTypeOK, NEW p \in Pages, NEW use, NEW fr, NEW tr, p \in fr, p \notin use,
         use \subseteq Pages,
         Sound(Pool, hold, use, fr, tr), NEW out \in PoolType, DropsPage(p, out)
  PROVE  Sound(out, hold, use, fr, tr)
<1>1. CASE out = Pool
  BY <1>1
<1>2. CASE out # Pool
  <2>1. PICK s \in Slots : /\ slots[s].loaded /\ slots[s].page = p
                           /\ out.slots = [slots EXCEPT ![s] = Dropped(slots[s])]
                           /\ \A q \in Pages \ {p} : out.file[q] = file[q]
    BY <1>2 DEF DropsPage
  <2> DEFINE ss == out.slots
  <2>2. /\ ~ ss[s].loaded /\ ~ ss[s].dirty /\ ss[s].pin = 0
        /\ \A r \in Slots \ {s} : ss[r] = slots[r]
    BY <2>1 DEF Dropped, PTypeOK, SlotType
  <2>3. Pool.slots = slots /\ Pool.file = file
    BY DEF Pool
  <2> HIDE DEF ss
  <2>4. tr[p] = Unset
    BY DEF Sound, Doubted
  <2>5. Holders(hold, s) = {}
    <3>1. \A t \in Threads : hold[t].slot = s => hold[t] # NoHold
      BY SlotsNat DEF NoHold
    <3> QED BY <2>1, <2>3, <3>1 DEF Sound, HeldStays, Holders
  <2>6. OneSlot(ss, fr) /\ SlotsKnown(ss, use, fr) /\ BuffersShow(ss, tr)
    BY <2>2, <2>3 DEF Sound, OneSlot, SlotsKnown, BuffersShow
  <2>7. HeldStays(ss, hold, use)
    BY <2>2, <2>3, <2>5 DEF Sound, HeldStays, Holders
  <2>8. PinsCounted(ss, hold)
    BY <2>2, <2>3, <2>5, FS_EmptySet DEF Sound, PinsCounted
  <2>9. CleanWritten(out, hold, tr)
    <3> SUFFICES ASSUME NEW r \in Slots, ss[r].loaded, ~ ss[r].dirty, ~ Unmarked(hold, r),
                        tr[ss[r].page] # Unset
                 PROVE  out.file[ss[r].page] = tr[ss[r].page]
      BY DEF CleanWritten, ss
    <3>1. ss[r] = slots[r] /\ ss[r].page \in Pages /\ ss[r].page # p
      <4>1. r # s
        BY <2>2
      <4>2. slots[r] \in SlotType /\ ss[r] = slots[r]
        BY <2>2, <4>1 DEF PTypeOK
      <4>3. slots[r].page \in use \union fr
        BY <2>3, <4>2 DEF Sound, SlotsKnown
      <4> QED BY <2>4, <4>2, <4>3 DEF Sound, Doubted
    <3> QED BY <2>1, <2>3, <3>1 DEF Sound, CleanWritten
  <2>10. FileShows(out, use, tr)
    <3> SUFFICES ASSUME NEW q \in use, ~ InSlot(ss, q), tr[q] # Unset PROVE out.file[q] = tr[q]
      BY DEF FileShows, ss
    <3>1. q # p /\ q \in Pages /\ ~ InSlot(slots, q)
      BY <2>1, <2>2 DEF InSlot
    <3> QED BY <2>1, <2>3, <3>1 DEF Sound, FileShows
  <2> QED BY <2>6, <2>7, <2>8, <2>9, <2>10 DEF Sound, ss
<1> QED BY <1>1, <1>2

\* The link is written on a slot of the page.
LEMMA LinkSound ==
  ASSUME NEW p \in Pages, NEW use, NEW fr, NEW tr, p \in fr, NEW pl \in PoolType,
         Sound(pl, hold, use, fr, tr), LinksPage(p, pl), file' = pl.file
  PROVE  Sound(Pool', hold, use, fr, tr)
<1>1. Pool'.slots = slots' /\ Pool'.file = pl.file
  BY DEF Pool
<1>2. CASE slots' = pl.slots
  BY <1>1, <1>2 DEF Sound, CleanWritten, FileShows
<1>3. CASE slots' # pl.slots
  <2>1. PICK r \in Slots : /\ pl.slots[r].loaded /\ pl.slots[r].page = p
                           /\ slots' = [pl.slots EXCEPT ![r] = Linking(pl.slots[r], free_list_head)]
    BY <1>3 DEF LinksPage
  <2> DEFINE ss == pl.slots
  <2>2. \A s \in Slots : /\ slots'[s].loaded = ss[s].loaded /\ slots'[s].page = ss[s].page
                         /\ slots'[s].pin = ss[s].pin
                         /\ s # r => slots'[s] = ss[s]
    BY <2>1 DEF Linking, PoolType, SlotType
  <2> HIDE DEF ss
  <2>3. ss[r].loaded /\ ss[r].page = p /\ tr[p] = Unset
    BY <2>1 DEF Sound, Doubted, ss
  <2>4. OneSlot(slots', fr) /\ SlotsKnown(slots', use, fr)
    BY <2>2, <2>3 DEF Sound, OneSlot, SlotsKnown, ss
  <2>5. HeldStays(slots', hold, use) /\ PinsCounted(slots', hold)
    BY <2>2 DEF Sound, HeldStays, PinsCounted, ss
  <2>6. BuffersShow(slots', tr)
    BY <2>2, <2>3 DEF Sound, BuffersShow, ss
  <2>7. CleanWritten(Pool', hold, tr)
    BY <1>1, <2>2, <2>3 DEF Sound, CleanWritten, ss
  <2>8. FileShows(Pool', use, tr)
    BY <1>1, <2>2 DEF Sound, FileShows, InSlot, ss
  <2> QED BY <1>1, <2>4, <2>5, <2>6, <2>7, <2>8 DEF Sound
<1> QED BY <1>2, <1>3

\* garry_pool_free_page keeps what holds of the other pages.
LEMMA FreeSound ==
  ASSUME PTypeOK, Sound(Pool, hold, inUse, freed, Sure), NEW p \in Pages, NEW io \in BOOLEAN,
         FreePage(p, io)
  PROVE  Sound(Pool, hold, inUse, freed, Sure)'
<1> DEFINE use == inUse \ {p}
           fr  == freed \union {p}
<1>1. /\ p \in inUse /\ \A t \in Threads : hold[t].page # p
      /\ inUse' = use /\ freed' = fr /\ truth' = [truth EXCEPT ![p] = Unset] /\ hold' = hold
  BY DEF FreePage
<1>2. /\ use \in SUBSET Pages /\ fr \in SUBSET Pages /\ p \in fr /\ p \notin use
      /\ hold \in [Threads -> HoldType]
  BY DEF PTypeOK
<1>3. PICK tr : tr = Sure'
  OBVIOUS
<1>4. tr \in TruthType /\ tr[p] = Unset /\ \A q \in Pages \ {p} : tr[q] = Sure[q]
  BY <1>1, <1>3 DEF Sure, TruthType, PTypeOK
<1>5. PICK out \in PoolType, pl \in PoolType :
         /\ DropsPage(p, out) /\ ReloadsPage(p, out, pl) /\ LinksPage(p, pl)
         /\ age' = pl.age /\ file' = pl.file
  BY FreeSteps
<1>6. Sound(Pool, hold, use, fr, tr)
  BY <1>1, <1>4, ForgetSound
<1> HIDE DEF use, fr
<1>7. Sound(out, hold, use, fr, tr)
  BY <1>2, <1>5, <1>6, DropSound
<1>8. Sound(pl, hold, use, fr, tr)
  <2>1. CASE pl = out
    BY <1>7, <2>1
  <2>2. CASE pl # out
    <3>1. PICK c \in Contents : pl = Refilled(out, p, c)
      BY <1>5, <2>2 DEF ReloadsPage
    <3>2. ~ InSlot(out.slots, p) /\ Victim(out) # NoSlot
      BY <1>5, <2>2 DEF ReloadsPage
    <3>3. Doubted(fr, tr)
      BY <1>7 DEF Sound
    <3> QED BY <1>2, <1>4, <1>7, <3>1, <3>2, <3>3, RefilledSound
  <2> QED BY <2>1, <2>2
<1>9. Sound(Pool', hold, use, fr, tr)
  BY <1>2, <1>5, <1>8, LinkSound
<1> QED BY <1>1, <1>3, <1>9

\* Slots that keep all but page p keep it in two steps as in one.
LEMMA SameTwice ==
  ASSUME NEW s1, NEW s2, NEW s3, NEW p, SameBut(s1, s2, p), SameBut(s2, s3, p)
  PROVE  SameBut(s1, s3, p)
BY DEF SameBut

\* garry_pool_free_page leaves the other pages' slots, and of the page's own
\* slots one at most, with the link on it.
LEMMA FreeSlots ==
  ASSUME PTypeOK, Copies(slots, inUse), NEW p \in Pages, NEW io \in BOOLEAN, FreePage(p, io)
  PROVE  /\ SameBut(slots, slots', p)
         /\ Copies(slots', inUse \ {p})
         /\ \A s \in Slots : slots'[s].loaded /\ slots'[s].page = p
                                => slots'[s].data = Link(free_list_head)
<1> DEFINE use == inUse \ {p}
<1>1. PICK out \in PoolType, pl \in PoolType :
         DropsPage(p, out) /\ ReloadsPage(p, out, pl) /\ LinksPage(p, pl)
  BY FreeSteps
<1>2. SameBut(slots, out.slots, p) /\ Copies(out.slots, use)
  <2>1. CASE ~ InSlot(slots, p) /\ out = Pool
    <3>1. out.slots = slots
      BY <2>1 DEF Pool
    <3>2. \A s \in Slots : slots[s].loaded => slots[s].page # p
      BY <2>1 DEF InSlot
    <3>3. SameBut(slots, slots, p)
      BY DEF SameBut
    <3>4. Copies(slots, use)
      BY <3>2 DEF Copies, OnceUnused
    <3> QED BY <3>1, <3>3, <3>4
  <2>2. CASE ~ (~ InSlot(slots, p) /\ out = Pool)
    <3>1. PICK s \in Slots : /\ slots[s].loaded /\ slots[s].page = p
                             /\ out.slots = [slots EXCEPT ![s] = Dropped(slots[s])]
      BY <1>1, <2>2 DEF DropsPage
    <3> DEFINE ss == out.slots
    <3>2. ~ ss[s].loaded /\ \A r \in Slots \ {s} : ss[r] = slots[r]
      BY <3>1 DEF Dropped, PTypeOK, SlotType
    <3> HIDE DEF ss
    <3>3. SameBut(slots, ss, p)
      BY <3>2 DEF SameBut
    <3>4. TwoCopies(ss)
      <4> SUFFICES ASSUME NEW q \in Slots, NEW r \in Slots, NEW x \in Slots,
                          ss[q].loaded, ss[r].loaded, ss[x].loaded,
                          ss[q].page = ss[r].page, ss[r].page = ss[x].page
                   PROVE  q = r \/ r = x \/ q = x
        BY DEF TwoCopies
      <4>1. ss[q] = slots[q] /\ ss[r] = slots[r] /\ ss[x] = slots[x]
        BY <3>2
      <4> QED BY <4>1 DEF Copies, TwoCopies
    <3>5. OnceUnused(ss, use)
      <4> SUFFICES ASSUME NEW q \in Slots, NEW r \in Slots, ss[q].loaded, ss[r].loaded,
                          ss[q].page = ss[r].page, ss[q].page \notin use
                   PROVE  q = r
        BY DEF OnceUnused
      <4>1. ss[q] = slots[q] /\ ss[r] = slots[r] /\ q # s /\ r # s
        BY <3>2
      <4>2. CASE ss[q].page = p
        BY <3>1, <4>1, <4>2 DEF Copies, TwoCopies
      <4>3. CASE ss[q].page # p
        BY <4>1, <4>3 DEF Copies, OnceUnused
      <4> QED BY <4>2, <4>3
    <3> QED BY <3>3, <3>4, <3>5 DEF Copies, ss
  <2> QED BY <2>1, <2>2
<1>3. SameBut(slots, pl.slots, p) /\ Copies(pl.slots, use)
  <2>1. CASE pl = out
    BY <1>2, <2>1
  <2>2. CASE pl # out
    <3>1. PICK c \in Contents : pl = Refilled(out, p, c)
      BY <1>1, <2>2 DEF ReloadsPage
    <3>2. ~ InSlot(out.slots, p) /\ Victim(out) # NoSlot
      BY <1>1, <2>2 DEF ReloadsPage
    <3>3. SameBut(out.slots, pl.slots, p)
      BY <3>1, <3>2, RefilledSame
    <3>4. Copies(pl.slots, use)
      BY <1>2, <3>1, <3>2, RefilledCopies
    <3> QED BY <1>2, <3>3, <3>4, SameTwice
  <2> QED BY <2>1, <2>2
<1>4. CASE ~ InSlot(pl.slots, p) /\ slots' = pl.slots
  <2>1. \A s \in Slots : slots'[s].loaded => slots'[s].page # p
    BY <1>4 DEF InSlot
  <2> QED BY <1>3, <1>4, <2>1
<1>5. CASE ~ (~ InSlot(pl.slots, p) /\ slots' = pl.slots)
  <2>1. PICK r \in Slots : /\ pl.slots[r].loaded /\ pl.slots[r].page = p
                           /\ slots' = [pl.slots EXCEPT ![r] = Linking(pl.slots[r], free_list_head)]
    BY <1>1, <1>5 DEF LinksPage
  <2> DEFINE ss == pl.slots
  <2>2. /\ slots'[r].data = Link(free_list_head)
        /\ \A s \in Slots : /\ slots'[s].loaded = ss[s].loaded /\ slots'[s].page = ss[s].page
                            /\ s # r => slots'[s] = ss[s]
    BY <2>1 DEF Linking, PoolType, SlotType
  <2> HIDE DEF ss, use
  <2>3. ss[r].loaded /\ ss[r].page = p /\ SameBut(slots, ss, p) /\ Copies(ss, use)
    BY <1>3, <2>1 DEF ss
  <2>4. SameBut(ss, slots', p)
    BY <2>2, <2>3 DEF SameBut
  <2>5. Copies(slots', use)
    BY <2>2, <2>3 DEF Copies, TwoCopies, OnceUnused
  <2>6. ASSUME NEW s \in Slots, slots'[s].loaded, slots'[s].page = p PROVE s = r
    BY <2>2, <2>3, <2>6 DEF Copies, OnceUnused, use
  <2>7. SameBut(slots, slots', p)
    BY <2>3, <2>4, SameTwice
  <2> QED BY <2>2, <2>5, <2>6, <2>7 DEF use
<1> QED BY <1>1, <1>4, <1>5

\* The page goes to the head of the list.
LEMMA FreeChained ==
  ASSUME PTypeOK, Copies(slots, inUse), Chained(slots, free_list_head, inUse, freed),
         NEW p \in Pages, NEW io \in BOOLEAN, FreePage(p, io)
  PROVE  Chained(slots, free_list_head, inUse, freed)'
<1> DEFINE head == free_list_head
<1>1. /\ free_list_head' = p /\ inUse' = inUse \ {p} /\ freed' = freed \union {p} /\ p \in inUse
  BY DEF FreePage
<1>2. PICK n \in Nat : \E L \in Lists(n) :
         FreeList(n, L, head, inUse, freed) /\ Linked(slots, n, L)
  BY DEF Chained
<1>3. PICK L \in Lists(n) : FreeList(n, L, head, inUse, freed) /\ Linked(slots, n, L)
  BY <1>2
<1>4. \A i \in 1 .. n : L[i] # p /\ L[i] \in Pages /\ L[i] \in freed /\ L[i] \notin inUse
  BY <1>1, <1>3 DEF FreeList, Lists
<1>5. Linked(slots', n, L)
  BY <1>3, <1>4, FreeSlots, SameLinks
<1>6. \A s \in Slots : slots'[s].loaded /\ slots'[s].page = p => slots'[s].data = Link(head)
  BY FreeSlots
<1>7. PICK M : M = [i \in 1 .. n + 1 |-> IF i = 1 THEN p ELSE L[i - 1]]
  OBVIOUS
<1> HIDE DEF head
<1>8. /\ M[1] = p /\ 1 \in 1 .. n + 1
      /\ \A i \in 2 .. n + 1 : i \in 1 .. n + 1 /\ i - 1 \in 1 .. n /\ M[i] = L[i - 1]
      /\ \A i \in 1 .. n + 1 : i = 1 \/ i \in 2 .. n + 1
  BY <1>7
<1>9. M \in Lists(n + 1)
  BY <1>4, <1>7, <1>8 DEF Lists
<1>10. FreeList(n + 1, M, p, inUse \ {p}, freed \union {p})
  <2>1. ASSUME NEW i \in 1 .. n + 1, NEW j \in 1 .. n + 1, M[i] = M[j] PROVE i = j
    <3>1. CASE i = 1 /\ j = 1
      BY <3>1
    <3>2. CASE i = 1 /\ j \in 2 .. n + 1
      BY <1>4, <1>8, <2>1, <3>2
    <3>3. CASE i \in 2 .. n + 1 /\ j = 1
      BY <1>4, <1>8, <2>1, <3>3
    <3>4. CASE i \in 2 .. n + 1 /\ j \in 2 .. n + 1
      <4>1. L[i - 1] = L[j - 1] /\ i - 1 \in 1 .. n /\ j - 1 \in 1 .. n
        BY <1>8, <2>1, <3>4
      <4>2. i - 1 = j - 1
        BY <1>3, <4>1 DEF FreeList
      <4> QED BY <4>2
    <3> QED BY <1>8, <3>1, <3>2, <3>3, <3>4
  <2>2. \A i \in 1 .. n + 1 : M[i] \in freed \union {p} /\ M[i] \notin inUse \ {p}
    BY <1>4, <1>8
  <2>3. p = IF n + 1 = 0 THEN NoPage ELSE M[1]
    BY <1>8
  <2> QED BY <2>1, <2>2, <2>3 DEF FreeList
<1>11. Linked(slots', n + 1, M)
  <2> SUFFICES ASSUME NEW i \in 1 .. n + 1, NEW s \in Slots, slots'[s].loaded, slots'[s].page = M[i]
               PROVE  slots'[s].data = Link(After(n + 1, M, i))
    BY DEF Linked
  <2>1. CASE i = 1
    <3>1. After(n + 1, M, 1) = head
      <4>1. CASE n = 0
        BY <1>3, <4>1 DEF After, FreeList
      <4>2. CASE n # 0
        <5>1. 2 \in 2 .. n + 1 /\ M[2] = L[2 - 1] /\ 1 < n + 1
          BY <1>8, <4>2
        <5>2. M[1 + 1] = L[1]
          BY <5>1
        <5> QED BY <1>3, <4>2, <5>1, <5>2 DEF After, FreeList
      <4> QED BY <4>1, <4>2
    <3> QED BY <1>6, <1>8, <2>1, <3>1
  <2>2. CASE i # 1
    <3>1. i \in 2 .. n + 1 /\ i - 1 \in 1 .. n /\ M[i] = L[i - 1]
      BY <1>8, <2>2
    <3>2. slots'[s].data = Link(After(n, L, i - 1))
      BY <1>5, <3>1 DEF Linked
    <3>3. After(n, L, i - 1) = After(n + 1, M, i)
      <4>1. CASE i < n + 1
        <5>1. i + 1 \in 2 .. n + 1 /\ i - 1 < n
          BY <3>1, <4>1
        <5>2. M[i + 1] = L[(i + 1) - 1] /\ (i + 1) - 1 = (i - 1) + 1
          BY <1>8, <5>1
        <5> QED BY <4>1, <5>1, <5>2 DEF After
      <4>2. CASE ~ (i < n + 1)
        <5>1. ~ (i - 1 < n)
          BY <3>1, <4>2
        <5> QED BY <4>2, <5>1 DEF After
      <4> QED BY <4>1, <4>2
    <3> QED BY <3>2, <3>3
  <2> QED BY <2>1, <2>2
<1>12. n + 1 \in Nat
  OBVIOUS
<1> QED BY <1>1, <1>9, <1>10, <1>11, <1>12 DEF Chained

-----------------------------------------------------------------------------
\* The inductive invariant: the pages ever given out are those in use and
\* those freed, and the free list hangs together through the slots.
Shaped ==
  /\ inUse \union freed = 1 .. next_page - 1
  /\ Copies(slots, inUse)
  /\ Chained(slots, free_list_head, inUse, freed)

IPool ==
  /\ PTypeOK
  /\ Sound(Pool, hold, inUse, freed, Sure)
  /\ Shaped

\* The invariant holds of a new pool.
LEMMA InitSound == PInit => IPool
<1> SUFFICES ASSUME PInit PROVE IPool
  OBVIOUS
<1>1. PTypeOK
  BY InitTyped
<1>2. \A s \in Slots : ~ slots[s].loaded /\ ~ slots[s].dirty /\ slots[s].pin = 0
  BY DEF PInit, EmptySlot
<1>3. \A t \in Threads : hold[t] = NoHold
  BY DEF PInit
<1>4. inUse = {} /\ freed = {} /\ 1 .. next_page - 1 = {} /\ free_list_head = NoPage
  BY DEF PInit
<1>5. /\ OneSlot(slots, freed) /\ SlotsKnown(slots, inUse, freed) /\ BuffersShow(slots, Sure)
      /\ HeldStays(slots, hold, inUse) /\ CleanWritten(Pool, hold, Sure)
  BY <1>2, <1>3 DEF OneSlot, SlotsKnown, BuffersShow, HeldStays, CleanWritten, Pool
<1>6. PinsCounted(slots, hold)
  <2>1. \A s \in Slots : Holders(hold, s) = {}
    BY <1>3, SlotsNat DEF Holders, NoHold
  <2> QED BY <1>2, <2>1, FS_EmptySet DEF PinsCounted
<1>7. FileShows(Pool, inUse, Sure) /\ Doubted(freed, Sure)
  BY <1>4 DEF FileShows, Doubted
<1>8. Copies(slots, inUse)
  BY <1>2 DEF Copies, TwoCopies, OnceUnused
<1>9. Chained(slots, free_list_head, inUse, freed)
  <2>1. PICK M : M = [i \in 1 .. 0 |-> 1]
    OBVIOUS
  <2>2. M \in Lists(0) /\ FreeList(0, M, free_list_head, inUse, freed) /\ Linked(slots, 0, M)
    BY <1>4, <2>1 DEF Lists, FreeList, Linked
  <2> QED BY <2>2 DEF Chained
<1>10. Sound(Pool, hold, inUse, freed, Sure)
  BY <1>5, <1>6, <1>7 DEF Sound, Pool
<1> QED BY <1>1, <1>4, <1>8, <1>9, <1>10 DEF IPool, Shaped

\* A step that loads no page, and writes only pages in use, keeps the shape.
LEMMA ShapeKept ==
  ASSUME Shaped, UNCHANGED <<next_page, free_list_head, inUse, freed>>,
         \A s \in Slots : slots'[s].loaded =>
            /\ slots[s].loaded /\ slots'[s].page = slots[s].page
            /\ slots'[s].data = slots[s].data \/ slots'[s].page \in inUse
  PROVE  Shaped'
<1>1. Copies(slots', inUse) /\ Chained(slots', free_list_head, inUse, freed)
  BY SlotsKept DEF Shaped
<1> QED BY <1>1 DEF Shaped

\* garry_pool_pin_page and garry_pool_try_pin
LEMMA PinShaped ==
  ASSUME PTypeOK, Shaped, NEW t \in Threads, NEW p \in inUse, NEW io,
         NEW pl \in PoolType, FindSlot(pl.slots, p) # NoSlot,
         pl = Pool \/ (pl = Loaded(Pool, p) /\ Loads(Pool, p, io)), TakePin(t, p, pl)
  PROVE  Shaped'
<1>1. p \in Pages /\ Pool \in PoolType /\ Pool.slots = slots
  BY PoolTyped DEF PTypeOK, Pool
<1>2. Copies(pl.slots, inUse) /\ Chained(pl.slots, free_list_head, inUse, freed)
  <2>1. CASE pl = Pool \/ FindSlot(slots, p) # NoSlot
    BY <1>1, <2>1 DEF Loaded, Shaped
  <2>2. CASE pl # Pool /\ FindSlot(slots, p) = NoSlot
    <3>1. PICK c : c = WriteBack(Pool, Victim(Pool))[p]
      OBVIOUS
    <3>2. pl = Refilled(Pool, p, c) /\ Victim(Pool) # NoSlot
      BY <1>1, <2>2, <3>1 DEF Loaded, Loads, CanEvict
    <3>3. ~ InSlot(slots, p)
      BY <2>2, FindSlotIs DEF InSlot
    <3>4. Copies(Refilled(Pool, p, c).slots, inUse)
      BY <1>1, <3>2, <3>3, RefilledCopies DEF Shaped
    <3>5. Chained(Refilled(Pool, p, c).slots, free_list_head, inUse, freed)
      BY <1>1, <3>2, RefilledChain DEF Shaped
    <3> QED BY <3>2, <3>4, <3>5
  <2> QED BY <2>1, <2>2
<1>3. \A s \in Slots : /\ slots'[s].loaded = pl.slots[s].loaded
                       /\ slots'[s].page = pl.slots[s].page
                       /\ slots'[s].data = pl.slots[s].data
  BY DEF TakePin, PoolType, SlotType
<1>4. Copies(slots', inUse) /\ Chained(slots', free_list_head, inUse, freed)
  BY <1>2, <1>3, SlotsKept
<1> QED BY <1>4 DEF TakePin, Shaped

\* Every operation keeps the invariant.
LEMMA SoundNext ==
  ASSUME IPool, [PNext]_poolVars
  PROVE  IPool'
<1>1. PTypeOK /\ PTypeOK' /\ Sound(Pool, hold, inUse, freed, Sure) /\ Shaped
  BY TypeNext DEF IPool
<1> DEFINE Goal == Sound(Pool, hold, inUse, freed, Sure)' /\ Shaped'
<1>2. ASSUME NEW t \in Threads, NEW p \in Pages, NEW io \in BOOLEAN, Pin(t, p, io) PROVE Goal
  <2>1. p \in inUse /\ Loads(Pool, p, io) /\ hold[t] = NoHold /\ TakePin(t, p, Loaded(Pool, p))
    BY <1>2 DEF Pin
  <2>2. Loaded(Pool, p) \in PoolType /\ FindSlot(Loaded(Pool, p).slots, p) # NoSlot
    BY <1>1, <2>1, PoolTyped, LoadedIs
  <2>3. Sound(Loaded(Pool, p), hold, inUse, freed, Sure)
    BY <1>1, <2>1, LoadedSound
  <2>4. Sound(Pool, hold, inUse, freed, Sure)'
    BY <1>1, <2>1, <2>2, <2>3, TakePinSound
  <2>5. Shaped'
    BY <1>1, <2>1, <2>2, PinShaped
  <2> QED BY <2>4, <2>5
<1>3. ASSUME NEW t \in Threads, NEW p \in Pages, TryPin(t, p) PROVE Goal
  <2>1. /\ p \in inUse /\ hold[t] = NoHold /\ TakePin(t, p, Pool)
        /\ FindSlot(Pool.slots, p) # NoSlot /\ Pool \in PoolType
    BY <1>1, <1>3, PoolTyped DEF TryPin, Pool
  <2>2. Sound(Pool, hold, inUse, freed, Sure)'
    BY <1>1, <2>1, TakePinSound
  <2>3. Shaped'
    BY <1>1, <2>1, PinShaped
  <2> QED BY <2>2, <2>3
<1>4. ASSUME NEW t \in Threads, NEW d \in Data, Write(t, d) PROVE Goal
  <2>1. hold[t].slot \in Slots /\ slots[hold[t].slot].page \in inUse
    BY <1>1, <1>4, HolderSlot DEF Write
  <2>2. \A s \in Slots : /\ slots'[s].loaded = slots[s].loaded /\ slots'[s].page = slots[s].page
                         /\ s # hold[t].slot => slots'[s].data = slots[s].data
    BY <1>1, <1>4, <2>1 DEF Write, PTypeOK, SlotType
  <2>3. UNCHANGED <<next_page, free_list_head, inUse, freed>>
    BY <1>4 DEF Write
  <2>4. Shaped'
    BY <1>1, <2>1, <2>2, <2>3, ShapeKept
  <2> QED BY <1>1, <1>4, <2>4, WriteSound
<1>5. ASSUME NEW t \in Threads, MarkDirty(t) PROVE Goal
  <2>1. \A s \in Slots : /\ slots'[s].loaded = slots[s].loaded /\ slots'[s].page = slots[s].page
                         /\ slots'[s].data = slots[s].data
    BY <1>1, <1>5 DEF MarkDirty, PTypeOK, SlotType
  <2>2. UNCHANGED <<next_page, free_list_head, inUse, freed>>
    BY <1>5 DEF MarkDirty
  <2>3. Shaped'
    BY <1>1, <2>1, <2>2, ShapeKept
  <2> QED BY <1>1, <1>5, <2>3, MarkDirtySound
<1>6. ASSUME NEW t \in Threads, Release(t) PROVE Goal
  <2>1. \A s \in Slots : /\ slots'[s].loaded = slots[s].loaded /\ slots'[s].page = slots[s].page
                         /\ slots'[s].data = slots[s].data
    BY <1>1, <1>6 DEF Release, PTypeOK, SlotType
  <2>2. UNCHANGED <<next_page, free_list_head, inUse, freed>>
    BY <1>6 DEF Release
  <2>3. Shaped'
    BY <1>1, <2>1, <2>2, ShapeKept
  <2> QED BY <1>1, <1>6, <2>3, ReleaseSound
<1>7. ASSUME NEW io \in BOOLEAN, AllocateFree(io) PROVE Goal
  <2> DEFINE p == free_list_head
  <2>1. p # NoPage /\ next_page' = next_page /\ hold' = hold /\ freed' = freed /\ p \in Pages
    BY <1>1, <1>7 DEF AllocateFree, PTypeOK
  <2>2. p \in freed /\ p \notin inUse
    BY <1>1, <2>1, HeadTaken DEF Shaped
  <2>3. Chained(slots, free_list_head, inUse, freed)'
    BY <1>1, <1>7, AllocateFreeChained DEF Shaped
  <2>4. CASE CanEvict(Pool, io)
    <3>1. Place(p) /\ Victim(Pool) # NoSlot /\ Pool \in PoolType /\ Pool.slots = slots
      BY <1>1, <1>7, <2>4, PoolTyped DEF AllocateFree, CanEvict, Pool
    <3>2. Sound(Pool, hold, inUse, freed, Sure)'
      BY <1>1, <2>1, <2>2, <3>1, PlaceSound
    <3>3. slots' = Refilled(Pool, p, Zero).slots /\ inUse' = inUse \union {p}
      BY <3>1 DEF Place
    <3>4. Copies(Refilled(Pool, p, Zero).slots, inUse')
      BY <1>1, <2>1, <2>2, <3>1, <3>3, RefilledCopies DEF Shaped
    <3>5. inUse' \union freed' = 1 .. next_page' - 1
      BY <1>1, <2>1, <2>2, <3>3 DEF Shaped
    <3> QED BY <2>3, <3>2, <3>3, <3>4, <3>5 DEF Shaped
  <2>5. CASE ~ CanEvict(Pool, io)
    <3>1. UNCHANGED <<slots, age, file, inUse, truth>>
      BY <1>7, <2>5 DEF AllocateFree
    <3>2. Pool' = Pool /\ Sure' = Sure
      BY <2>1, <3>1 DEF Pool, Sure
    <3> QED BY <1>1, <2>1, <2>3, <3>1, <3>2 DEF Shaped
  <2> QED BY <2>4, <2>5
<1>8. ASSUME NEW io \in BOOLEAN, AllocateNew(io) PROVE Goal
  <2> DEFINE p == next_page
  <2>1. p \in Pages /\ p \in Nat /\ p \notin inUse \union freed
    BY <1>1, <1>8, PoolAssumption DEF AllocateNew, PTypeOK, Pages, Shaped
  <2>2. /\ Victim(Pool) # NoSlot /\ Place(p) /\ hold' = hold /\ freed' = freed
        /\ next_page' = p + 1 /\ free_list_head' = free_list_head
    BY <1>8 DEF AllocateNew, CanEvict
  <2>3. Pool \in PoolType /\ Pool.slots = slots
    BY <1>1, PoolTyped DEF Pool
  <2>4. ~ InSlot(slots, p)
    BY <1>1, <2>1, <2>3 DEF Sound, SlotsKnown, InSlot
  <2> HIDE DEF p
  <2>5. Sound(Pool, hold, inUse, freed, Sure)'
    BY <1>1, <2>1, <2>2, <2>4, PlaceSound
  <2>6. slots' = Refilled(Pool, p, Zero).slots /\ inUse' = inUse \union {p}
    BY <2>2 DEF Place
  <2>7. Copies(Refilled(Pool, p, Zero).slots, inUse')
    <3>1. Copies(slots, inUse) /\ inUse \subseteq inUse' /\ p \notin inUse
      BY <1>1, <2>1, <2>6 DEF Shaped
    <3> QED BY <2>1, <2>2, <2>3, <2>4, <3>1, RefilledCopies
  <2>8. Chained(slots', free_list_head, inUse', freed)
    <3>1. PICK n \in Nat : \E L \in Lists(n) :
             FreeList(n, L, free_list_head, inUse, freed) /\ Linked(slots, n, L)
      BY <1>1 DEF Shaped, Chained
    <3>2. PICK L \in Lists(n) : FreeList(n, L, free_list_head, inUse, freed) /\ Linked(slots, n, L)
      BY <3>1
    <3>3. FreeList(n, L, free_list_head, inUse', freed) /\ \A i \in 1 .. n : L[i] # p
      BY <2>1, <2>6, <3>2 DEF FreeList
    <3>4. Linked(slots', n, L)
      BY <2>1, <2>2, <2>3, <2>6, <3>2, <3>3, RefilledSame, SameLinks
    <3> QED BY <3>3, <3>4 DEF Chained
  <2>9. inUse' \union freed' = 1 .. next_page' - 1
    <3>1. inUse \union freed = 1 .. p - 1
      BY <1>1 DEF Shaped, p
    <3>2. next_page' - 1 = p /\ 1 .. p = (1 .. p - 1) \union {p}
      BY <2>1, <2>2 DEF Pages
    <3> QED BY <2>2, <2>6, <3>1, <3>2
  <2> QED BY <2>2, <2>5, <2>6, <2>7, <2>8, <2>9 DEF Shaped
<1>9. ASSUME NEW io \in BOOLEAN, NEW p \in Pages, FreePage(p, io) PROVE Goal
  <2>1. /\ inUse' = inUse \ {p} /\ freed' = freed \union {p} /\ next_page' = next_page
        /\ p \in inUse
    BY <1>9 DEF FreePage
  <2>2. Copies(slots', inUse')
    BY <1>1, <1>9, <2>1, FreeSlots DEF Shaped
  <2>3. Chained(slots, free_list_head, inUse, freed)'
    BY <1>1, <1>9, FreeChained DEF Shaped
  <2>4. inUse' \union freed' = 1 .. next_page' - 1
    BY <1>1, <2>1 DEF Shaped
  <2>5. Sound(Pool, hold, inUse, freed, Sure)'
    BY <1>1, <1>9, FreeSound
  <2> QED BY <2>2, <2>3, <2>4, <2>5 DEF Shaped
<1>10. ASSUME NEW S \in SUBSET Slots, Flush(S),
              UNCHANGED <<next_page, free_list_head, hold, inUse, freed, truth>>
       PROVE  Goal
  <2>1. \A s \in Slots : /\ slots'[s].loaded = slots[s].loaded /\ slots'[s].page = slots[s].page
                         /\ slots'[s].data = slots[s].data
    BY <1>1, <1>10 DEF Flush, PTypeOK, SlotType
  <2>2. Shaped'
    BY <1>1, <1>10, <2>1, ShapeKept
  <2> QED BY <1>1, <1>10, <2>2, FlushSound
<1>11. ASSUME NEW p \in Pages, FlushPage(p) PROVE Goal
  <2>1. {FindSlot(slots, p)} \in SUBSET Slots
    BY <1>11, FindSlotIs DEF FlushPage
  <2> QED BY <1>10, <1>11, <2>1 DEF FlushPage
<1>12. ASSUME NEW n \in Slots, FlushAll(n) PROVE Goal
  <2>1. 1 .. n \in SUBSET Slots
    BY PoolAssumption DEF Slots
  <2> QED BY <1>10, <1>12, <2>1 DEF FlushAll
<1>13. ASSUME NEW failed \in SUBSET Slots, Close(failed) PROVE Goal
  <2>1. \A s \in Slots : ~ slots'[s].loaded
    BY <1>13 DEF Close, EmptySlot
  <2>2. UNCHANGED <<next_page, free_list_head, inUse, freed>>
    BY <1>13 DEF Close
  <2>3. Shaped'
    BY <1>1, <2>1, <2>2, ShapeKept
  <2> QED BY <1>1, <1>13, <2>3, CloseSound
<1>14. ASSUME UNCHANGED poolVars PROVE Goal
  <2>1. /\ Pool' = Pool /\ Sure' = Sure /\ slots' = slots
        /\ UNCHANGED <<next_page, free_list_head, hold, inUse, freed>>
    BY <1>14 DEF poolVars, Pool, Sure
  <2>2. Sound(Pool, hold, inUse, freed, Sure)'
    BY <1>1, <2>1
  <2>3. Shaped'
    BY <1>1, <2>1 DEF Shaped
  <2> QED BY <2>2, <2>3
<1> HIDE DEF Goal
<1>15. Goal
  BY <1>2, <1>3, <1>4, <1>5, <1>6, <1>7, <1>8, <1>9, <1>11, <1>12, <1>13, <1>14 DEF PNext
<1> QED BY <1>1, <1>15 DEF IPool, Goal

\* The state of the pool keeps its types whatever callers do, frees included.
THEOREM PoolTypeCorrect == PSpec => []PTypeOK
<1>1. PInit => PTypeOK
  BY InitTyped
<1>2. PTypeOK /\ [PNext]_poolVars => PTypeOK'
  BY TypeNext
<1> QED BY <1>1, <1>2, PTL DEF PSpec

\* The invariant holds throughout.
LEMMA PoolIsSound == PSpec => []IPool
<1>1. PInit => IPool
  BY InitSound
<1>2. IPool /\ [PNext]_poolVars => IPool'
  BY SoundNext
<1> QED BY <1>1, <1>2, PTL DEF PSpec

\* A buffer got from garry_pool_pin_page is its caller's until the release,
\* and the pins of a slot are those of its holders, whatever is pinned,
\* allocated, freed, evicted and flushed meanwhile, for any number of threads,
\* slots and pages.
THEOREM PinnedBuffersStay == PSpec => []PinsHold
<1>1. IPool => PinsHold
  BY DEF IPool, Sound, HeldStays, PinsCounted, Holders, PinsHold, Pool
<1> QED BY <1>1, PoolIsSound, PTL

\* A pin of a page that was never freed shows what was last written on it,
\* through evictions, flushes, failed writes, close and open, and whatever
\* becomes of the pages that are freed and given out again.
THEOREM PoolKeepsPages == PSpec => []PoolCoherent
<1>1. ASSUME IPool PROVE PoolCoherent
  <2> SUFFICES ASSUME NEW p \in inUse \ freed, truth[p] # Unset PROVE Shown(p) = truth[p]
    BY DEF PoolCoherent
  <2>1. /\ Sound(Pool, hold, inUse, freed, Sure) /\ PTypeOK /\ p \in Pages
        /\ Sure[p] = truth[p]
    BY <1>1, SureTyped DEF IPool, PTypeOK
  <2> HIDE DEF Sure
  <2>2. CASE FindSlot(slots, p) = NoSlot
    <3>1. ~ InSlot(slots, p)
      BY <2>2, FindSlotIs DEF InSlot
    <3> QED BY <2>1, <2>2, <3>1 DEF Shown, Sound, FileShows, Pool
  <2>3. CASE FindSlot(slots, p) # NoSlot
    <3> DEFINE s == FindSlot(slots, p)
    <3>1. s \in Slots /\ slots[s].loaded /\ slots[s].page = p
      BY <2>3, FindSlotIs
    <3>2. Shown(p) = slots[s].data
      BY <2>3 DEF Shown
    <3> HIDE DEF s
    <3> QED BY <2>1, <3>1, <3>2 DEF Sound, BuffersShow, Pool
  <2> QED BY <2>2, <2>3
<1>2. IPool => PoolCoherent
  BY <1>1
<1> QED BY <1>2, PoolIsSound, PTL

\* garry_pool_allocate never takes from the free list a page in somebody's
\* use, nor reads as a link what is none, however many pages are freed, given
\* out again, evicted and left in two slots.
THEOREM FreeListIsSound == PSpec => []FreeListSound
<1>1. ASSUME IPool PROVE FreeListSound
  <2> SUFFICES ASSUME free_list_head # NoPage
               PROVE  /\ free_list_head \notin inUse
                      /\ FindSlot(slots, free_list_head) # NoSlot
                            => slots[FindSlot(slots, free_list_head)].data.tag = "free"
    BY DEF FreeListSound
  <2>1. PTypeOK /\ Chained(slots, free_list_head, inUse, freed)
    BY <1>1 DEF IPool, Shaped
  <2>2. PICK n \in Nat : \E L \in Lists(n) :
           FreeList(n, L, free_list_head, inUse, freed) /\ Linked(slots, n, L)
    BY <2>1 DEF Chained
  <2>3. PICK L \in Lists(n) : FreeList(n, L, free_list_head, inUse, freed) /\ Linked(slots, n, L)
    BY <2>2
  <2>4. 1 \in 1 .. n /\ free_list_head = L[1] /\ free_list_head \notin inUse
    BY <2>3 DEF FreeList
  <2>5. ASSUME FindSlot(slots, free_list_head) # NoSlot
        PROVE  slots[FindSlot(slots, free_list_head)].data.tag = "free"
    <3> DEFINE s == FindSlot(slots, free_list_head)
    <3>1. s \in Slots /\ slots[s].loaded /\ slots[s].page = L[1]
      BY <2>4, <2>5, FindSlotIs
    <3> HIDE DEF s
    <3>2. slots[s].data = Link(After(n, L, 1))
      BY <2>3, <2>4, <3>1 DEF Linked
    <3>3. slots[s].data.tag = "free"
      BY <3>2 DEF Link
    <3> QED BY <3>3 DEF s
  <2> QED BY <2>4, <2>5
<1>2. IPool => FreeListSound
  BY <1>1
<1> QED BY <1>2, PoolIsSound, PTL
=============================================================================
