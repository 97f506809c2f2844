------------------------------ MODULE Overflow -------------------------------
(***************************************************************************)
(* Values that do not fit in a chain page (src/version_chain.c): the value  *)
(* is cut into chunks, one overflow page each, linked by a pointer; the     *)
(* entry of the chain keeps the head page and the length.                   *)
(*                                                                          *)
(* garry_storage_set writes the value twice: garry_make_update_record       *)
(* (src/wal_record.c) first writes a chain of its own for the record in the *)
(* log, of the value as it was passed, when that is longer than the         *)
(* record's field; then garry_mvcc_set writes the version, of the value as  *)
(* it was compressed.  Nothing gives the pages of a record back.            *)
(*                                                                          *)
(* One key.  The log record and the version are two steps, between which    *)
(* the setter keeps root_lock; a get and the pruning of the chain are one   *)
(* step each under that lock.  The version iterator copies the chain page   *)
(* in one step and then reads the overflow pages one by one without the     *)
(* lock.  A page holds a chunk <<v, i>>: the i-th chunk of v.               *)
(*                                                                          *)
(* What can fail: an allocation or a pin in the middle of a write; the      *)
(* append of the log record, after which the set goes on; the pin of the    *)
(* previous page, whose link is then silently not written; the              *)
(* append to a full chain, after the value was written; the pin of a page   *)
(* that is read; and the freeing of a page that is not in the pool.         *)
(***************************************************************************)
EXTENDS VersionChain, Functions

CONSTANTS Chunks,     \* Chunks[v]: overflow pages of v; 0: it is stored inline
          LogForm,    \* LogForm[v]: what the log record of a set of v holds, the
                      \* value before compression
          ChainCap,   \* entries a chain page has room for
          MaxTxn,     \* bound: transactions begun
          MaxPage,    \* bound: overflow pages the file grows to
          MaxSets     \* bound: calls of set and delete

ASSUME OverflowAssumption ==
    /\ Chunks \in [Values -> Nat] /\ LogForm \in [Values -> Values]
    /\ ChainCap \in Nat /\ MaxTxn \in Nat /\ MaxPage \in Nat /\ MaxSets \in Nat

VARIABLES total,     \* pages 0 .. total - 1 have been allocated
          free,      \* the free list, head first
          pg,        \* contents of the allocated pages
          chain,     \* the chain page: entries [txn, val, head, cut]
          next_txid, active, rolledBack,
          lock,      \* holder of the exclusive lock of the key, 0: nobody
          wal,       \* the log records with overflow pages: [txn, val, head, cut]
          setting,   \* the set whose record was logged and whose version is to
                     \* come, <<transaction, value>>; it holds root_lock
          iter,      \* the open version iterator
          leaked,    \* history: pages lost by a write or a free that failed
          sets       \* calls of set and delete so far

vars == <<total, free, pg, chain, next_txid, active, rolledBack, lock, wal, setting,
          iter, leaked, sets>>

Txns == 1 .. MaxTxn
NoPage == -1
NoIter == [open |-> FALSE]
NoSet == << >>

(* The bytes of v: its chunks in order. *)
Whole(v) == [i \in 1 .. Chunks[v] |-> <<v, i>>]

IsLarge(e) == e.val # Tombstone /\ Chunks[e.val] > 0

------------------------------------------------------------------------------
(* The pages a walk of n pages from head visits; NoPage behind the end. *)
Path(pages, head, n) ==
    LET p[i \in 1 .. n] ==
          IF i = 1 THEN head
          ELSE IF p[i - 1] = NoPage THEN NoPage ELSE pages[p[i - 1]].next
    IN  p

PathPages(pages, e) ==
    IF IsLarge(e) THEN {Path(pages, e.head, Chunks[e.val])[i] :
                          i \in 1 .. Chunks[e.val]} \ {NoPage}
                  ELSE {}

(* Variant: the walk takes what it copied for the value. *)
OverflowReadPartial(pages, e) ==
    [ok |-> TRUE,
     data |-> LET p == Path(pages, e.head, Chunks[e.val])
                  got == SelectSeq([i \in 1 .. Chunks[e.val] |-> p[i]],
                                   LAMBDA x : x # NoPage)
              IN  [i \in DOMAIN got |-> pages[got[i]].data]]

(* garry_overflow_read: it fails when the walk ends before all bytes are
   copied. *)
OverflowRead(pages, e) ==
    LET p == Path(pages, e.head, Chunks[e.val])
        ok == \A i \in 1 .. Chunks[e.val] : p[i] # NoPage
    IN  [ok |-> ok,
         data |-> IF ok THEN [i \in 1 .. Chunks[e.val] |-> pages[p[i]].data] ELSE <<>>]

(* Variant: a tombstone does not end the scan. *)
FindLargePastTombstone(t, unread) ==
    LET Readable(i) == \/ ~IsLarge(chain[i])
                       \/ i \notin unread /\ OverflowRead(pg, chain[i]).ok
        slots == {i \in VisibleAt(chain, t, active) : Readable(i) /\ chain[i].val # Tombstone}
        e == chain[Newest(slots)]
    IN  IF slots = {} \/ e.val = Tombstone THEN [val |-> NotFound, data |-> <<>>]
        ELSE [val |-> e.val, data |-> IF IsLarge(e) THEN OverflowRead(pg, e).data ELSE <<>>]

(* garry_chain_page_find_visible with the values: from the newest visible entry
   to older ones while the overflow pages of an entry cannot be read; unread is
   the set of entries one of whose pages cannot be pinned. *)
FindLarge(t, unread) ==
    LET Readable(i) == \/ ~IsLarge(chain[i])
                       \/ i \notin unread /\ OverflowRead(pg, chain[i]).ok
        slots == {i \in VisibleAt(chain, t, active) : Readable(i)}
        e == chain[Newest(slots)]
    IN  IF slots = {} \/ e.val = Tombstone THEN [val |-> NotFound, data |-> <<>>]
        ELSE [val |-> e.val, data |-> IF IsLarge(e) THEN OverflowRead(pg, e).data ELSE <<>>]

------------------------------------------------------------------------------
OInit ==
    /\ total = 0 /\ free = <<>> /\ pg = <<>>
    /\ chain = <<>>
    /\ next_txid = 1 /\ active = {} /\ rolledBack = {}
    /\ lock = 0
    /\ wal = <<>> /\ setting = NoSet
    /\ iter = NoIter
    /\ leaked = {}
    /\ sets = 0

IsActive(t) == t \in active \ rolledBack

(* The calls of one transaction come one after the other. *)
InSet(t) == setting # NoSet /\ setting[1] = t

Begin ==
    /\ next_txid <= MaxTxn
    /\ active' = active \union {next_txid}
    /\ next_txid' = next_txid + 1
    /\ UNCHANGED <<total, free, pg, chain, rolledBack, lock, wal, setting, iter, leaked, sets>>

Commit(t) ==
    /\ IsActive(t) /\ ~InSet(t)
    /\ active' = active \ {t}
    /\ lock' = IF lock = t THEN 0 ELSE lock
    /\ UNCHANGED <<total, free, pg, chain, next_txid, rolledBack, wal, setting, iter,
                   leaked, sets>>

Rollback(t) ==
    /\ IsActive(t) /\ ~InSet(t)
    /\ rolledBack' = rolledBack \union {t}
    /\ lock' = IF lock = t THEN 0 ELSE lock
    /\ UNCHANGED <<total, free, pg, chain, next_txid, active, wal, setting, iter,
                   leaked, sets>>

------------------------------------------------------------------------------
(* The pages garry_pool_allocate hands out for n calls: the free list, then new
   ones. *)
Allocated(n) ==
    [i \in 1 .. n |-> IF i <= Len(free) THEN free[i] ELSE total + i - Len(free) - 1]

FreeAfter(n) == SubSeq(free, n + 1, Len(free))

TotalAfter(n) == IF n > Len(free) THEN total + n - Len(free) ELSE total

(* Variant: the last page keeps the pointer it had before. *)
WrittenPagesStale(ids, v, lost) ==
    [p \in 0 .. TotalAfter(Len(ids)) - 1 |->
        IF \E i \in DOMAIN ids : ids[i] = p
        THEN LET i == CHOOSE j \in DOMAIN ids : ids[j] = p
             IN  [next |-> IF i < Len(ids) /\ i \notin lost THEN ids[i + 1]
                           ELSE IF p \in DOMAIN pg THEN pg[p].next ELSE NoPage,
                  data |-> <<v, i>>]
        ELSE pg[p]]

(* The pages after garry_overflow_write has filled ids: the link of page i is
   written when page i + 1 has been allocated, unless its pin fails. *)
WrittenPages(ids, v, lost) ==
    [p \in 0 .. TotalAfter(Len(ids)) - 1 |->
        IF \E i \in DOMAIN ids : ids[i] = p
        THEN LET i == CHOOSE j \in DOMAIN ids : ids[j] = p
             IN  [next |-> IF i < Len(ids) /\ i \notin lost THEN ids[i + 1] ELSE NoPage,
                  data |-> <<v, i>>]
        ELSE pg[p]]

CanSet(t) == IsActive(t) /\ setting = NoSet /\ lock \in {0, t} /\ sets < MaxSets

(* garry_make_update_record for a value that does not fit in the record, and
   garry_wal_log_append; lost are the links that were not written. *)
LogUpdate(t, v, lost) ==
    LET n == Chunks[LogForm[v]]
        ids == Allocated(n)
        rec == [txn |-> t, val |-> LogForm[v], head |-> ids[1], cut |-> lost # {}]
        reached == PathPages(pg', rec)
    IN  /\ CanSet(t)
        /\ n > 0
        /\ TotalAfter(n) <= MaxPage
        /\ pg' = WrittenPages(ids, LogForm[v], lost)
        /\ free' = FreeAfter(n)
        /\ total' = TotalAfter(n)
        /\ wal' = Append(wal, rec)
        /\ setting' = <<t, v>>
        /\ lock' = t
        /\ leaked' = leaked \union (Range(ids) \ reached)
        /\ UNCHANGED <<chain, next_txid, active, rolledBack, iter, sets>>

(* The pages after a garry_overflow_write that fails when n pages are written:
   no page is to be had, or the page it got (got = 1) cannot be pinned and is
   freed again. *)
PagesAfterFailure(v, n, got) ==
    LET written == WrittenPages(Allocated(n), v, {})
    IN  [p \in 0 .. TotalAfter(n + got) - 1 |->
            IF p \in DOMAIN written THEN written[p] ELSE [next |-> NoPage, data |-> <<>>]]

FreeAfterFailure(n, got) ==
    (IF got = 1 THEN <<Allocated(n + 1)[n + 1]>> ELSE <<>>) \o FreeAfter(n + got)

(* garry_overflow_write fails after n pages of the record, or all are written
   and garry_wal_log_append fails: there is no record, the n pages stay
   allocated and the set goes on. *)
LogUpdateFails(t, v, n, got) ==
    /\ CanSet(t)
    /\ Chunks[LogForm[v]] > 0
    /\ n + got <= Chunks[LogForm[v]]
    /\ TotalAfter(n + got) <= MaxPage
    /\ pg' = PagesAfterFailure(LogForm[v], n, got)
    /\ free' = FreeAfterFailure(n, got)
    /\ total' = TotalAfter(n + got)
    /\ setting' = <<t, v>>
    /\ lock' = t
    /\ leaked' = leaked \union Range(Allocated(n))
    /\ UNCHANGED <<chain, next_txid, active, rolledBack, wal, iter, sets>>

(* The version of v is next: its record is written, or fits in the log, as that
   of a delete does. *)
IsLogged(t, v) ==
    IF v = Tombstone \/ Chunks[LogForm[v]] = 0 THEN CanSet(t) ELSE setting = <<t, v>>

(* garry_mvcc_set of a value that fits in the chain page, and
   garry_mvcc_delete. *)
SetInline(t, v) ==
    /\ IsLogged(t, v) /\ CanAppend(chain, ChainCap)
    /\ chain' = Append(chain, [txn |-> t, val |-> v, head |-> NoPage, cut |-> FALSE])
    /\ lock' = t /\ sets' = sets + 1 /\ setting' = NoSet
    /\ UNCHANGED <<total, free, pg, next_txid, active, rolledBack, wal, iter, leaked>>

(* The chain page is full or cannot be pinned. *)
SetInlineFails(t, v) ==
    /\ IsLogged(t, v)
    /\ lock' = t /\ sets' = sets + 1 /\ setting' = NoSet
    /\ UNCHANGED <<total, free, pg, chain, next_txid, active, rolledBack, wal, iter, leaked>>

(* Variant: the version takes the pages of its log record. *)
SetLargeShares(t, v, lost) ==
    /\ IsLogged(t, v) /\ CanAppend(chain, ChainCap)
    /\ Chunks[v] > 0 /\ LogForm[v] = v
    /\ wal # <<>> /\ wal[Len(wal)].txn = t /\ wal[Len(wal)].val = v
    /\ chain' = Append(chain, wal[Len(wal)])
    /\ lock' = t /\ sets' = sets + 1 /\ setting' = NoSet
    /\ UNCHANGED <<total, free, pg, next_txid, active, rolledBack, wal, iter, leaked>>

(* garry_mvcc_set of a large value; lost are the links that were not written.
   The pages behind a lost link belong to nothing. *)
SetLarge(t, v, lost) ==
    LET ids == Allocated(Chunks[v])
        head == [txn |-> t, val |-> v, head |-> ids[1], cut |-> lost # {}]
        reached == PathPages(pg', head)
    IN  /\ IsLogged(t, v) /\ CanAppend(chain, ChainCap)
        /\ Chunks[v] > 0
        /\ TotalAfter(Chunks[v]) <= MaxPage
        /\ pg' = WrittenPages(ids, v, lost)
        /\ free' = FreeAfter(Chunks[v])
        /\ total' = TotalAfter(Chunks[v])
        /\ chain' = Append(chain, head)
        /\ lock' = t /\ sets' = sets + 1 /\ setting' = NoSet
        /\ leaked' = leaked \union (Range(ids) \ reached)
        /\ UNCHANGED <<next_txid, active, rolledBack, wal, iter>>

(* The chain page is full: garry_mvcc_set fails after garry_overflow_write. *)
SetLargeFull(t, v) ==
    LET ids == Allocated(Chunks[v]) IN
    /\ IsLogged(t, v) /\ ~CanAppend(chain, ChainCap)
    /\ Chunks[v] > 0
    /\ TotalAfter(Chunks[v]) <= MaxPage
    /\ pg' = WrittenPages(ids, v, {})
    /\ free' = FreeAfter(Chunks[v])
    /\ total' = TotalAfter(Chunks[v])
    /\ lock' = t /\ sets' = sets + 1 /\ setting' = NoSet
    /\ leaked' = leaked \union Range(ids)
    /\ UNCHANGED <<chain, next_txid, active, rolledBack, wal, iter>>

(* garry_overflow_write fails after n pages of the version, which stay
   allocated. *)
SetLargeFails(t, v, n, got) ==
    /\ IsLogged(t, v)
    /\ n < Chunks[v]
    /\ TotalAfter(n + got) <= MaxPage
    /\ pg' = PagesAfterFailure(v, n, got)
    /\ free' = FreeAfterFailure(n, got)
    /\ total' = TotalAfter(n + got)
    /\ lock' = t /\ sets' = sets + 1 /\ setting' = NoSet
    /\ leaked' = leaked \union Range(Allocated(n))
    /\ UNCHANGED <<chain, next_txid, active, rolledBack, wal, iter>>

------------------------------------------------------------------------------
Discarded == IF Len(chain) <= 1 THEN {}
             ELSE {i \in DOMAIN chain : ~Survives(chain, i, active)}

(* garry_overflow_free of the entry e: page after page goes to the head of the
   free list, until one is not in the pool; the first pooled pages of the value
   are. *)
OverflowFree(list, e, pooled) ==
    LET n == IF pooled < Chunks[e.val] THEN pooled ELSE Chunks[e.val]
        p == Path(pg, e.head, Chunks[e.val])
        Pushed[i \in 0 .. n] ==
          IF i = 0 THEN list
          ELSE IF p[i] = NoPage THEN Pushed[i - 1] ELSE <<p[i]>> \o Pushed[i - 1]
    IN  Pushed[n]

(* The free list after pruning has given back the pages of the discarded
   entries. *)
FreeAfterPrune(pooled) ==
    LET List[i \in 0 .. Len(chain)] ==
          IF i = 0 THEN free
          ELSE IF i \in Discarded /\ IsLarge(chain[i])
               THEN OverflowFree(List[i - 1], chain[i], pooled)
               ELSE List[i - 1]
    IN  List[Len(chain)]

(* garry_chain_page_prune under root_lock: free the pages of what goes, then
   rewrite the chain page.  pooled is the number of leading pages of a value
   that are in the pool.  With nothing to discard the page is rewritten as it
   is.  The collector's copy of the active list is the list
   itself here; what an older copy does to readers is the subject of MvccGC. *)
GcPrune(pooled) ==
    LET gone == UNION {PathPages(pg, chain[i]) : i \in Discarded}
    IN  /\ setting = NoSet
        /\ Discarded # {}
        /\ chain' = Prune(chain, active)
        /\ free' = FreeAfterPrune(pooled)
        /\ leaked' = leaked \union (gone \ Range(free'))
        /\ iter' = IF iter.open /\ \E i \in Discarded : IsLarge(chain[i])
                   THEN [iter EXCEPT !.stale = TRUE] ELSE iter
        /\ UNCHANGED <<total, pg, next_txid, active, rolledBack, lock, wal, setting, sets>>

------------------------------------------------------------------------------
(* garry_version_iter_open: the chain page is copied; the scan starts at its
   last entry.  One step, although the code pins and copies the page after it
   has released root_lock: a copy that is torn by a set or by the collector, or
   taken after the page was given away, is not modelled. *)
IterOpen ==
    /\ ~iter.open /\ chain # <<>> /\ setting = NoSet
    /\ iter' = [open |-> TRUE, copy |-> chain, slot |-> Len(chain), pid |-> NoPage,
                got |-> <<>>, out |-> <<>>, stale |-> FALSE, failed |-> FALSE]
    /\ UNCHANGED <<total, free, pg, chain, next_txid, active, rolledBack, lock, wal, setting,
                   leaked, sets>>

IterRunning == iter.open /\ ~iter.failed /\ iter.slot > 0

(* garry_version_iter_next on an inline value or a tombstone. *)
IterInline ==
    /\ IterRunning
    /\ ~IsLarge(iter.copy[iter.slot])
    /\ iter' = [iter EXCEPT !.out = Append(@, <<>>), !.slot = @ - 1]
    /\ UNCHANGED <<total, free, pg, chain, next_txid, active, rolledBack, lock, wal, setting,
                   leaked, sets>>

(* Variant: the next page is not followed. *)
IterPageStuck ==
    /\ IterRunning
    /\ IsLarge(iter.copy[iter.slot])
    /\ LET e == iter.copy[iter.slot]
           pid == IF iter.got = <<>> THEN e.head ELSE iter.pid
           got == Append(iter.got, pg[pid].data)
       IN  iter' = IF pid = NoPage THEN [iter EXCEPT !.failed = TRUE]
                   ELSE IF Len(got) = Chunks[e.val]
                   THEN [iter EXCEPT !.out = Append(@, got), !.got = <<>>,
                                     !.pid = NoPage, !.slot = @ - 1]
                   ELSE [iter EXCEPT !.got = got, !.pid = pid]
    /\ UNCHANGED <<total, free, pg, chain, next_txid, active, rolledBack, lock, wal, setting,
                   leaked, sets>>

(* One round of the loop of garry_overflow_read, called by
   garry_version_iter_next: the page is pinned, copied and released. *)
IterPage ==
    /\ IterRunning
    /\ IsLarge(iter.copy[iter.slot])
    /\ LET e == iter.copy[iter.slot]
           pid == IF iter.got = <<>> THEN e.head ELSE iter.pid
           got == Append(iter.got, pg[pid].data)
       IN  iter' = IF pid = NoPage THEN [iter EXCEPT !.failed = TRUE]
                   ELSE IF Len(got) = Chunks[e.val]
                   THEN [iter EXCEPT !.out = Append(@, got), !.got = <<>>,
                                     !.pid = NoPage, !.slot = @ - 1]
                   ELSE [iter EXCEPT !.got = got, !.pid = pg[pid].next]
    /\ UNCHANGED <<total, free, pg, chain, next_txid, active, rolledBack, lock, wal, setting,
                   leaked, sets>>

IterClose ==
    /\ iter.open
    /\ iter' = NoIter
    /\ UNCHANGED <<total, free, pg, chain, next_txid, active, rolledBack, lock, wal, setting,
                   leaked, sets>>

ONext ==
    \/ Begin
    \/ \E t \in Txns :
          \/ Commit(t) \/ Rollback(t)
          \/ \E v \in {Tombstone} \union {w \in Values : Chunks[w] = 0} :
                SetInline(t, v) \/ SetInlineFails(t, v)
          \/ \E v \in Values :
                \/ \E lost \in SUBSET (1 .. Chunks[LogForm[v]] - 1) : LogUpdate(t, v, lost)
                \/ \E n \in 0 .. Chunks[LogForm[v]], got \in {0, 1} :
                      LogUpdateFails(t, v, n, got)
                \/ \E lost \in SUBSET (1 .. Chunks[v] - 1) : SetLarge(t, v, lost)
                \/ SetLargeFull(t, v)
                \/ \E n \in 0 .. Chunks[v] - 1, got \in {0, 1} : SetLargeFails(t, v, n, got)
    \/ \E pooled \in UNION {0 .. Chunks[v] : v \in Values} : GcPrune(pooled)
    \/ IterOpen \/ IterInline \/ IterPage \/ IterClose

OSpec == OInit /\ [][ONext]_vars

------------------------------------------------------------------------------
Reachable == UNION {PathPages(pg, chain[i]) : i \in DOMAIN chain}
Logged == UNION {PathPages(pg, wal[i]) : i \in DOMAIN wal}

(* Each overflow page has one owner: it is on the free list once, or reached
   from exactly one version, or from exactly one log record, or was lost by a
   write or a free that failed (garry_overflow_write, garry_wal_log_append,
   garry_mvcc_set, garry_overflow_free); none of these overlap, and no other
   page is lost.  The pages of log records are never given back: the file grows
   with every set of a large value. *)
PagesAccounted ==
    /\ Len(free) = Cardinality(Range(free))
    /\ Range(free) \intersect (Reachable \union Logged) = {}
    /\ leaked \intersect (Range(free) \union Reachable \union Logged) = {}
    /\ Reachable \intersect Logged = {}
    /\ \A i, j \in DOMAIN chain :
          i # j => PathPages(pg, chain[i]) \intersect PathPages(pg, chain[j]) = {}
    /\ \A i, j \in DOMAIN wal :
          i # j => PathPages(pg, wal[i]) \intersect PathPages(pg, wal[j]) = {}
    /\ 0 .. total - 1 = Range(free) \union Reachable \union Logged \union leaked

(* Recovery can read the value of every log record none of whose links was
   lost, whatever sets, failures and collections came after it: the pages of a
   record outlive those of the version that was written with it. *)
LogRecordsWhole ==
    \A i \in DOMAIN wal :
        ~wal[i].cut => OverflowRead(pg, wal[i]) = [ok |-> TRUE, data |-> Whole(wal[i].val)]

(* A get returns the bytes of one version that is visible to it, all of them and
   nothing else, whichever pages cannot be read: after lost links, failed
   writes, pruning and the reuse of freed pages. *)
NoTornRead ==
    \A t \in active \ rolledBack : \A unread \in SUBSET DOMAIN chain :
        LET r == FindLarge(t, unread) IN
        r.val # NotFound =>
            /\ r.data = Whole(r.val)
            /\ \E i \in VisibleAt(chain, t, active) : chain[i].val = r.val

(* A get whose pages can be read, of a version none of whose links was lost,
   returns the newest version visible to it. *)
ReadsNewest ==
    \A t \in active \ rolledBack :
        LET slots == VisibleAt(chain, t, active) IN
        (slots # {} /\ ~chain[Newest(slots)].cut)
            => FindLarge(t, {}).val = FindVisible(chain, t, active)

(* The values an iterator has returned are those of the versions it copied,
   newest first, although sets by others and failures come between its page
   reads: unless the collector has discarded a large version meanwhile. *)
IterWhole ==
    iter.open /\ ~iter.stale =>
        \A i \in DOMAIN iter.out :
            LET e == iter.copy[Len(iter.copy) + 1 - i] IN
            IsLarge(e) => iter.out[i] = Whole(e.val)

(* The same without the exception: the iterator takes no lock that keeps the
   collector out. *)
IterNeverTorn ==
    iter.open =>
        \A i \in DOMAIN iter.out :
            LET e == iter.copy[Len(iter.copy) + 1 - i] IN
            IsLarge(e) => iter.out[i] = Whole(e.val)
==============================================================================
