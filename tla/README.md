# A TLA+ model of the Garry storage engine

Garry is an embedded key-value store in C: a B-tree maps keys to version chains,
transactions read and write versions (MVCC), a write-ahead log makes commits
durable, a page cache stands between all of it and the database file, and seven
language wrappers sit on top of a C interface. This directory models those parts,
checks them with TLC on small instances, and proves with TLAPS, for instances of any
size, that the transaction manager implements an abstract store, what recovery keeps
of committed data, what the collector leaves of open reads, that values that span
pages are read whole and own their pages, that the page cache and the slotted page
lose nothing, and how the wrappers own their transactions. Paths below are
relative to the repository; `PROJECT.json` maps every definition to the lines it models.

## 1. Inventory

| Component | State | Operations | Where |
|---|---|---|---|
| Transaction manager | active list, state per slot, next id | begin, commit, rollback, get, set, delete on a chain | `transaction.c` |
| Lock table | linked list of (transaction, key, mode) | acquire (never waits), release all, held, conflict | `lock_table.c` |
| Version chains | per key, a page of versions, oldest first; overflow pages | append, tombstone, find visible, prune, write and read values that span pages, iterate versions | `version_chain.c` |
| Storage layer | none of its own | get, set, delete, data; begin, commit, rollback | `storage_ops.c`, `storage_txn.c` |
| B-tree | nodes on pages, leaf links, root | search, insert, delete; load and store a node | `btree_*.c` |
| Cursors, navigation | page and slot of a cursor | open, next, peek, skip; first, last, next, previous | `btree_cursor.c`, `storage_cursor.c`, `storage_navigation.c` |
| Buffer pool | slots (page, pins, dirty), free list, next page | pin, try_pin, mark_dirty, release, allocate, free, flush, close | `buffer_pool.c` |
| Write-ahead log | file of records | append, sync | `wal_log.c`, `wal_record.c` |
| Recovery, open, close | header page | two-pass redo, header, flush | `wal_recovery.c`, `transaction.c`, `storage_engine.c` |
| Garbage collection | copy of the active list | prune chain pages | `gc.c` |
| Slotted pages, records | bytes of a page | init, insert, get; encode and decode entries and metadata | `slotted_page.c`, `record_codec.c` |
| Keys | bytes of a key | tuples, subscripts, prefixes, flat keys, compression | `key_encoding.c`, `hierarchical.c`, `keysplit.c`, `btree_compression.c` |
| C interface | database handles | one call per operation, with its status | `garry_api.c` |
| Wrappers | database, transaction and cursor objects | single-call methods, transactions, cursors, disposal | `wrappers/` (JavaScript, Godot, C#, Unity, Rust, Go, Delphi) |
| Checkpoint | - | collect, flush, truncate log | `wal_checkpoint.c` |
| Header, LZ4, platform | none | layout, compression, calls of the operating system | `db_header.c`, `lz4.c`, `platform_src/` |

**Interaction.** `garry_storage_set` takes a key lock, then `root_lock` for
writing, looks the key up in the B-tree or allocates a chain page and inserts the
key, logs an UPDATE record, and appends a version. `garry_storage_commit` appends
and syncs a COMMIT record, releases the locks, removes the slot from the active
list under `txn_slot_mutex`, and flushes the chain pages it modified.
`garry_storage_rollback` marks the slot and leaves it in the list, which hides its
versions. Readers walk a chain from its newest version and skip versions of newer
or active transactions. Everything is kept on pages that go through the pool. A
wrapper turns a method into one or more calls of the C interface and decides by
their status how the transaction it began is ended.

**What is hard.** Threads interleave between these pieces (the key locks are not
under any mutex). Memory and file drift apart until commit, eviction or close, and
a crash keeps any mixture. Recovery replays the whole log at each open. The
collector works with a copy of the active list, and the version iterator reads
pages one by one beside it. Nodes split and merge, and may fail half way when no
page can be had; a node that outgrows its page is cut. Cursors keep positions
across calls. Freed pages live on in the pool. Lengths change their encoding at 24,
128 and 256. Objects of a wrapper outlive their database or are disposed of in any
order. `PROJECT.json` lists these as hazards, each at its line.

**What makes each part correct.**
Transactions: no dirty reads, no dirty writes, locks exclusive and always
released, slots bounded, logged commits published; together, the abstract store of
`MvccStore`. Durability: after any end of a session, what is read is exactly what
was committed. Collector: no read changes. B-tree: search, scan and navigation
agree with the set of keys inserted; a node loads as it was stored. Cursor:
complete and ordered. Pool: a pinned buffer keeps its page, a page shows what was
last written on it, the free list gives out no page in use. Overflow: no page lost
or in two places, no torn value. Keys: what an encoder writes, its reader reads; a
prefix of bytes is an ancestor. Wrappers: no call on a freed database, no
transaction nobody can end, no failed or rolled-back write published, no list that
fills up by reading.

## 2. Modules

| Module | Models | Notes |
|---|---|---|
| `VersionChain` | chain pages | operators; a chain is a sequence of (creator, value or tombstone) |
| `LockTable` | lock table | operators over the set of nodes |
| `MvccEngine` | transactions of one session | extends the two operator modules |
| `MvccStore` | abstract transactional store | what clients are promised |
| `MvccRefinement` | `MvccEngine` implements `MvccStore` | the mapping |
| `Durability` | sessions, log, files, crash, recovery | composes `MvccEngine` with the disk |
| `MvccGC` | collector | composes `MvccEngine` with pruning |
| `Overflow` | values that span pages, version iterator, pruning | extends `VersionChain` |
| `BTree` | B-tree, navigation | recursive, TLC only |
| `BTreeCursor` | cursors | composes `BTree` with a scan |
| `BufferPool` | page cache and free list | with client threads |
| `SlottedPage` | slotted pages, byte by byte | |
| `RecordCodec` | integers, byte strings, entries, descriptors, node metadata | operators |
| `NodePage` | a node, its page, the page in the file | composes `SlottedPage` and `RecordCodec` |
| `KeyCodec` | keys as bytes | two keys, built and cut step by step |
| `GarryApi` | the C interface | operators on a record that stands for a database |
| `Bindings` | the seven wrappers | over `GarryApi` |
| `MvccEngineProofs`, `MvccReadsProofs`, `DurabilityProofs` | theorems about transactions | TLAPS; the last two extend the first |
| `OverflowProofs`, `BufferPoolProofs`, `NodePageProofs`, `KeyCodecProofs`, `BindingsProofs` | theorems about the other parts | TLAPS |
| `MC*` | instances for TLC | symmetry, and constants that a cfg cannot write |

Definitions called "Variant" in their comment are not part of the model. Each is
a plausible slip of the programmer in the definition that follows it; replacing
that definition by it breaks a property, which shows that the property depends on
the code (list `mutants` of `PROJECT.json`).

### MvccEngine
Variables are those of the code: `next_txid`, `active` (`active_txns`),
`rolledBack` (slots in state GARRY_TXN_ROLLED_BACK), `locks`, `tree` (keys with a
descriptor), `chain`, and `logged` (COMMIT record synced). `pc` and `op` say where
a thread is inside a call. The steps of a call are the pieces of code that run
under one lock:

| Call | Steps |
|---|---|
| `garry_storage_begin` | `Begin` |
| `garry_storage_set`, `_delete` | `AcquireLock`, `LinkNode`, then `ApplySet` or `ApplyDelete` |
| `garry_storage_commit` | `CommitLog`, `CommitRelease`, `CommitRemove`, `CommitFlush` |
| `garry_storage_rollback` | `RollbackRelease`, `RollbackMark` |

Reads are the operators `Read` and `Exists`. `EngineMutex` says whether the
application serialises calls that touch the lock table, as `lock_table.c` asks:
then nobody uses the table between another's conflict test and the insertion of
its node. If not, others may come in between, and a node may be lost when two
threads change the list at once. Reading a node that another thread has just freed
is not modelled.

### Durability
Adds what is in the two files: `wal`, `diskTree`, `diskChain` (per key, since
chain pages are flushed one by one) and `diskNext` (header). `Crash` keeps the
files and clears the rest; `Close` writes everything; `Open` runs recovery:
`CommittedIds`, `RecoveredNext`, then `ReplayRecord` over the log. `mine`, `truth`
and `everCommitted` are history. The constant `Env` selects the events of a run.

### MvccGC
Starts from a database with committed versions, since the collector looks only at
pages the header counts. `GcStart` copies the active list, `GcPrune` prunes one
page, `GcSkip` passes over a page that is not in the pool. Nothing in the engine
but the checkpoint calls the collector.

### Overflow
One key. A value is a number of chunks, one page each, linked; an entry keeps the
head and the length. A set writes a large value twice: `garry_make_update_record`
writes overflow pages for the log record (`LogUpdate`, `wal`), then `garry_mvcc_set`
those of the version (`SetLarge`). `LogForm` gives what the record holds, since the
version is compressed and the record is not. Nothing frees the pages of a record: a
file grows with every set of a large value, whatever is collected. A set may find
the pool exhausted after some pages are written (`SetLargeFails`; in `LogUpdateFails`
the set goes on without a record), silently miss a link (`lost`), or find the chain
page full after the value is written (`SetLargeFull`). Between the two writes the
set keeps `root_lock` (`setting`). `GcPrune` frees the pages of what
it discards, page after page at the head of the free list, as far as the pool has
them (`OverflowFree`). Set, get and prune run under `root_lock`
and do not come between its steps; the iterator reads page by page without it
(`IterPage`). The copy of the chain page that an iterator starts with is taken without
the lock as well, and is one step here (`IterOpen`).

### BTree, BTreeCursor
A node is a record of keys, values or children, and leaf links. An insertion is a
function of the pages: `LeafInsert`, `LeafSplit`, `TakeChild`, `InternalSplit`
below `InsertRec`, and `Insert` grows the root. The input `a` is the number of page
allocations that succeed. `Delete` merges with `Rebalanced`. `content` is history:
what is in the tree if every operation does what it reports. A cursor is a page and
a slot; insertions run between its calls.

### BufferPool
Slots as in the code; `age` ranks them by `last_access`, so that the wrap of the
32-bit `access_counter` is left out. Threads pin, write, mark dirty and release.
The input `io` is the success of a write to the file. `inUse`, `truth` and `freed`
are history.

### SlottedPage, RecordCodec, NodePage
A page is its header fields, its slot directory and its bytes. `PageInsert` is
`garry_page_insert` with its two checks for room; `recs` is history. `NodePage`
stores a node as the code does, one record per step: the page is cleared, the
records are inserted, and the slot is marked dirty at the end; a record that
does not fit ends the store there (`StoreCut`), before the mark. Every caller marks the
page itself, after the call (`CallerMarks`) or, in `leaf_split`, before it
(`markedBefore`), so that the beginning of a node that was cut replaces the old one in
the file, unless the pool takes the page between the return and the mark; `held` is
the node whose records the page then has. `EvictAndReload` writes a dirty page
or drops a clean one, and reads it back.

### KeyCodec
Encoders, readers and comparisons as operators on sequences of bytes. The two keys
of the state walk down (`Descend`) and up (`Ascend`) a hierarchy, from an empty key
or from one near the limit of 16 subscripts; `parts` remembers what they were built
from.

### GarryApi, Bindings
A database is a record: live handle, active list, rolled-back slots, lock of the
one key, ids with an UPDATE in the log, committed ids. A handle of 0 is NULL; a
call with a handle that was freed is recorded in `freed`, and nothing is said about
the behaviour after it. A write has an outcome: `ok`, `invalid` (refused before it
reaches the engine), `early` (fails before its UPDATE is logged) and `late` (fails
after). `Bindings` has one step per wrapper method, destructor, Dispose, Drop and
finalizer, except in Go: there a method reads the handle (`GoReadHandle`, `seen`) and
calls the library in the next step, and `Close`, which the finalizer calls too, frees
the database in one step and forgets it in the next (`GoClose`, `GoCloseForgets`).
`lang` is the wrapper, chosen at the start. `objs` are transaction and
cursor objects with the copy of the handle each keeps, `asked` the transactions
somebody meant to roll back.

## 3. Runs

Runs that pass:

| Run | Instance | Shows |
|---|---|---|
| `MvccSerial` | 4 transactions, 2 open at a time, list of 3, lock calls serialised | exclusion, release, no dirty write, slot limits reached and kept, commits published; the engine implements the store |
| `GcQuiet` | 4 transactions, lock calls not serialised, collector alone | no dirty read all the same; open reads unchanged by pruning, dirty writes apart |
| `DurClean` | 2 reopenings after clean closes, no deletes or rollbacks | every key has its last committed value |
| `DurCrash` | all events, 2 reopenings, lock calls not serialised | ids, keys and chain prefixes survive |
| `CursorScan` | 6 keys, one invisible, prefixes of two lengths, all insertion orders | search under splits up to three levels; scans complete |
| `TreeMerge` | 5 keys, 4 deletions | merges, shrinking, leaf links, navigation for every set of visible keys |
| `PoolCache` | 2 threads, 2 slots, 3 pages, failing writes, 1 page freed | pins, free list, coherence of the pages never freed |
| `NodePages` | 7 nodes, pages of 512 bytes, 3 stores | pages stay well formed; a node loads as it was stored; after a store that was cut the page has the beginning of one node, never a mixture |
| `OverflowPages` | a value of 2 chunks and one that is large in the log only, 2 transactions, 3 writes, 4 pages | every page in one place; log records stay readable; a get returns the newest visible value, whole; so does an iteration beside which nothing is collected |
| `KeyCodec` | subscripts of 0 to 253 bytes, integers, 0 to 16 subscripts | readers agree with encoders; byte prefixes are ancestors; splitting, separators and compression lose nothing |
| `Bindings` | all wrappers, 2 objects, 3 transactions, 2 openings | freed handles (Godot), orphaned transactions, revived rollbacks, published failures and used-up slots are excluded, for the wrappers each property names |

One run ends in a violation of a sentence of the repository (quoted in `findings`):
in `DurFirstWins` recovery keeps the first of several committed values, because it
skips each key that it finds in the tree, also one that it has just inserted.

**Bounds.** Four transactions, two of them open at a time, are enough for a writer,
a second writer that is refused or follows, and a reader; with rolled-back ones
that keep their slot they fill a list of three. Chains of two or three versions hold
an old, a current and a pending one. One key is enough for `MvccSerial` because a
step reads and changes the chain and the lock of one key; `DurClean` has two, since
pages are flushed one by one. Two reopenings let the second recovery meet what the
first one left. Nodes have the size of the build (`GARRY_MAX_KEYS_PER_NODE` = 3), so
six keys give three levels; `TreeMerge` stays with five keys, below the depth at which
`TreeDelete.cfg` finds the bare internal node. Two slots and three pages force
eviction; free lists of more pages are covered by the proof. A page of
512 bytes is the smallest on which nodes of three long keys do and do not fit; the proof covers the other sizes. A value of two
chunks has a link, a first and a last page; the proof covers longer ones. Four pages
hold one set of it, log record included, so that a second set takes pages the
collector has freed or fails. Key parts lie on both sides of
each change of format. In `Bindings` a list of two entries fills after two
rollbacks, as a list of `max_txns * 64` does after that many. `CHECK_DEADLOCK FALSE`
is set where a bounded run stops when its transactions, keys or reopenings are used
up, or, in `Bindings`, when the client has closed everything.

**Fairness.** Only `MvccEngine` assumes any: weak fairness of the steps inside a
call. No such step waits for another transaction (`garry_lock_acquire` refuses
instead of blocking, the mutexes are held for one step), so a scheduled thread
finishes its call. Calls themselves are not fair: clients may stop.
`CommitPublishes` and the fairness part of `ImplementsStore` use it.

## 4. Where the properties end

Further configurations delimit the runs that pass: each drops one of their
assumptions or states the stronger property, and TLC then refutes it.

| Configuration | Module | What TLC shows |
|---|---|---|
| `MvccRacedWrite.cfg` | `MvccRefinement` | lock calls not serialised: two threads both get the key and write (`NoDirtyWrite`) |
| `MvccSnapshot.cfg` | `MvccRefinement` | a transaction's view changes while it is open, since the active list is read at each get: the "snapshot isolation" of `storage_ops.c` is read committed (`SnapshotStable`) |
| `DurTable.cfg` | `MCDurability` | with deletes: an old delete is replayed over a newer value (`CommittedSurvives`); with rollbacks: rolled-back values appear after a reopening; with crashes: an id open at a crash is reused, and when its new owner commits, the old records count as committed (both `OnlyCommittedVisible` of `MCDurability`) |
| `GcRace.cfg` | `MvccGC` | a transaction begun beside the collector loses its version (`GcKeepsOpenReads`) |
| `GcLatest.cfg` | `MvccGC` | the last version is a rolled-back or open one: it is kept, the committed one pruned (`GcKeepsLatest`) |
| `TreeAllocFails.cfg` | `BTree` | the new root cannot be allocated after the leaf was split: keys are no longer found (`SearchAgrees`) |
| `TreeDelete.cfg` | `BTree` | more than one merge deep, an internal node without separators hides keys (`SearchAgrees`) |
| `TreeLast.cfg` | `BTree` | `leaf_split` leaves the prev link of the next leaf behind, and the walk back from a last leaf without visible keys skips the new leaf (`LastAgrees`) |
| `CursorOrder.cfg` | `BTreeCursor` | an insertion in front of the cursor makes it return a key again (`CursorAscending`) |
| `PoolReuse.cfg` | `MCBufferPool` | a freed page allocated again is in two slots, and the stale copy wins (`ReuseCoherent`) |
| `NodeCut.cfg` | `MCNodePage` | a node of three keys that does not fit loses entries, unreported (`StoresAllEntries`) |
| `NodeKey256.cfg` | `MCNodePage` | a key of 256 bytes is written with the length byte 0 and read as empty (`StoredNodeLoads`) |
| `OverflowIter.cfg` | `MCOverflow` | the iterator follows pages that the collector has freed and a set has taken again (`IterNeverTorn`) |
| `KeyFlat.cfg` | `MCKeyCodec` | a flat key with a part of 128 bytes or more is not what the hierarchical readers take it for (`FlatIsHierarchical`) |
| `BindTable.cfg` | `MCBindings` | one wrapper and one property of the table below |

Wrappers differ. Each line is a property of `MCBindings`, without the exceptions
that the properties of `Bindings` make; "no" means that TLC refutes it for that
wrapper alone.

| Property | js | godot | csharp | unity | rust | go | delphi |
|---|---|---|---|---|---|---|---|
| `NothingFreed`: no call reaches a closed database | no | yes | no | no | no | no | cursors |
| `EveryoneOwned`: every open transaction has an owner | yes | yes | yes | yes | no | yes | yes |
| `NothingRevived`: no commit after a rollback | yes | yes | no | no | yes | no | no |
| `EveryFailedWriteOut`: no failed single-call write is committed | yes | no | deletes | deletes | deletes | yes | deletes |
| `SlotsAlwaysLeft`: reads do not use up the list | no | yes | no | no | no | yes | yes |
| `NodeTxnLive`: the node's transaction is one | - | no | - | - | - | - | - |

("cursors": refuted by a cursor used after the close; in Go also by a method between
whose two steps the database is closed or finalized. "deletes": refuted by a
failed delete only.)

Seen while modelling, and covered by no property: the overflow pages of log records are
never freed; `key_encoding.h` calls integer subscripts big-endian and `key_encoding.c`
writes them little-endian, so that they do not sort as integers;
`garry_minimum_separator` does not report the length of what it returns;
`key_unsplit` drops a leading
empty segment and `key_split` a trailing delimiter; `garry_get` copies the whole
value whatever the caller's capacity; the Delphi set commits twice; after
`access_counter` wraps, the least recently used slot is misjudged; a page taken off
the free list is lost if no slot is found for it (the model has this step,
`AllocateFree`); a node whose page cannot be pinned loads as an empty leaf.

## 5. Proofs

The theorems hold for all values of the constants that satisfy the assumption named
in each module.

| Module | Theorem | States | Assumes |
|---|---|---|---|
| `MvccEngineProofs` | `TypeCorrect` | `[]TypeOK` | - |
| | `ReadsDurable` | `[]NoDirtyRead` | - |
| | `LocksReleased` | `[]NoLockLeak` | `EngineMutex` |
| | `LocksExclusive` | `[]ExclusiveLocks` | `EngineMutex` |
| | `WritesSettled` | `[]NoDirtyWrite` | `EngineMutex` |
| | `SlotsBounded` | `[]SlotLimits` | - |
| `MvccReadsProofs` | `EngineImplementsStore` | `MvccStore`'s initial states and steps | `EngineMutex` |
| | `ReadsAsStore` | `[]ReadsAgree` | `EngineMutex` |
| | `GcReadsDurable` | `[]NoDirtyRead` of `GcSpec` | - |
| | `GcLeavesReads` | `GcKeepsOpenReads` | `GcQuiet` |
| `DurabilityProofs` | `IdsNotReused` | `[]CommittedIdsNotReused` | - |
| | `FileIsBehind` | `[]DiskIsPrefix` | - |
| | `KeysKept` | `[]CommittedKeyKept` | - |
| | `CommitsSurvive` | `[]CommittedSurvives` | `EngineMutex`, `CleanEnv` |
| `OverflowProofs` | `OverflowPagesAccounted` | `[]PagesAccounted` | - |
| | `LogStaysReadable` | `[]LogRecordsWhole` | - |
| | `GetsAreWhole` | `[]NoTornRead` | - |
| | `GetsReadNewest` | `[]ReadsNewest` | - |
| | `IteratorsAreWhole` | `[]IterWhole` | - |
| `BufferPoolProofs` | `PoolTypeCorrect` | `[]PTypeOK` | - |
| | `PinnedBuffersStay` | `[]PinsHold` | - |
| | `PoolKeepsPages` | `[]PoolCoherent` | - |
| | `FreeListIsSound` | `[]FreeListSound` | - |
| `NodePageProofs` | `PageKeepsRecords` | `[](PageSound /\ RecordsKept)` | - |
| | `NodesLoad` | `[]StoredNodeLoads` | `NodesInBounds` |
| | `PagesLoadOneNode` | `[]OneNodeLoads` | `NodesInBounds`, `MetadataFits` |
| `KeyCodecProofs` | `TuplesRead` | `[]TupleReads` | - |
| | `HierarchiesRead` | `[]HierarchyReads` | - |
| | `PrefixesMeanSubtrees` | `[]PrefixMeansSubtree` | - |
| | `KeysCompressAlways` | `[]KeysCompress` | - |
| | `FlatKeysRead` | `[]FlatReads` | - |
| `BindingsProofs` | `NodeNeverUsesFreed` | `[]NoFreedHandle` | - |
| | `NoneOrphaned` | `[]NoOrphan` | - |
| | `NoneRevived` | `[]RolledBackStaysOut` | - |
| | `FailuresStayOut` | `[]FailedWriteStaysOut` | - |
| | `SlotsLeft` | `[]ReadsLeaveSlots` | - |

Each hypothesis stands where a configuration of section 4 shows that it is needed:
`EngineMutex` (serialised lock calls) by `MvccRacedWrite.cfg`, `GcQuiet` (no call
while the collector runs) by `GcRace.cfg`, and `CleanEnv` (sessions end by a clean
close, pages may be evicted at any time, nothing is deleted or rolled back) by
`DurTable.cfg`. `NodesInBounds` says which nodes are stored: ids of 32 bits, at most
`MaxKeys` entries, an array of metadata whose length fits in its one byte (254 ids, while
a node has at most GARRY_MAX_KEYS_PER_NODE + 1 children), and keys shorter than 256 bytes;
the last is what `NodeKey256.cfg` shows to be needed. `MetadataFits` is about the page size
only. TLC evaluates both on the nodes of `MCNodePage`. `BindingsProofs` uses that the active list has at least `max_txns`
entries, which the code gives it (`max_txns * 64`).

**MvccEngine.**
- `IType` is `TypeOK` with the link between `pc` and `op` (a thread between lock
  and apply has a write in progress), without which the appended entry has no type.
- `IRead` adds `Phases` (what `pc` implies about the list and the log, such as: a
  thread that is past `CommitLog` is logged; who left the list is logged) and
  `WritersBegun` (a version's creator has begun). A visible version's creator is
  not in the list and has begun, hence it left it by commit, hence it is logged.
- `ILock` adds `LinkerAlone` (a thread between conflict test and insertion is the
  only one, and no node has its key), `WriterHolds` (a thread about to append holds
  the key), `ExclusiveLocks`, and `UnsettledHolds`: the creator of a version that is
  not settled still holds the key. So a second writer of the key, who holds it too,
  is the same transaction. `SettledStays` and `HolderKeeps` carry this over a step.
- `SlotsBounded` counts finite sets: begin is the only step that adds to the list.

**MvccRefinement.** The committed history of a key is the versions of the logged
transactions in the chain (`VersionsBy`), the pending writes of an open transaction
are its own versions. `VersionsAppend` and `VersionsSame` make an append a write and
every step inside a call a stutter. `VersionsJoin` is the commit: with `ILock`, no
version of another logged transaction stands behind one of an open transaction, so
that adding it to the logged ones appends its versions to the history.
`ReadsAsStore` is the reader's side: the backward scan of `FindVisible` stops at the
newest version of the visible writers (`FindsNewest`).

**Durability.**
- `IIds`: ids in COMMIT records and in the active list are below `next_txid`; recovery
  establishes it from the log alone (`RecoveredNext`), whatever header the file has.
- `IPrefix`: the chain in the file is a prefix of the one in memory; flush, eviction
  and close copy it whole, and recovery continues from it.
- `IKeys`: a committed write has an UPDATE record in the log, so that recovery finds
  the key's descriptor or inserts it.
- `IClean`, for sessions that are closed, has a form for the running engine (`Running`:
  the engine's own invariant, and what is committed is what the chains show) and one
  for the closed file (`Stopped`: file and log agree). Replay then changes nothing,
  because every key of an UPDATE record is already in the tree (the skip of
  `ReplayRecord`).

**MvccGC.** `IGc` is `IRead` and `CopyIsList`: beside a quiet program the collector's
copy of the list is the list. `PruneAmong` (a survivor was there before) is all that
`IRead` needs, so dirty reads are excluded for any copy. `PruneNewest` (a surviving
newest version of some writers is still their newest) gives `PruneKeepsRead`: the
version an open transaction reads survives, because it is the last entry, or because
its creator is not in the list and not newer than the reader, who is. The reader's own
version is the last entry, since nobody else has written behind it.

**Overflow.** `IOver` is about paths, the pages a version's head leads to.
- `PathsCarry`: the pages on the path of a version have its chunks in order, all of them
  unless a link was lost. So the pages of one path differ (`PathDistinct`), and what
  `OverflowRead` takes for whole is whole.
- `PagesOwned` and `LogKept`: the free list repeats nothing, and every page is on it, in
  one path of a version or of a log record, or lost. An allocation hands out pages of nobody
  (`Hands`), so that writing on them leaves every path as it was (`VersionsKept`); a set moves them to the new version or to the
  lost ones (`AppendStep`, `LossStep`), pruning moves paths of versions, and no page of
  a record, to the free list or to the lost ones (`PruneFrees`, `PruneSelects`, `OwnersAfterPrune`).
- `IterReads`: until a large version is discarded, the large versions of the iterator's
  copy are still in the chain, and inside a value it has the first chunks and stands on
  the next page of the path.

**BufferPool.** `IPool` holds from the start on, frees included. After a free a page
may be in two slots, so nothing can be said of "the" slot of a page. Instead:
- `Sound` ties slots, file and history, with `Sure` for the history: what was last
  written on the pages never freed. Such a page is in at most one slot (`OneSlot`);
  its slot shows what was last written (`BuffersShow`); a clean slot agrees with the
  file unless a holder has still to mark its write (`CleanWritten`); in no slot, it is
  in the file (`FileShows`). Pins are counted by holders (`PinsCounted`), so that a
  victim has none. `HeldStays`: who holds a page holds the first slot with it, the one
  `find_slot` meets, so that `mark_dirty` and `release`, which look the page up again,
  reach the slot their caller has.
- `Copies`: a page is in at most two slots, in at most one while it is not in use.
- `Chained`: the free list is a sequence of distinct freed pages, none in use, and
  every slot with one of them has the link to the next.

`garry_pool_free_page` is one step of the model and proved through its stages: a slot of
the page is dropped (`DropsPage`), it is read back (`ReloadsPage`) and linked
(`LinksPage`). What the pool shows of a page that was freed and given out again is not
covered: `PoolReuse.cfg` refutes it.

**SlottedPage.** The directory ends at `freeStart`, the records lie above `freeEnd`,
and each slot's bytes are within the page, so that a later insertion, which writes
below `freeEnd`, touches no byte of an earlier record. `RoomArithmetic` shows that
the two checks for room leave no way for a record to run into the directory.

**NodePage.** From the bytes up: `StandsAt` (these bytes are in the buffer from this
position on) is what an encoder leaves and a decoder needs, so the lemmas chain: heads of
numbers in their four sizes (`HeadReads`), byte strings, records, descriptors and, with
the bias that gives every page id five bytes, arrays of page ids (`MetaReads`). A page
that holds the first records of a node loads as its metadata and as many entries
(`PartLoads`), one that holds them all as the node (`WholeLoads`). `NodeInv` carries this
over the steps of a store: what is in the page and what is still to insert make up the
node, the file has the node, or the beginning of one, that was in the page when it was
last evicted dirty. `held` follows the page: it is the node stored last, or, once the
page was dropped without a mark, the one in the file (`OneNodeLoads`).

**KeyCodec.** `IKey`: each key is the subscripts of its history laid one behind the
other. `Laid(k, t, off)` names the offsets: from `off[i-1]` to `off[i]` the key has the
length prefix and the bytes of subscript `i` (`SegmentAt`), and nothing is left behind
the last. A prefix determines the length and its own size (`SegmentReads`), so every
reader, which starts at 0 and steps from prefix to prefix, stops at these offsets
(`OffsetIs`, `AfterIs`, `DecodeIs`), and `EncodeKeyTuple` writes these bytes
(`EncodeIs`). `ChildLaid` and `AncestorLaid` carry `IKey` over the two steps. For byte
prefixes, two keys that agree up to an offset agree on the prefix there, hence on the
length, hence on the subscript (`BytesToSubscripts`). Comparison, separator and
compression all speak of the place where two keys part (`Parting`), which is what
`CommonPrefixLength` finds (`CommonIs`). For the keys of keysplit.c, `Flat(f, t, off)`
names the offsets of the parts in the key and `Joined(s, t, off)` those in the string:
they are the same ones, because a delimiter stands where the key has a byte of length
(the first length byte has no delimiter, so each part lies one place further left than
in the key). A turn of the loop of `make_key_parts`, `key_unsplit` or `key_split`
(`PartNext`, `UnsplitNext`, `SplitNext`) then takes the prefix that ends at one offset
to the prefix that ends at the next (`PartsAre`, `UnsplitTurn`, `SplitTurn`). That these
keys fit their buffers needs `IFits`: `ConcatFits` bounds every key but those of empty
subscripts only, and the shorter prefixes make the flat key no longer than the
hierarchical one (`FlatIsShorter`). The assumptions on the constants are that segments
are sequences of bytes, integers have 32 bits and the delimiter is a byte other than 0.

**Bindings.** `IBind` says that the ids objects and histories know have been handed
out (`Begun`), that a handle in an object is the live one (`HandlesLive`), what the
list and the lock hold (`Listed`), that every open transaction has an owner
(`OpenOwned`), that none an object could still commit was rolled back (`Unrevived`),
that the transaction of a failed single-call write is in nobody's hands
(`FailedApart`), and that rolled-back entries were asked for (`AskedFor`), each for the
wrappers it is true of; `GoSeen` adds that a Go method in progress has read the live
handle while there is one. `NoFreedHandle` is about the Godot node, whose methods check
the handle in the step in which they use it, and which forgets it when it closes. The
calls of `GarryApi` are characterised first, as relations between the record before and after; each wrapper method is then one of a few shapes
(a single-call method, a begin, a use, an end, a close), and the invariant is proved
once per shape.

**Induction.** What a recursive function computes (replay over a log, pruning over a
chain, the walk and the freeing of a path) is proved with `NatSetInduction` (a set of
naturals with 0 and closed under + 1 has them all) and `RecursionExists` (the function
that such a definition names exists), which are stated without an operator parameter.

**Only model-checked.** Liveness (`CommitPublishes`) and the fairness part of
`ImplementsStore`, which need ENABLED, out of the prover's reach; the invariants of
`BTree` and `BTreeCursor`, whose walks are recursive operators.

## 6. Not modelled

- LZ4 (a reader sees the value that was stored) and the byte layout of the database
  header: self-contained conversions. The key-only record form, which
  only its unit test calls.
- The platform layer; the outcome of a write is an input of `BufferPool`.
- The checkpoint, which nothing calls.
- Value codecs and object mapping of the wrappers, and the registration of classes
  with the Godot engine. Calls with the id -1 after a failed begin end in a status
  without effect and are left out.
- A Go method is two steps, so that the finalizer or `Close` comes between the read of
  the handle and the call; freeing a database while another thread is inside a call is
  not modelled. A C# or Unity transaction object has no finalizer: one that is collected
  without `Dispose` leaves its transaction open, and the model takes every object to be
  disposed of.
- In `MvccEngine`, a set whose chain page or tree insertion cannot be allocated
  (`storage_ops.c:189-200`) and a get whose chain page cannot be pinned
  (`transaction.c:655`), both of which end without an effect; a commit record that
  cannot be allocated or appended, after which `garry_storage_commit` goes on
  (`storage_txn.c:45-51`). `VersionChain` counts the entries of a page where the code
  counts its bytes.
- The copy of the chain page that a version iterator takes without the lock
  (`version_chain.c:920-935`) is one step.
- Torn log records, and failing log appends but for their pages (`Overflow`); recovery
  that runs out of pages, and page numbers handed out by recovery when `total_pages` is stale, which needs
  `Durability` composed with the allocator of `BufferPool`.
- Deletions that meet an internal node without separators (the code then reads page
  0 as a node); the collector's write past its array, which is undefined behaviour.
- `skip_prefix` of cursors, which has no caller in the public interface.

## 7. Plan

Done: the modules above. What is left, in this order:

1. Model: `Durability` composed with the allocator; log appends that fail; an
   abstract page store that `BufferPool` implements for the pages never freed.
