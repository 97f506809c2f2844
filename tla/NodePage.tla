------------------------------ MODULE NodePage -------------------------------
(***************************************************************************)
(* A B-tree node and its page: garry_store_node clears the page and inserts *)
(* the metadata and the entries one by one, garry_load_node decodes them    *)
(* (src/btree_node.c).  The page is that of SlottedPage, the records are    *)
(* those of RecordCodec.                                                    *)
(*                                                                          *)
(* A store whose records do not all fit returns in the middle: the page     *)
(* keeps what was inserted and the caller is not told.  It marks the page   *)
(* dirty all the same (src/btree_modify.c), after the store or, in          *)
(* leaf_split, before it: the beginning of the node replaces the old node   *)
(* in the file, unless the pool evicts the page between the return of the   *)
(* store and the mark.  Whether a store is cut depends on the page size and *)
(* the keys.                                                                *)
(***************************************************************************)
EXTENDS SlottedPage, RecordCodec, SequencesExt

CONSTANTS Nodes,         \* the nodes that are stored
          MaxKeys,       \* GARRY_MAX_KEYS_PER_NODE
          MaxStores      \* bound: stores in a behaviour

VARIABLES node,    \* history: the node last stored
          todo,    \* records garry_store_node has still to insert; it runs while
          storing, \* storing is TRUE
          unmarked,\* the caller of garry_store_node has yet to mark the page dirty
          dirty,   \* the slot of the page in the pool is dirty
          cut,     \* history: the last store ran out of room
          held,    \* history: the node whose records, all or the first, the page holds
          disk,    \* the page in the file, its records and the node they are of
          stores

nodeVars == <<page, recs, node, todo, storing, unmarked, dirty, cut, held, disk, stores>>

(* A node without entries or neighbours: what garry_load_node makes of a page
   that garry_allocate_leaf has initialised. *)
EmptyLeaf == [kind |-> "leaf", next |-> -1, prev |-> -1, children |-> <<>>,
              entries |-> <<>>]

------------------------------------------------------------------------------
(* The record of an entry: its key and the descriptor of its chain; an internal
   node's entry is stored without a value. *)
EntryRecord(n, e) ==
    EncodeKv(e.key, IF n.kind = "internal" THEN <<>> ELSE EncodeDescriptor(e.cid, FALSE))

(* The records garry_store_node inserts, in its order; entries beyond MaxKeys
   are dropped. *)
NodeRecords(n) ==
    LET kept == SubSeq(n.entries, 1, IF Len(n.entries) < MaxKeys THEN Len(n.entries)
                                                                  ELSE MaxKeys)
    IN  <<EncodeNodeMeta(n)>> \o [i \in DOMAIN kept |-> EntryRecord(n, kept[i])]

(* A turn of the loop of garry_load_node: a record that cannot be decoded is
   skipped, and so is everything behind the MaxKeys-th entry. *)
LoadKv(p, idx, done) ==
    LET r == DecodeKv(PageGet(p, idx))
    IN  IF r.ok /\ Len(done) < MaxKeys THEN Append(done, r) ELSE done

(* The slots behind the metadata. *)
LoadedKvs(p) ==
    LET loaded[n \in 0 .. p.count] ==
            IF n <= 1 THEN <<>> ELSE LoadKv(p, n - 1, loaded[n - 1])
    IN  loaded[p.count]

(* garry_load_node *)
LoadNode(p) ==
    LET kind == IF p.kind \in {"leaf", "overflow"} THEN p.kind ELSE "internal"
        meta == IF p.count > 0 /\ PageGet(p, 0) # <<>>
                THEN DecodeNodeMeta(PageGet(p, 0), kind)
                ELSE [next |-> -1, prev |-> -1, children |-> <<>>]
        kvs  == LoadedKvs(p)
    IN  [kind |-> kind, next |-> meta.next, prev |-> meta.prev,
         children |-> IF kind = "internal" THEN meta.children ELSE <<>>,
         entries |-> [i \in DOMAIN kvs |->
             [key |-> kvs[i].key,
              cid |-> IF kind = "internal" THEN 0 ELSE DecodeDescriptor(kvs[i].value).cid]]]

------------------------------------------------------------------------------
(* garry_allocate_leaf: an initialised page, marked dirty. *)
NInit ==
    /\ page = FreshPage("leaf") /\ recs = <<>>
    /\ node = EmptyLeaf /\ held = EmptyLeaf
    /\ todo = <<>> /\ storing = FALSE
    /\ dirty = TRUE /\ unmarked = FALSE
    /\ cut = FALSE
    /\ disk = [page |-> page, recs |-> recs, node |-> node]
    /\ stores = 0

(* garry_store_node up to the first insertion.  The caller marks the page dirty
   after the store, or (leaf_split) has marked it before, and it may have been
   written and reloaded since. *)
BeginStore(n, markedBefore) ==
    /\ ~storing /\ ~unmarked /\ stores < MaxStores
    /\ Reinit(n.kind)
    /\ node' = n /\ held' = n
    /\ todo' = NodeRecords(n)
    /\ storing' = TRUE
    /\ cut' = FALSE
    /\ dirty' \in IF markedBefore THEN {dirty, TRUE} ELSE {dirty}
    /\ unmarked' = ~markedBefore
    /\ stores' = stores + 1
    /\ UNCHANGED disk

StoreRecord ==
    /\ storing /\ todo # <<>>
    /\ InsertRecord(Head(todo))
    /\ todo' = Tail(todo)
    /\ UNCHANGED <<node, storing, unmarked, dirty, cut, held, disk, stores>>

(* Variant: a record that does not fit is left out and the rest is stored. *)
StoreCutGoesOn ==
    /\ storing /\ todo # <<>>
    /\ ~Fits(page, Len(Head(todo)))
    /\ todo' = Tail(todo) /\ storing' = storing
    /\ cut' = TRUE
    /\ UNCHANGED <<page, recs, node, unmarked, dirty, held, disk, stores>>

(* A record does not fit: garry_store_node releases the page and returns
   without marking it. *)
StoreCut ==
    /\ storing /\ todo # <<>>
    /\ ~Fits(page, Len(Head(todo)))
    /\ todo' = <<>> /\ storing' = FALSE
    /\ cut' = TRUE
    /\ UNCHANGED <<page, recs, node, unmarked, dirty, held, disk, stores>>

(* Variant: the page is not marked dirty, neither here nor by the caller. *)
EndStoreClean ==
    /\ storing /\ todo = <<>>
    /\ storing' = FALSE /\ unmarked' = FALSE
    /\ UNCHANGED <<page, recs, node, todo, dirty, cut, held, disk, stores>>

EndStore ==
    /\ storing /\ todo = <<>>
    /\ storing' = FALSE
    /\ dirty' = TRUE
    /\ UNCHANGED <<page, recs, node, todo, unmarked, cut, held, disk, stores>>

(* garry_pool_mark_dirty by the caller, whether the store was cut or not.  A
   page that is not in the pool any more is not marked; marking it once it has
   been read back, as here, changes nothing in the file. *)
CallerMarks ==
    /\ ~storing /\ unmarked
    /\ dirty' = TRUE
    /\ unmarked' = FALSE
    /\ UNCHANGED <<page, recs, node, todo, storing, cut, held, disk, stores>>

(* The pool gives the slot to another page and later reads this one again: it
   is written first if it is dirty.  A page that is being stored is pinned; one
   that the caller has yet to mark is not. *)
EvictAndReload ==
    /\ ~storing
    /\ disk' = IF dirty THEN [page |-> page, recs |-> recs, node |-> held] ELSE disk
    /\ page' = disk'.page /\ recs' = disk'.recs /\ held' = disk'.node
    /\ dirty' = FALSE
    /\ UNCHANGED <<node, todo, storing, unmarked, cut, stores>>

NNext ==
    \/ \E n \in Nodes, markedBefore \in BOOLEAN : BeginStore(n, markedBefore)
    \/ StoreRecord \/ StoreCut \/ EndStore
    \/ CallerMarks
    \/ EvictAndReload

NodeSpec == NInit /\ [][NNext]_nodeVars

------------------------------------------------------------------------------
(* The nodes the format has room for: page ids and chain ids of 32 bits, keys
   whose length fits in one byte, as many entries as a node may have, and an
   array of metadata whose length fits in one byte.  The tree keeps to all of
   this but the key length, which GARRY_MAX_KEY_SIZE_CAPACITY puts at 256. *)
MaxInt32 == 2147483647

PageIds == -1 .. MaxInt32 - PageIdBias

Entries == [key : Seq(Octets), cid : -1 - MaxInt32 .. MaxInt32]

NodesInBounds ==
    /\ Octets \subseteq Byte
    /\ MaxKeys \in Nat
    /\ \A n \in Nodes :
          /\ n \in [kind : {"leaf", "internal"}, next : PageIds, prev : PageIds,
                    children : Seq(PageIds), entries : Seq(Entries)]
          /\ Len(n.entries) <= MaxKeys
          /\ \A i \in DOMAIN n.entries : Len(n.entries[i].key) < 256
          /\ n.kind = "leaf" => n.children = <<>>
          /\ n.kind = "internal" => /\ Len(n.children) + 2 < 256
                                    /\ \A i \in DOMAIN n.entries : n.entries[i].cid = 0

(* A page has room for the metadata of every node. *)
MetadataFits == \A n \in Nodes : Fits(FreshPage(n.kind), Len(EncodeNodeMeta(n)))

------------------------------------------------------------------------------
(* Loading the page between stores gives back the node last stored, with every
   entry and the chain each entry names, also after the page has left the pool
   and come back: as long as no store ran out of room. *)
StoredNodeLoads == ~storing /\ ~cut => LoadNode(page) = node

(* What a page loads as, also after stores that ran out of room, after marks that
   came too late and after evictions: the metadata and a prefix of the entries
   of one node, the one last stored or, when the page was evicted unmarked, the
   one that was in the file.  Never the records of two nodes, never an entry
   without those before it. *)
OneNodeLoads ==
    ~storing => LET l == LoadNode(page) IN
        /\ held \in {node, disk.node}
        /\ <<l.kind, l.next, l.prev, l.children>>
               = <<held.kind, held.next, held.prev, held.children>>
        /\ IsPrefix(l.entries, held.entries)

(* What the comment of garry_store_node promises, without the condition: the
   metadata and all entries are in the page. *)
StoresAllEntries == ~storing => LoadNode(page) = node
==============================================================================
