------------------------------- MODULE BTree -------------------------------
(***************************************************************************)
(* The B-tree (src/src/btree_modify.c, btree_search.c, btree_node.c): the  *)
(* map from keys to chain descriptors.  Every insertion and deletion runs  *)
(* under the write lock on root_lock and is one step.  A node is kept in   *)
(* decoded form (garry_load_node and garry_store_node move it from and to  *)
(* its page); keys are numbers ordered as garry_byte_compare orders bytes. *)
(*                                                                         *)
(* A page allocation may fail.  The input a of an insertion is how many    *)
(* allocations the buffer pool grants before it refuses.                   *)
(***************************************************************************)
EXTENDS Integers, Sequences, SequencesExt, FiniteSets

CONSTANTS Keys,          \* keys, as integers
          Vals,          \* descriptors
          NotFound,
          MaxKeys,       \* GARRY_MAX_KEYS_PER_NODE
          MinKeys,       \* GARRY_BTREE_MIN_KEYS
          Grants,        \* the values of a that are tried
          MaxPages,      \* bound: pages ever used
          MaxDeletes     \* bound: calls of garry_btree_delete

ASSUME BTreeAssumption ==
  /\ Keys \subseteq Nat
  /\ NotFound \notin Vals
  /\ MaxKeys \in Nat /\ MinKeys \in Nat /\ MaxPages \in Nat
  /\ Grants \subseteq Nat
  /\ MaxDeletes \in Nat

VARIABLES nodes,     \* the node in every page used so far
          root,      \* btree_root
          free,      \* pages on the free list, the head first
          content,   \* history: what was inserted and not deleted
          deletes    \* calls of garry_btree_delete so far

treeVars == <<nodes, root, free, content, deletes>>

Nil == 0     \* "no page" (the code's -1)

Leaf(keys, vals, next, prev) ==
  [kind |-> "leaf", keys |-> keys, vals |-> vals, kids |-> << >>, next |-> next, prev |-> prev]

Internal(keys, kids, next, prev) ==
  [kind |-> "internal", keys |-> keys, vals |-> << >>, kids |-> kids, next |-> next, prev |-> prev]

BInit ==
  /\ nodes = << Leaf(<< >>, << >>, Nil, Nil) >>
  /\ root = 1
  /\ free = << >>
  /\ content = [k \in Keys |-> NotFound]
  /\ deletes = 0

-----------------------------------------------------------------------------
(* Search *)

Least(S) == CHOOSE i \in S : \A j \in S : i <= j
Greatest(S) == CHOOSE i \in S : \A j \in S : j <= i

\* garry_leaf_find, with 0 for "not there"
LeafFind(n, k) ==
  LET S == {i \in 1 .. Len(n.keys) : n.keys[i] = k}
  IN  IF S = {} THEN 0 ELSE Least(S)

\* Variant: a key equal to a separator goes left of it.
InternalFindEqual(n, k) ==
  LET S == {i \in 1 .. Len(n.keys) : k <= n.keys[i]}
  IN  IF S = {} THEN Len(n.keys) + 1 ELSE Least(S)

\* garry_internal_find: the first separator greater than the key.
InternalFind(n, k) ==
  LET S == {i \in 1 .. Len(n.keys) : k < n.keys[i]}
  IN  IF S = {} THEN Len(n.keys) + 1 ELSE Least(S)

\* garry_leaf_find_search: an internal node without separators ends the search.
RECURSIVE SearchFrom(_, _)
SearchFrom(p, k) ==
  LET n == nodes[p]
  IN  IF n.kind = "leaf"
      THEN IF LeafFind(n, k) = 0 THEN NotFound ELSE n.vals[LeafFind(n, k)]
      ELSE IF n.keys = << >> THEN NotFound
      ELSE SearchFrom(n.kids[InternalFind(n, k)], k)

Search(k) == SearchFrom(root, k)

-----------------------------------------------------------------------------
(* Insertion.  A state of the pages during one is a record pg of the nodes, *)
(* the free list and the allocations still granted.                         *)

\* garry_pool_allocate, as garry_allocate_leaf and garry_allocate_internal use
\* it: the head of the free list, else the next page of the file.
NewPage(pg) == IF pg.free # << >> THEN Head(pg.free) ELSE Len(pg.nodes) + 1

Allocated(pg) ==
  [nodes  |-> IF pg.free # << >> THEN pg.nodes
              ELSE Append(pg.nodes, Leaf(<< >>, << >>, Nil, Nil)),
   free   |-> IF pg.free # << >> THEN Tail(pg.free) ELSE << >>,
   grants |-> pg.grants - 1]

\* What a level of the recursion reports to the one above.
Result(pg, ok, sep, page) == [pg |-> pg, ok |-> ok, sep |-> sep, page |-> page]

\* The new page of a leaf_split: the entries after mid, between p and its successor.
RightLeaf(n, keys, vals, mid, p) ==
  Leaf(SubSeq(keys, mid + 1, Len(keys)), SubSeq(vals, mid + 1, Len(keys)), n.next, p)

(***************************************************************************)
(* leaf_split: the entries with the new one among them, the first half     *)
(* stays, the rest goes to a new page linked in behind this one.  (The     *)
(* prev link of the leaf after the new page is left as it was.)            *)
(***************************************************************************)
LeafSplit(pg, p, k, v) ==
  LET n    == pg.nodes[p]
      S    == {i \in 1 .. Len(n.keys) : k < n.keys[i]}
      pos  == IF S = {} THEN Len(n.keys) + 1 ELSE Least(S)
      keys == InsertAt(n.keys, pos, k)
      vals == InsertAt(n.vals, pos, v)
      mid  == Len(keys) \div 2
      r    == NewPage(pg)
      left  == Leaf(SubSeq(keys, 1, mid), SubSeq(vals, 1, mid), r, n.prev)
      right == RightLeaf(n, keys, vals, mid, p)
  IN  IF pg.grants = 0
      THEN Result(pg, FALSE, Nil, Nil)
      ELSE Result([Allocated(pg) EXCEPT !.nodes[p] = left, !.nodes[r] = right],
                  TRUE, keys[mid + 1], r)

\* The leaf case of btree_insert_rec: overwrite, put in place, or split.  The
\* place is looked for from the end of the node.
LeafInsert(pg, p, k, v) ==
  LET n   == pg.nodes[p]
      at  == LeafFind(n, k)
      S   == {i \in 1 .. Len(n.keys) : k < n.keys[i]}
      pos == IF S = {} THEN Len(n.keys) + 1 ELSE Greatest(S)
  IN  IF at # 0
      THEN Result([pg EXCEPT !.nodes[p].vals[at] = v], TRUE, Nil, Nil)
      ELSE IF Len(n.keys) < MaxKeys - 1
      THEN Result([pg EXCEPT !.nodes[p].keys = InsertAt(n.keys, pos, k),
                             !.nodes[p].vals = InsertAt(n.vals, pos, v)], TRUE, Nil, Nil)
      ELSE LeafSplit(pg, p, k, v)

(***************************************************************************)
(* internal_split: the separators with the new one among them; the middle  *)
(* one moves up, those after it and their children go to a new page.       *)
(***************************************************************************)
InternalSplit(pg, p, at, sep, child) ==
  LET n    == pg.nodes[p]
      keys == InsertAt(n.keys, at, sep)
      kids == InsertAt(n.kids, at + 1, child)
      mid  == Len(keys) \div 2
      r    == NewPage(pg)
      left  == Internal(SubSeq(keys, 1, mid), SubSeq(kids, 1, mid + 1), r, n.prev)
      right == Internal(SubSeq(keys, mid + 2, Len(keys)), SubSeq(kids, mid + 2, Len(kids)), n.next, p)
  IN  IF pg.grants = 0
      THEN Result(pg, FALSE, Nil, Nil)
      ELSE Result([Allocated(pg) EXCEPT !.nodes[p] = left, !.nodes[r] = right],
                  TRUE, keys[mid + 1], r)

\* The internal case of btree_insert_rec after the child at position at reported
\* the split res: take the new child in, or split as well.
TakeChild(res, p, at) ==
  LET n == res.pg.nodes[p]
  IN  IF Len(n.keys) < MaxKeys
      THEN Result([res.pg EXCEPT !.nodes[p].keys = InsertAt(n.keys, at, res.sep),
                                 !.nodes[p].kids = InsertAt(n.kids, at + 1, res.page)],
                  TRUE, Nil, Nil)
      ELSE InternalSplit(res.pg, p, at, res.sep, res.page)

RECURSIVE InsertRec(_, _, _, _)
InsertRec(pg, p, k, v) ==
  LET n   == pg.nodes[p]
      at  == InternalFind(n, k)
      res == InsertRec(pg, n.kids[at], k, v)
  IN  IF n.kind = "leaf" THEN LeafInsert(pg, p, k, v)
      ELSE IF res.ok /\ res.page # Nil THEN TakeChild(res, p, at)
      ELSE Result(res.pg, res.ok, Nil, Nil)

\* garry_btree_insert: a root that was split gets a new root above it.
Insert(k, v, a) ==
  LET res  == InsertRec([nodes |-> nodes, free |-> free, grants |-> a], root, k, v)
      grow == /\ res.page # Nil
              /\ Len(res.pg.nodes[root].keys) <= Len(nodes[root].keys)
      r    == NewPage(res.pg)
      pg   == IF grow /\ res.pg.grants > 0
              THEN [Allocated(res.pg) EXCEPT
                      !.nodes[r] = Internal(<<res.sep>>, <<root, res.page>>, Nil, Nil)]
              ELSE res.pg
      ok   == res.ok /\ (grow => res.pg.grants > 0)
  IN  /\ Len(pg.nodes) <= MaxPages
      /\ nodes' = pg.nodes
      /\ free' = pg.free
      /\ root' = IF grow /\ res.pg.grants > 0 THEN r ELSE root
      /\ content' = IF ok THEN [content EXCEPT ![k] = v] ELSE content
      /\ UNCHANGED deletes

-----------------------------------------------------------------------------
(* Deletion *)

\* Variants: the right sibling's successor, or its entries, are forgotten.
JoinedUnlinked(l, r, sep) ==
  LET mid == IF l.kind = "internal" THEN <<sep>> ELSE << >>
  IN  [l EXCEPT !.keys = l.keys \o mid \o r.keys,
                !.vals = l.vals \o r.vals,
                !.kids = l.kids \o r.kids]

JoinedHalf(l, r, sep) == [l EXCEPT !.next = r.next]

\* What rebalance_child makes of a node and its right sibling: an internal one
\* takes the separator between them in; its own prev link stays.
Joined(l, r, sep) ==
  LET mid == IF l.kind = "internal" THEN <<sep>> ELSE << >>
  IN  [l EXCEPT !.keys = l.keys \o mid \o r.keys,
                !.vals = l.vals \o r.vals,
                !.kids = l.kids \o r.kids,
                !.next = r.next]

(***************************************************************************)
(* rebalance_child: merge the child with its left sibling, the first child *)
(* with its right one; nothing if the result would be too large.  The      *)
(* page merged away is not put on the free list.                           *)
(***************************************************************************)
Rebalanced(ns, p, at) ==
  LET n   == ns[p]
      i   == IF at > 1 THEN at - 1 ELSE at
      l   == n.kids[i]
      new == Joined(ns[l], ns[n.kids[i + 1]], n.keys[i])
  IN  IF Len(new.keys) > MaxKeys
      THEN ns
      ELSE [ns EXCEPT ![l] = new,
                      ![p] = [n EXCEPT !.keys = RemoveAt(n.keys, i),
                                       !.kids = RemoveAt(n.kids, i + 1)]]

Small(ns, p) == Len(ns[p].keys) < MinKeys

RECURSIVE DeleteRec(_, _, _)
DeleteRec(ns, p, k) ==
  LET n     == ns[p]
      at    == InternalFind(n, k)
      below == DeleteRec(ns, n.kids[at], k)
      pos   == LeafFind(n, k)
  IN  IF n.kind = "leaf"
      THEN IF pos = 0 THEN ns
           ELSE [ns EXCEPT ![p].keys = RemoveAt(n.keys, pos),
                           ![p].vals = RemoveAt(n.vals, pos)]
      ELSE IF Small(below, n.kids[at]) THEN Rebalanced(below, p, at)
      ELSE below

\* The descent for k meets an internal node with no separator.  Its only child
\* has no sibling, and rebalance_child would take page 0 for one: such deletions
\* are left out.
RECURSIVE MeetsBare(_, _)
MeetsBare(p, k) ==
  /\ nodes[p].kind = "internal"
  /\ nodes[p].keys = << >> \/ MeetsBare(nodes[p].kids[InternalFind(nodes[p], k)], k)

\* garry_btree_delete: an internal root left without separators is freed.
Delete(k) ==
  LET ns     == DeleteRec(nodes, root, k)
      shrink == ns[root].kind = "internal" /\ ns[root].keys = << >>
  IN  /\ deletes < MaxDeletes
      /\ deletes' = deletes + 1
      /\ ~ MeetsBare(root, k)
      /\ nodes' = ns
      /\ root' = IF shrink THEN ns[root].kids[1] ELSE root
      /\ free' = IF shrink THEN <<root>> \o free ELSE free
      /\ content' = [content EXCEPT ![k] = NotFound]

BNext ==
  \/ \E k \in Keys, v \in Vals, a \in Grants : Insert(k, v, a)
  \/ \E k \in Keys : Delete(k)

BSpec == BInit /\ [][BNext]_treeVars

-----------------------------------------------------------------------------
(* Scans *)

\* The leaf a scan of all keys starts from (garry_btree_cursor_open without a
\* prefix), or Nil if it stops at an internal node without separators.
RECURSIVE FirstLeaf(_)
FirstLeaf(p) ==
  IF nodes[p].kind = "leaf" THEN p
  ELSE IF nodes[p].keys = << >> THEN Nil
  ELSE FirstLeaf(nodes[p].kids[1])

\* The keys from leaf p on, along next_page.
RECURSIVE KeysFrom(_)
KeysFrom(p) == IF p = Nil THEN << >> ELSE nodes[p].keys \o KeysFrom(nodes[p].next)

(* Navigation (src/src/storage_navigation.c).  V is the set of keys the     *)
(* transaction can see; 0 stands for "no such key" (keys are positive).     *)

Scanned(V) ==
  LET Visible(k) == k \in V
  IN  SelectSeq(KeysFrom(FirstLeaf(root)), Visible)

\* garry_storage_next_key: the first of a scan that is greater.
NextKey(V, after) ==
  LET s == Scanned(V)
      S == {i \in 1 .. Len(s) : s[i] > after}
  IN  IF S = {} THEN 0 ELSE s[Least(S)]

\* Variant: the key itself counts as its predecessor.
PrevKeyOrSame(V, before) ==
  LET s == Scanned(V)
      S == {i \in 1 .. Len(s) : s[i] <= before}
  IN  IF S = {} THEN 0 ELSE s[Greatest(S)]

\* garry_storage_prev_key: the last of a scan that is smaller.
PrevKey(V, before) ==
  LET s == Scanned(V)
      S == {i \in 1 .. Len(s) : s[i] < before}
  IN  IF S = {} THEN 0 ELSE s[Greatest(S)]

\* garry_storage_first
FirstKey(V) == NextKey(V, 0)

\* garry_storage_last: the rightmost leaf, then back along prev_page.
RECURSIVE LastLeaf(_)
LastLeaf(p) ==
  IF nodes[p].kind = "leaf" THEN p
  ELSE IF nodes[p].keys = << >> THEN Nil
  ELSE LastLeaf(nodes[p].kids[Len(nodes[p].kids)])

RECURSIVE LastFrom(_, _)
LastFrom(p, V) ==
  IF p = Nil THEN 0
  ELSE LET S == {i \in 1 .. Len(nodes[p].keys) : nodes[p].keys[i] \in V}
       IN  IF S = {} THEN LastFrom(nodes[p].prev, V) ELSE nodes[p].keys[Greatest(S)]

LastKey(V) == LastFrom(LastLeaf(root), V)

-----------------------------------------------------------------------------
Present == {k \in Keys : content[k] # NotFound}

\* A lookup finds exactly what was inserted and not deleted, through any
\* sequence of splits and merges (garry_leaf_find_search).
SearchAgrees == \A k \in Keys : Search(k) = content[k]

\* Following next_page from the first leaf gives all keys in the tree, in
\* ascending order, each once (garry_btree_cursor_next relies on it).
ScanAgrees ==
  LET s == KeysFrom(FirstLeaf(root))
  IN  /\ \A i \in 1 .. Len(s) - 1 : s[i] < s[i + 1]
      /\ {s[i] : i \in 1 .. Len(s)} = Present

MaxOf(S) == IF S = {} THEN 0 ELSE Greatest(S)
MinOf(S) == IF S = {} THEN 0 ELSE Least(S)

\* First, next and previous key agree with the set of visible keys, whatever
\* part of the tree is visible; so does the last key when all of it is
\* (storage_navigation.c).
NavigationAgrees ==
  /\ LastKey(Present) = MaxOf(Present)
  /\ \A V \in SUBSET Present :
     /\ FirstKey(V) = MinOf(V)
     /\ \A k \in Keys : /\ NextKey(V, k) = MinOf({j \in V : j > k})
                        /\ PrevKey(V, k) = MaxOf({j \in V : j < k})

\* The last key agrees with it as well, whatever is visible (garry_storage_last).
LastAgrees == \A V \in SUBSET Present : LastKey(V) = MaxOf(V)
=============================================================================
