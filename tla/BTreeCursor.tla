---------------------------- MODULE BTreeCursor ----------------------------
(***************************************************************************)
(* Scans over the B-tree: cursors (src/src/btree_cursor.c, src/src/        *)
(* storage_cursor.c).  A cursor remembers a leaf page and a slot.  Each    *)
(* call takes the read lock on root_lock for itself, so insertions run     *)
(* between two calls.                                                      *)
(*                                                                         *)
(* Hidden is the set of keys whose version chain shows the transaction     *)
(* nothing (garry_mvcc_get returns NULL).  A prefix stands for itself and  *)
(* its extensions, an interval of keys that starts with it; Spans bounds   *)
(* the lengths of these intervals.                                         *)
(***************************************************************************)
EXTENDS BTree

CONSTANTS Hidden, Spans

ASSUME CursorAssumption == Hidden \subseteq Keys /\ Spans \subseteq Nat

VARIABLES cur,       \* the cursor
          seen,      \* history: the keys it returned
          start      \* history: keys it should return, as of its opening

cursorVars == <<nodes, root, free, content, deletes, cur, seen, start>>

NoCursor == [open |-> FALSE, done |-> TRUE, page |-> Nil, slot |-> 0, want |-> {}]

CInit == BInit /\ cur = NoCursor /\ seen = << >> /\ start = {}

-----------------------------------------------------------------------------
\* Variant: the descent goes to the child after the one that may hold the prefix.
DescendAtNext(n, prefix) ==
  IF InternalFind(n, prefix) > Len(n.keys) THEN Len(n.keys) + 1
  ELSE InternalFind(n, prefix) + 1

\* garry_btree_cursor_open at an internal node: the child that may hold the
\* prefix, never the last one; without a prefix the first.
DescendAt(n, prefix) ==
  IF prefix = Nil THEN 1
  ELSE IF InternalFind(n, prefix) > Len(n.keys) THEN Len(n.keys)
  ELSE InternalFind(n, prefix)

RECURSIVE OpenLeaf(_, _)
OpenLeaf(p, prefix) ==
  IF nodes[p].kind = "leaf" THEN p
  ELSE IF nodes[p].keys = << >> THEN Nil
  ELSE OpenLeaf(nodes[p].kids[DescendAt(nodes[p], prefix)], prefix)

\* garry_storage_cursor_open; prefix Nil for a scan of all keys.
CursorOpen(prefix, span) ==
  LET want == IF prefix = Nil THEN Keys ELSE Keys \intersect (prefix .. prefix + span)
      p    == OpenLeaf(root, prefix)
  IN  /\ ~ cur.open
      /\ cur' = [open |-> TRUE, done |-> p = Nil, page |-> p, slot |-> 1, want |-> want]
      /\ start' = (Present \intersect want) \ Hidden
      /\ UNCHANGED <<nodes, root, free, content, deletes, seen>>

\* garry_btree_cursor_next and the loop of garry_storage_cursor_next around it:
\* the first wanted, visible entry from slot s of leaf p on, along next_page.
RECURSIVE Seek(_, _, _)
Seek(p, s, want) ==
  LET n == nodes[p]
      S == {i \in s .. Len(n.keys) : n.keys[i] \in want}
  IN  IF S # {} THEN [page |-> p, slot |-> Least(S)]
      ELSE IF n.next = Nil THEN [page |-> p, slot |-> 0]
      ELSE Seek(n.next, 1, want)

CursorNext ==
  LET found == Seek(cur.page, cur.slot, cur.want \ Hidden)
  IN  /\ cur.open
      /\ ~ cur.done
      /\ IF found.slot = 0
         THEN /\ cur' = [cur EXCEPT !.done = TRUE]
              /\ UNCHANGED seen
         ELSE /\ cur' = [cur EXCEPT !.page = found.page, !.slot = found.slot + 1]
              /\ seen' = Append(seen, nodes[found.page].keys[found.slot])
      /\ UNCHANGED <<nodes, root, free, content, deletes, start>>

TreeStep == BNext /\ UNCHANGED <<cur, seen, start>>

CNext ==
  \/ TreeStep
  \/ CursorOpen(Nil, 0)
  \/ \E prefix \in Keys, span \in Spans : CursorOpen(prefix, span)
  \/ CursorNext

CSpec == CInit /\ [][CNext]_cursorVars

-----------------------------------------------------------------------------
\* A scan that has ended returned every key that was there, wanted and visible
\* when it began, although insertions split the leaves it stood on.
CursorComplete == (cur.open /\ cur.done) => start \subseteq {seen[i] : i \in 1 .. Len(seen)}

\* A scan returns keys in ascending order, each once.
CursorAscending == \A i \in 1 .. Len(seen) - 1 : seen[i] < seen[i + 1]
=============================================================================
