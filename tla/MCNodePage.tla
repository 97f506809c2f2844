----------------------------- MODULE MCNodePage ------------------------------
(***************************************************************************)
(* Nodes at the edges of the encoding: keys of 23 and 24 bytes (where the   *)
(* length leaves the first byte), of KeyLen bytes, chain ids on both sides  *)
(* of 24, 256 and 65536, internal nodes with their children, a leaf whose   *)
(* last record would fit a page of 512 bytes if it needed no slot, and one  *)
(* whose second record does not fit while its third would.                  *)
(***************************************************************************)
EXTENDS NodePage

CONSTANT KeyLen     \* length of the long keys

Key(first, len) == [i \in 1 .. len |-> IF i = 1 THEN first ELSE 120]

Leaf(next, prev, entries) ==
    [kind |-> "leaf", next |-> next, prev |-> prev, children |-> <<>>,
     entries |-> entries]

MCNodes ==
    { Leaf(-1, 7, <<[key |-> Key(65, 1), cid |-> 23], [key |-> Key(66, 23), cid |-> 24]>>),
      Leaf(3, -1, <<[key |-> Key(200, 24), cid |-> 255],
                    [key |-> Key(201, KeyLen), cid |-> 256]>>),
      Leaf(9, 4, <<[key |-> Key(1, KeyLen), cid |-> 65535],
                   [key |-> Key(90, KeyLen), cid |-> 65536],
                   [key |-> Key(91, 8), cid |-> 2]>>),
      Leaf(-1, 4, <<[key |-> Key(1, 240), cid |-> 8], [key |-> Key(2, 240), cid |-> 9],
                    [key |-> Key(3, 2), cid |-> 10]>>),
      Leaf(-1, -1, <<>>),
      [kind |-> "internal", next |-> -1, prev |-> -1, children |-> <<2, 30, 65600, 5>>,
       entries |-> <<[key |-> Key(64, 1), cid |-> 0], [key |-> Key(70, 24), cid |-> 0],
                     [key |-> Key(99, 100), cid |-> 0]>>],
      [kind |-> "internal", next |-> -1, prev |-> -1, children |-> <<4>>, entries |-> <<>>] }

(* The nodes are within the bounds the theorems ask for, but for keys of 256
   bytes. *)
ASSUME KeyLen < 256 => NodesInBounds /\ MetadataFits
==============================================================================
