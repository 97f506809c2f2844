---------------------------- MODULE MCKeyCodec ----------------------------
(***************************************************************************)
(* KeyCodec with the subscripts that sit on its boundaries: empty, a zero  *)
(* byte, bytes that look like length prefixes of others, and the lengths   *)
(* around the change from one to three bytes of prefix.                    *)
(***************************************************************************)
EXTENDS KeyCodec

Symmetry == Permutations(Which)

MCSegments ==
    {<<>>, <<0>>, <<1>>, <<1, 255>>} \cup {[i \in 1..n |-> 255] : n \in {127, 128, 253}}

MCIntegers32 == {300, -1}
=============================================================================
