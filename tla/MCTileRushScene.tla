-------------------------- MODULE MCTileRushScene --------------------------
(***************************************************************************)
(* Six tiles of the middle of the turtle, of two faces, in two piles.      *)
(***************************************************************************)
EXTENDS TileRushScene

MCTiles == 1 .. 6
MCSlot ==
  <<[row |-> 12, col |-> 6, layer |-> 3], [row |-> 12, col |-> 6, layer |-> 2],
    [row |-> 12, col |-> 6, layer |-> 1], [row |-> 12, col |-> 7, layer |-> 0],
    [row |-> 16, col |-> 4, layer |-> 2], [row |-> 16, col |-> 4, layer |-> 1]>>
MCFaces == {"x", "y"}
MCDeal ==
  [a \in Attempts |-> [t \in MCTiles |-> IF (t + a) % 2 = 0 THEN "x" ELSE "y"]]


(* Bound: what a stray landing does to the next run is not followed up.    *)
NoStrays == strays = 0
=============================================================================
