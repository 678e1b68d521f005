----------------------------- MODULE MCPlayPage -----------------------------
(***************************************************************************)
(* Six tiles in a pile below the top of the turtle.  They show two faces   *)
(* in turn in the first attempt, which fills the tray unless the player    *)
(* shuffles, and one face in the second.                                   *)
(***************************************************************************)
EXTENDS PlayPage

MCTiles == 1 .. 6
MCSlot ==
  <<[row |-> 13, col |-> 7, layer |-> 4], [row |-> 12, col |-> 6, layer |-> 3],
    [row |-> 12, col |-> 6, layer |-> 2], [row |-> 12, col |-> 6, layer |-> 1],
    [row |-> 12, col |-> 7, layer |-> 0], [row |-> 12, col |-> 6, layer |-> 0]>>
MCFaces == {"x", "y"}
MCDeal ==
  [a \in Attempts |-> [t \in MCTiles |-> IF a = 1 /\ t % 2 = 0 THEN "y" ELSE "x"]]

ASSUME SlotsAreOfTheBoard == \A t \in MCTiles : MCSlot[t] \in AllSlots

(* The board is built without an error and its tiles stay within it.       *)
ASSUME BoardIsBuilt ==
  /\ ValidSlots(AllSlots)
  /\ \A s \in AllSlots :
       LET face == RectNorm(s)
       IN  {face.left, face.right, face.top, face.bottom} \subseteq 0 .. BoardSpan
=============================================================================
