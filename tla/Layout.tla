------------------------------- MODULE Layout -------------------------------
(***************************************************************************)
(* Where the tiles of a Tile Rush board lie: the 144 tiles of the Mahjong  *)
(* turtle and the 72 that fill its gaps (game-engine/src/logic/layout.ts), *)
(* and which tile lies on which (logic/board.ts).  The web client has a    *)
(* copy of both files (apps/web/lib/tile-rush).                            *)
(*                                                                         *)
(* A slot is a pair of grid coordinates and a layer.  Lengths are counted  *)
(* in thousandths of the width of a tile: grid points are 325 apart.       *)
(***************************************************************************)
EXTENDS Integers, FiniteSets, FiniteSetsExt

(* One piece of the text: a row, some columns, a layer.                    *)
Line(row, cols, layer) == {[row |-> row, col |-> c, layer |-> layer] : c \in cols}
Full  == {0, 2, 4, 6, 8, 10, 12, 14}
Wide  == {2, 4, 6, 8, 10, 12}
Inner == {4, 6, 8, 10}
Core  == {6, 8}

Turtle ==
  UNION ({Line(r, {7}, 0) : r \in {0, 26, 28}}
    \cup {Line(r, {0, 6, 8, 14}, 0) : r \in {2, 24}}
    \cup {Line(r, {0, 4, 6, 8, 10, 14}, 0) : r \in {4, 22}}
    \cup {Line(r, Full, 0) : r \in {6, 8, 10, 12, 14, 16, 18, 20}}
    \cup {Line(r, Wide, 1) : r \in {8, 10, 12, 14, 16, 18}}
    \cup {Line(r, Inner, 2) : r \in {10, 12, 14, 16}}
    \cup {Line(r, Core, 3) : r \in {12, 14}}
    \cup {Line(13, {7}, 4)})

(* Grid points of the footprint on which no tile of the turtle lies, on    *)
(* whatever layer.  The code also keeps its candidates 0.42 steps apart;   *)
(* two grid points are half a step apart, so that excludes none, and the   *)
(* first factor it tries already finds enough of them.                     *)
Candidates ==
  {c \in [row : 0 .. 31, col : 0 .. 17, layer : {0}] :
     \A s \in Turtle : <<s.row, s.col>> # <<c.row, c.col>>}

Distance(a, b) == IF a > b THEN a - b ELSE b - a
FromCore(s) == Distance(s.row, 14) + Distance(s.col, 7)

(* The order of the candidates: near the core first, then by row, then by  *)
(* column.                                                                 *)
Before(a, b) ==
  \/ FromCore(a) < FromCore(b)
  \/ /\ FromCore(a) = FromCore(b)
     /\ a.row < b.row \/ (a.row = b.row /\ a.col < b.col)

TotalTiles == 216
GapFillers ==
  {c \in Candidates :
     Cardinality({d \in Candidates : Before(d, c)}) < TotalTiles - Cardinality(Turtle)}

AllSlots == Turtle \cup GapFillers

ZIndexFor(s) == s.layer * 250000 + s.row * 200 + s.col

TileUnit == 1000
Step == 325  \* TILE_UNIT * (1 - OVERLAP_RATIO) / 2

(* What the tiles take up, edges included.                                 *)
BBox ==
  LET xs == {s.col * Step : s \in AllSlots}
      ys == {s.row * Step : s \in AllSlots}
      half == TileUnit \div 2
  IN  [left |-> Min(xs) - half, top |-> Min(ys) - half,
       width |-> Max(xs) - Min(xs) + TileUnit, height |-> Max(ys) - Min(ys) + TileUnit]

(* normalizeRawSlots: the board is the square of the longer side, with the *)
(* tiles in its middle.  It is BoardSpan units wide, in halves of the unit *)
(* above, so that the middle is a whole number.                            *)
BoardSpan == 2 * Max({BBox.width, BBox.height})
XNorm(s) == 2 * (s.col * Step - BBox.left) + (BoardSpan \div 2 - BBox.width)
YNorm(s) == 2 * (s.row * Step - BBox.top) + (BoardSpan \div 2 - BBox.height)
TileHalfExtentNorm == TileUnit

RectNorm(s) ==
  [left |-> XNorm(s) - TileHalfExtentNorm, right |-> XNorm(s) + TileHalfExtentNorm,
   top |-> YNorm(s) - TileHalfExtentNorm, bottom |-> YNorm(s) + TileHalfExtentNorm]

(* The throws of assertValidSlots: a slot too many or too few, one that is *)
(* there twice, or one off the grid.                                       *)
ValidSlots(slots) ==
  /\ Cardinality(slots) = TotalTiles
  /\ slots \subseteq [row : Nat, col : Nat, layer : Nat]

PointInRect(x, y, r) == r.left <= x /\ x <= r.right /\ r.top <= y /\ y <= r.bottom

(* The centre of a lies on the face of b.                                  *)
CenterUnder(a, b) == PointInRect(XNorm(a), YNorm(a), RectNorm(b))

Covers(b, a) == ZIndexFor(b) > ZIndexFor(a) /\ CenterUnder(a, b)
=============================================================================
