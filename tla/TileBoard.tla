------------------------------ MODULE TileBoard ------------------------------
(***************************************************************************)
(* The rules of Tile Rush, as operators: which tiles can be tapped, how    *)
(* the tray is kept and when it is stuck (game-engine/src/logic/board.ts,  *)
(* constants.ts; the web client has a copy of both).                       *)
(*                                                                         *)
(* A board is a function from the tiles that lie on it to the faces they   *)
(* show.  A tray is a sequence of tiles with their faces.                  *)
(***************************************************************************)
EXTENDS Layout, Sequences, SequencesExt

CONSTANTS
  Tiles,                  \* the tiles of a board
  Slot,                   \* where each of them lies
  Faces,                  \* the faces a triple is matched by
  MaxAttempts,            \* MAX_ATTEMPTS
  Deal,                   \* the board of each attempt: its seed fixes it
  TrayMaxEasy,            \* TRAY_MAX_EASY
  TrayMax,                \* TRAY_MAX
  MatchesBeforeHardTray,  \* MATCHES_BEFORE_HARD_TRAY
  ShufflesPerRun,         \* SHUFFLES_PER_RUN
  RoundTime               \* ROUND_TIME_SECONDS

Attempts == 1 .. MaxAttempts

ASSUME BoardConstants ==
  /\ IsFiniteSet(Tiles)
  /\ Slot \in [Tiles -> [row : Nat, col : Nat, layer : Nat]]
  /\ MaxAttempts \in Nat \ {0}
  /\ Deal \in [Attempts -> [Tiles -> Faces]]
  /\ {TrayMaxEasy, TrayMax, MatchesBeforeHardTray, ShufflesPerRun} \subseteq Nat
  /\ RoundTime \in Nat \ {0}

(* buildTypeBag, shuffled and dealt to the slots: every type is there      *)
(* TILES_PER_TYPE times, and as many types show one face as another, so a  *)
(* face is never left with a pair.                                         *)
TilesPerType == 3
InitialBoards ==
  {b \in [Tiles -> Faces] :
     \A f \in Faces : Cardinality({t \in Tiles : b[t] = f}) % TilesPerType = 0}

ASSUME BoardsAreDealt == \A a \in Attempts : Deal[a] \in InitialBoards

TrayTile == [id : Tiles, face : Faces]

Above == [t \in Tiles |-> {u \in Tiles : Covers(Slot[u], Slot[t])}]

GetSelectableTileIds(board) == {t \in DOMAIN board : Above[t] \cap DOMAIN board = {}}

(* The types of the tiles on the board are permuted.                       *)
ShuffleBoardTileTypes(board) ==
  {b \in [DOMAIN board -> Faces] :
     \A f \in Faces : Cardinality({t \in DOMAIN board : b[t] = f})
                        = Cardinality({t \in DOMAIN board : board[t] = f})}

Without(board, tile) == [t \in DOMAIN board \ {tile} |-> board[t]]

(* The positions of the tiles that show the face of the one at i.          *)
Alike(tray, i) == {j \in DOMAIN tray : tray[j].face = tray[i].face}

(* groupTrayByMatchKey after each insertion: a tile goes behind those of   *)
(* its face, in a tray that is grouped already.                            *)
AddTileToTrayGrouped(tray, tile) ==
  LET same == {i \in DOMAIN tray : tray[i].face = tile.face}
  IN  IF same = {} THEN Append(tray, tile) ELSE InsertAt(tray, Max(same) + 1, tile)

(* How many of S come up to i.                                             *)
Rank(S, i) == Cardinality({j \in S : j <= i})

(* resolveTriples: of each face the first three tiles go, and the next     *)
(* three, for as long as there are three.  The others close up.            *)
InTriple(tray) ==
  {i \in DOMAIN tray :
     Rank(Alike(tray, i), i) <= 3 * (Cardinality(Alike(tray, i)) \div 3)}

Matches(tray) == Cardinality(InTriple(tray)) \div 3

Kept(tray) == DOMAIN tray \ InTriple(tray)

Resolved(tray) ==
  [k \in 1 .. Cardinality(Kept(tray)) |->
     tray[CHOOSE i \in Kept(tray) : Rank(Kept(tray), i) = k]]

GetTrayMax(score) ==
  IF score < MatchesBeforeHardTray THEN TrayMaxEasy ELSE TrayMax

IsTrayStuck(tray, max) == Len(tray) >= max /\ Matches(tray) = 0
=============================================================================
