--------------------------- MODULE TileRushScene ---------------------------
(***************************************************************************)
(* A run of Tile Rush as the Phaser scene plays it                         *)
(* (game-engine/src/createTileRushGame.ts), and the component that mounts  *)
(* the scene and reports its result (PhaserTileRushClient.tsx).            *)
(*                                                                         *)
(* A tap sends its tile flying.  What the turn comes to is worked out at   *)
(* the tap and put into place when the tile lands, or, with a match, when  *)
(* the clearing is over.  The tiles are drawn by sprites that are kept     *)
(* from one drawing of the board to the next.                              *)
(***************************************************************************)
EXTENDS TileBoard

CONSTANTS
  None,        \* no timer, no report
  MaxReloads   \* bound: calls of reloadSession on one game

Phases == {"playing", "gameOver", "cleared", "timeUp"}

(* What a turn comes to, a tile on its way to the tray, a run's result.    *)
Turn == [tray : Seq(TrayTile), score : Nat]
Flight == [tile : Tiles, with : Seq(TrayTile), run : 0 .. MaxReloads, turn : Turn]
Result == [attempt : Attempts, matches : Nat, phase : Phases \ {"playing"}]

ASSUME SceneConstants == MaxReloads \in Nat /\ None \notin Turn

VARIABLES
  attempt, board, tray, score, phase, secondsLeft, shufflesLeft,
  hasScene,    \* whether handleRef.current.scene is the scene, or null
  locked,      \* inputLocked
  resolving,   \* resolvingTray
  sprite,      \* tileSprites: each one's "selectable", and whether it listens
  flying,      \* the tweens to the tray, each with what finishLogic closes over
  clearing,    \* matchClearTimer, with what completeTurn closes over
  redraws,     \* a drawing of the board is due after a shuffle
  finalized,   \* finalizedAttemptRef.current, 0 for null
  reported,    \* history: the calls of onRunComplete for this game
  reloads,     \* history: calls of reloadSession on this game
  strays       \* history: landings of a run that was over

turn == <<locked, resolving, flying, clearing>>
result == <<finalized, reported>>
history == <<reloads, strays>>
sceneVars == <<attempt, hasScene, board, tray, score, phase, secondsLeft, shufflesLeft, turn,
               sprite, redraws, result, history>>

SceneTypeOK ==
  /\ attempt \in Attempts /\ hasScene \in BOOLEAN
  /\ DOMAIN board \subseteq Tiles /\ \A t \in DOMAIN board : board[t] \in Faces
  /\ tray \in Seq(TrayTile) /\ score \in Nat /\ phase \in Phases
  /\ secondsLeft \in 0 .. RoundTime /\ shufflesLeft \in 0 .. ShufflesPerRun
  /\ locked \in BOOLEAN /\ resolving \in BOOLEAN /\ redraws \in BOOLEAN
  /\ DOMAIN sprite \subseteq Tiles
  /\ \A t \in DOMAIN sprite : sprite[t] \in [selectable : BOOLEAN, listens : BOOLEAN]
  /\ flying \subseteq Flight
  /\ clearing \in Turn \cup {None}
  /\ finalized \in 0 .. MaxAttempts
  /\ reported \in Seq(Result)
  /\ reloads \in 0 .. MaxReloads /\ strays \in Nat

-----------------------------------------------------------------------------
(* Mutation: a sprite that is there is kept, whatever it was drawn for.    *)
RenderBoardKeeping(b, drawn) ==
  [t \in DOMAIN b |->
     IF t \in DOMAIN drawn THEN drawn[t]
     ELSE [selectable |-> t \in GetSelectableTileIds(b),
           listens |-> t \in GetSelectableTileIds(b)]]

(* A sprite is kept when its tile is as selectable as it was.  Its face is *)
(* not looked at, so a kept sprite shows the face it was drawn with.       *)
RenderBoard(b, drawn) ==
  LET selectable == GetSelectableTileIds(b)
  IN  [t \in DOMAIN b |->
         IF t \in DOMAIN drawn /\ drawn[t].selectable = (t \in selectable)
           THEN drawn[t]
           ELSE [selectable |-> t \in selectable, listens |-> t \in selectable]]

(* What resetRun sets, and what is drawn of it.                            *)
ResetRun(a, drawn) ==
  /\ attempt' = a
  /\ board' = Deal[a]
  /\ tray' = << >> /\ score' = 0 /\ phase' = "playing"
  /\ secondsLeft' = RoundTime /\ shufflesLeft' = ShufflesPerRun
  /\ resolving' = FALSE /\ locked' = FALSE
  /\ clearing' = None
  /\ sprite' = RenderBoard(Deal[a], drawn)

SceneInit ==
  /\ attempt \in Attempts /\ hasScene \in BOOLEAN
  /\ board = Deal[attempt]
  /\ tray = << >> /\ score = 0 /\ phase = "playing"
  /\ secondsLeft = RoundTime /\ shufflesLeft = ShufflesPerRun
  /\ locked = FALSE /\ resolving = FALSE /\ redraws = FALSE
  /\ flying = {} /\ clearing = None
  /\ sprite = RenderBoard(Deal[attempt], << >>)
  /\ finalized = 0 /\ reported = << >>
  /\ reloads = 0 /\ strays = 0

(* The component's effect: the game is destroyed and another one created,  *)
(* when the session changes or the callback for its result does.  The      *)
(* handle asks for the scene at once: it is null for good when Phaser has  *)
(* yet to boot its scenes.                                                 *)
CreateGame(a) ==
  /\ hasScene' \in BOOLEAN
  /\ ResetRun(a, << >>)
  /\ flying' = {} /\ redraws' = FALSE
  /\ finalized' = 0 /\ reported' = << >>
  /\ reloads' = 0 /\ strays' = 0

(* reloadSession: the timer is removed, a tile that flies is not stopped.  *)
(* Like shuffleBoard it goes through the handle, and throws when that has  *)
(* no scene.                                                               *)
ReloadSession(a) ==
  /\ hasScene
  /\ reloads < MaxReloads
  /\ ResetRun(a, sprite)
  /\ reloads' = reloads + 1
  /\ finalized' = IF a = attempt THEN finalized ELSE 0
  /\ UNCHANGED <<hasScene, flying, redraws, reported, strays>>

(* onPhaseChange, and the component's recordRunIfNeeded in it.  The end is *)
(* shown; then getState throws when the handle has no scene.               *)
RecordRunIfNeeded(matches, end) ==
  IF ~hasScene \/ finalized = attempt THEN UNCHANGED result
  ELSE /\ finalized' = attempt
       /\ reported' = Append(reported, [attempt |-> attempt, matches |-> matches, phase |-> end])

Outcome(matches, left, empty) ==
  IF empty THEN "cleared"
  ELSE IF IsTrayStuck(left, GetTrayMax(matches)) THEN "gameOver"
  ELSE "playing"

(* completeTurn, with endRun.                                              *)
CompleteTurn(done, empty) ==
  LET end == Outcome(done.score, done.tray, empty)
      ends == end # "playing" /\ phase = "playing"
  IN  /\ score' = done.score
      /\ tray' = done.tray
      /\ locked' = ends
      /\ phase' = IF ends THEN end ELSE phase
      /\ IF ends THEN RecordRunIfNeeded(done.score, end) ELSE UNCHANGED result

-----------------------------------------------------------------------------
(* Mutation: a tile in the air does not hold up the rest.                  *)
IdleWhileFlying == phase = "playing" /\ ~resolving

Free == phase = "playing" /\ ~resolving /\ ~locked

(* A tap comes from a sprite that listens.  As in TileRush the check for a *)
(* stuck tray at its head never applies.                                   *)
TileTap(t) ==
  /\ Free
  /\ t \in DOMAIN sprite /\ sprite[t].listens
  /\ t \in GetSelectableTileIds(board)
  /\ LET with == AddTileToTrayGrouped(tray, [id |-> t, face |-> board[t]])
     IN  flying' = flying \cup
           {[tile |-> t, with |-> with, run |-> reloads,
             turn |-> [tray |-> Resolved(with), score |-> score + Matches(with)]]}
  /\ sprite' = [sprite EXCEPT ![t].listens = FALSE]
  /\ locked' = TRUE
  /\ UNCHANGED <<attempt, hasScene, board, tray, score, phase, secondsLeft, shufflesLeft,
                 resolving, clearing, redraws, result, history>>

(* finishLogic.                                                            *)
Land(f) ==
  LET left == Without(board, f.tile)
  IN  /\ flying' = flying \ {f}
      /\ board' = left
      /\ sprite' = RenderBoard(left, [t \in DOMAIN sprite \ {f.tile} |-> sprite[t]])
      /\ IF Matches(f.with) > 0
           THEN /\ resolving' = TRUE
                /\ tray' = f.with
                /\ clearing' = f.turn
                /\ UNCHANGED <<score, phase, locked, result>>
           ELSE /\ CompleteTurn(f.turn, DOMAIN left = {})
                /\ UNCHANGED <<resolving, clearing>>
      /\ strays' = strays + (IF f.run = reloads THEN 0 ELSE 1)
      /\ UNCHANGED <<attempt, hasScene, secondsLeft, shufflesLeft, redraws, reloads>>

MatchClears ==
  /\ clearing # None
  /\ clearing' = None
  /\ resolving' = FALSE
  /\ CompleteTurn(clearing, DOMAIN board = {})
  /\ UNCHANGED <<attempt, hasScene, board, secondsLeft, shufflesLeft, flying, sprite, redraws,
                 history>>

(* Only the faces change: every tile keeps its sprite.                     *)
ShuffleBoard ==
  /\ hasScene
  /\ Free
  /\ shufflesLeft > 0 /\ board # << >>
  /\ board' \in ShuffleBoardTileTypes(board)
  /\ shufflesLeft' = shufflesLeft - 1
  /\ redraws' = TRUE
  /\ UNCHANGED <<attempt, hasScene, tray, score, phase, secondsLeft, turn, sprite, result,
                 history>>

Redraw ==
  /\ redraws
  /\ redraws' = FALSE
  /\ sprite' = RenderBoard(board, sprite)
  /\ UNCHANGED <<attempt, hasScene, board, tray, score, phase, secondsLeft, shufflesLeft, turn,
                 result, history>>

(* Mutation: the clock goes on while a turn is under way.                  *)
ClockRunsThroughTurns == phase = "playing"

(* The clock stands still while a turn is under way.                       *)
ClockRuns == Free

(* The tick after the last second ends the run.                            *)
TickTimer ==
  /\ ClockRuns
  /\ IF secondsLeft = 0
       THEN /\ phase' = "timeUp"
            /\ locked' = TRUE
            /\ RecordRunIfNeeded(score, "timeUp")
            /\ UNCHANGED secondsLeft
       ELSE /\ secondsLeft' = secondsLeft - 1
            /\ UNCHANGED <<phase, locked, result>>
  /\ UNCHANGED <<attempt, hasScene, board, tray, score, shufflesLeft, resolving, sprite, flying,
                 clearing, redraws, history>>

SceneNext ==
  \/ \E a \in Attempts : CreateGame(a) \/ ReloadSession(a)
  \/ \E t \in Tiles : TileTap(t)
  \/ \E f \in flying : Land(f)
  \/ MatchClears \/ ShuffleBoard \/ Redraw \/ TickTimer

SceneSpec == SceneInit /\ [][SceneNext]_sceneVars

-----------------------------------------------------------------------------
(* Properties.                                                             *)

(* One turn at a time: of this run at most one tile is in the air, and     *)
(* none while a match is cleared.  So every tile is on the board, in the   *)
(* tray or scored at any time, unless it lands in another run than the one *)
(* it was tapped in.                                                       *)
TilesAccounted ==
  /\ SceneTypeOK
  /\ strays = 0 =>
       LET mine == {f \in flying : f.run = reloads}
       IN  /\ Cardinality(mine) + (IF clearing = None THEN 0 ELSE 1) <= 1
           /\ Cardinality(DOMAIN board) + Len(tray) + 3 * score = Cardinality(Tiles)

(* While nothing moves, the tiles that listen are those that may be        *)
(* tapped: no drawing of the board leaves a tile dead that a turn freed.   *)
TapTargets ==
  flying = {} =>
    {t \in DOMAIN board : sprite[t].listens} = GetSelectableTileIds(board)

(* A game that ends is reported once, with the score and the end it shows, *)
(* and nothing that was under way changes either of them afterwards - if   *)
(* its handle has the scene: otherwise the player sees an end that nobody  *)
(* is ever told of.                                                        *)
EndIsReported ==
  (phase # "playing" /\ reloads = 0) =>
    reported = IF hasScene
                 THEN <<[attempt |-> attempt, matches |-> score, phase |-> phase]>>
                 ELSE << >>
=============================================================================
