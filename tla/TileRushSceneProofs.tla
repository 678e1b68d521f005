------------------------- MODULE TileRushSceneProofs -------------------------
(***************************************************************************)
(* Why the scene loses no tile, leaves none dead and reports an end as it  *)
(* shows it, for any board, deal and tray, and however taps, landings,     *)
(* timers, shuffles, drawings and new sessions interleave.                 *)
(***************************************************************************)
EXTENDS TileRushScene, TileBoardProofs

Mine == {f \in flying : f.run = reloads}

(* What is in the air was tapped in this run or an earlier one.            *)
RunsInv == (\A f \in flying : f.run <= reloads) /\ (reloads = 0 => strays = 0)

(* One turn at a time, worked out from the tray it is going to change.     *)
TurnInv ==
  strays = 0 =>
    /\ \A f \in Mine :
         /\ phase = "playing" /\ locked /\ clearing = None
         /\ f.tile \in DOMAIN board
         /\ Len(f.with) = Len(tray) + 1
         /\ Len(f.turn.tray) = Len(f.with) - 3 * Matches(f.with)
         /\ f.turn.score = score + Matches(f.with)
    /\ \A f, g \in Mine : f = g
    /\ clearing # None =>
         /\ phase = "playing" /\ resolving /\ Mine = {}
         /\ Len(clearing.tray) = Len(tray) - 3 * Matches(tray)
         /\ clearing.score = score + Matches(tray)
    /\ Cardinality(DOMAIN board) + Len(tray) + 3 * score = Cardinality(Tiles)

(* A sprite is as selectable as its tile, and listens, unless its tile was *)
(* tapped and is in the air.                                               *)
SpriteInv ==
  /\ DOMAIN sprite = DOMAIN board
  /\ \A t \in DOMAIN board :
       /\ sprite[t].selectable = (t \in GetSelectableTileIds(board))
       /\ sprite[t].listens # sprite[t].selectable =>
            ~sprite[t].listens /\ \E f \in flying : f.tile = t

(* A run is reported exactly when it is over and the handle has the scene. *)
EndInv ==
  reloads = 0 =>
    IF phase = "playing" \/ ~hasScene THEN finalized = 0 /\ reported = << >>
    ELSE /\ finalized = attempt
         /\ reported = <<[attempt |-> attempt, matches |-> score, phase |-> phase]>>

SceneInv == SceneTypeOK /\ RunsInv /\ TurnInv /\ SpriteInv /\ EndInv

-----------------------------------------------------------------------------
(* What the parts of the actions do.                                       *)

Sprite == [selectable : BOOLEAN, listens : BOOLEAN]

LEMMA BoardIsFinite ==
  ASSUME SceneTypeOK
  PROVE  IsFiniteSet(DOMAIN board) /\ Cardinality(DOMAIN board) \in Nat
  <1>1. DOMAIN board \in SUBSET Tiles /\ IsFiniteSet(Tiles)
    BY BoardConstants DEF SceneTypeOK
  <1>2. QED
    BY <1>1, FS_Subset, FS_CardinalityType

LEMMA TrayTyped ==
  ASSUME NEW s \in Seq(TrayTile)
  PROVE  Len(s) \in Nat /\ Matches(s) \in Nat
  BY TrayIsFinite, TriplesAreWhole

(* A drawing has a sprite for each tile, as selectable as it is; one that  *)
(* does not listen as it should was there before.                          *)
LEMMA DrawingFits ==
  ASSUME NEW b, NEW drawn, \A t \in DOMAIN drawn : drawn[t] \in Sprite
  PROVE  /\ DOMAIN RenderBoard(b, drawn) = DOMAIN b
         /\ \A t \in DOMAIN b :
              /\ RenderBoard(b, drawn)[t] \in Sprite
              /\ RenderBoard(b, drawn)[t].selectable = (t \in GetSelectableTileIds(b))
              /\ \/ RenderBoard(b, drawn)[t].listens = RenderBoard(b, drawn)[t].selectable
                 \/ t \in DOMAIN drawn /\ RenderBoard(b, drawn)[t] = drawn[t]
  <1> DEFINE R == RenderBoard(b, drawn)
  <1>1. DOMAIN R = DOMAIN b
    BY DEF RenderBoard
  <1>2. ASSUME NEW t \in DOMAIN b
        PROVE  /\ R[t] \in Sprite
               /\ R[t].selectable = (t \in GetSelectableTileIds(b))
               /\ R[t].listens = R[t].selectable \/ (t \in DOMAIN drawn /\ R[t] = drawn[t])
    <2> DEFINE can == t \in GetSelectableTileIds(b)
    <2>1. can \in BOOLEAN
      OBVIOUS
    <2> HIDE DEF can
    <2>2. CASE t \in DOMAIN drawn /\ drawn[t].selectable = can
      <3>1. R[t] = drawn[t]
        BY <2>2 DEF RenderBoard, can
      <3>2. R[t] \in Sprite /\ R[t].selectable = can
        BY <2>2, <3>1
      <3>3. QED
        BY <2>2, <3>1, <3>2 DEF can
    <2>3. CASE ~(t \in DOMAIN drawn /\ drawn[t].selectable = can)
      <3>1. R[t] = [selectable |-> can, listens |-> can]
        BY <2>3 DEF RenderBoard, can
      <3>2. R[t] \in Sprite /\ R[t].selectable = can /\ R[t].listens = can
        BY <2>1, <3>1 DEF Sprite
      <3>3. QED
        BY <3>2 DEF can
    <2>4. QED
      BY <2>2, <2>3
  <1> HIDE DEF R
  <1>3. QED
    BY <1>1, <1>2 DEF R

LEMMA OutcomeIsPhase ==
  ASSUME NEW matches, NEW left, NEW empty
  PROVE  Outcome(matches, left, empty) \in Phases
  BY DEF Outcome, Phases

(* A turn that is over, in a run that is: without the scene the handle     *)
(* throws, and nothing is recorded.                                        *)
LEMMA ResultIsRecorded ==
  ASSUME SceneTypeOK, NEW matches \in Nat, NEW end \in Phases \ {"playing"},
         RecordRunIfNeeded(matches, end)
  PROVE  /\ finalized' \in 0 .. MaxAttempts /\ reported' \in Seq(Result)
         /\ (finalized = 0 /\ reported = << >>) =>
              IF ~hasScene THEN finalized' = 0 /\ reported' = << >>
              ELSE /\ finalized' = attempt
                   /\ reported' = <<[attempt |-> attempt, matches |-> matches, phase |-> end]>>
  <1>1. attempt \in 1 .. MaxAttempts /\ MaxAttempts \in Nat
    BY BoardConstants DEF SceneTypeOK, Attempts
  <1>2. PICK r : r = [attempt |-> attempt, matches |-> matches, phase |-> end]
    OBVIOUS
  <1>3. r \in Result
    BY <1>2 DEF SceneTypeOK, Result
  <1>4. CASE ~hasScene \/ finalized = attempt
    BY <1>1, <1>4 DEF RecordRunIfNeeded, SceneTypeOK, result
  <1>5. CASE hasScene /\ finalized # attempt
    <2>1. finalized' = attempt /\ reported' = Append(reported, r)
      BY <1>2, <1>5 DEF RecordRunIfNeeded
    <2>2. reported' \in Seq(Result)
      BY <1>3, <2>1 DEF SceneTypeOK
    <2>3. reported = << >> => reported' = <<r>>
      BY <2>1
    <2>4. QED
      BY <1>1, <1>2, <1>5, <2>1, <2>2, <2>3
  <1>6. QED
    BY <1>4, <1>5

LEMMA TurnIsCompleted ==
  ASSUME SceneTypeOK, EndInv, NEW done \in Turn, NEW empty, CompleteTurn(done, empty)
  PROVE  /\ score' = done.score /\ tray' = done.tray
         /\ score' \in Nat /\ tray' \in Seq(TrayTile)
         /\ locked' \in BOOLEAN /\ phase' \in Phases
         /\ finalized' \in 0 .. MaxAttempts /\ reported' \in Seq(Result)
         /\ (reloads = 0 /\ phase = "playing") =>
              IF phase' = "playing" \/ ~hasScene THEN finalized' = 0 /\ reported' = << >>
              ELSE /\ finalized' = attempt
                   /\ reported' = <<[attempt |-> attempt, matches |-> score', phase |-> phase']>>
  <1>1. PICK end : end = Outcome(done.score, done.tray, empty)
    OBVIOUS
  <1>2. end \in Phases
    BY <1>1, OutcomeIsPhase
  <1>3. PICK ends \in BOOLEAN : ends = (end # "playing" /\ phase = "playing")
    OBVIOUS
  <1>4. /\ score' = done.score /\ tray' = done.tray
        /\ locked' = ends /\ phase' = IF ends THEN end ELSE phase
        /\ IF ends THEN RecordRunIfNeeded(done.score, end) ELSE UNCHANGED result
    BY <1>1, <1>3 DEF CompleteTurn
  <1>5. done.score \in Nat /\ done.tray \in Seq(TrayTile)
    BY DEF Turn
  <1>6. CASE ends
    <2>1. end \in Phases \ {"playing"} /\ phase = "playing"
      BY <1>2, <1>3, <1>6
    <2>2. phase' = end /\ RecordRunIfNeeded(done.score, end)
      BY <1>4, <1>6
    <2>3. /\ finalized' \in 0 .. MaxAttempts /\ reported' \in Seq(Result)
          /\ (finalized = 0 /\ reported = << >>) =>
               IF ~hasScene THEN finalized' = 0 /\ reported' = << >>
               ELSE /\ finalized' = attempt
                    /\ reported' = <<[attempt |-> attempt, matches |-> done.score,
                                      phase |-> end]>>
      BY <1>5, <2>1, <2>2, ResultIsRecorded
    <2>4. QED
      BY <1>2, <1>4, <1>5, <1>6, <2>1, <2>2, <2>3 DEF EndInv
  <1>7. CASE ~ends
    BY <1>4, <1>5, <1>7 DEF SceneTypeOK, EndInv, result
  <1>8. QED
    BY <1>6, <1>7

-----------------------------------------------------------------------------
(* The invariant is kept, action by action.                                *)

(* A run that starts: whatever was under way is of another one.            *)
LEMMA RunStarts ==
  ASSUME NEW a \in Attempts, NEW drawn, \A t \in DOMAIN drawn : drawn[t] \in Sprite,
         ResetRun(a, drawn)
  PROVE  /\ attempt' = a /\ board' = Deal[a] /\ tray' = << >> /\ score' = 0
         /\ phase' = "playing" /\ clearing' = None
         /\ secondsLeft' \in 0 .. RoundTime /\ shufflesLeft' \in 0 .. ShufflesPerRun
         /\ locked' = FALSE /\ resolving' = FALSE
         /\ DOMAIN board' = Tiles /\ \A t \in DOMAIN board' : board'[t] \in Faces
         /\ tray' \in Seq(TrayTile)
         /\ DOMAIN sprite' = DOMAIN board'
         /\ \A t \in DOMAIN board' :
              /\ sprite'[t] \in Sprite
              /\ sprite'[t].selectable = (t \in GetSelectableTileIds(board'))
              /\ sprite'[t].listens = sprite'[t].selectable
                   \/ (t \in DOMAIN drawn /\ sprite'[t] = drawn[t])
         /\ Cardinality(DOMAIN board') + Len(tray') + 3 * score' = Cardinality(Tiles)
  <1>1. Deal[a] \in [Tiles -> Faces] /\ IsFiniteSet(Tiles)
        /\ RoundTime \in Nat /\ ShufflesPerRun \in Nat
    BY BoardConstants
  <1>2. /\ attempt' = a /\ board' = Deal[a] /\ tray' = << >> /\ score' = 0
        /\ phase' = "playing" /\ clearing' = None
        /\ secondsLeft' = RoundTime /\ shufflesLeft' = ShufflesPerRun
        /\ locked' = FALSE /\ resolving' = FALSE
        /\ sprite' = RenderBoard(Deal[a], drawn)
    BY DEF ResetRun
  <1>3. /\ DOMAIN sprite' = DOMAIN board'
        /\ \A t \in DOMAIN board' :
             /\ sprite'[t] \in Sprite
             /\ sprite'[t].selectable = (t \in GetSelectableTileIds(board'))
             /\ sprite'[t].listens = sprite'[t].selectable
                  \/ (t \in DOMAIN drawn /\ sprite'[t] = drawn[t])
    BY <1>2, DrawingFits
  <1>4. Cardinality(DOMAIN board') + Len(tray') + 3 * score' = Cardinality(Tiles)
    <2>1. Cardinality(Tiles) \in Nat
      BY <1>1, FS_CardinalityType
    <2>2. DOMAIN board' = Tiles /\ Len(tray') = 0
      BY <1>1, <1>2
    <2>3. QED
      BY <1>2, <2>1, <2>2
  <1>5. QED
    BY <1>1, <1>2, <1>3, <1>4

(* A game that is created is like one that starts.                         *)
LEMMA FreshGame ==
  ASSUME NEW a \in Attempts, hasScene' \in BOOLEAN, ResetRun(a, << >>),
         flying' = {}, redraws' = FALSE, finalized' = 0, reported' = << >>,
         reloads' = 0, strays' = 0
  PROVE  SceneInv'
  <1>1. \A t \in DOMAIN << >> : << >>[t] \in Sprite
    OBVIOUS
  <1>2. PICK drawn : drawn = << >> /\ (\A t \in DOMAIN drawn : drawn[t] \in Sprite)
                     /\ DOMAIN drawn = {}
    BY <1>1
  <1>3. ResetRun(a, drawn)
    BY <1>2
  <1>4. /\ attempt' = a /\ phase' = "playing" /\ clearing' = None /\ score' = 0
        /\ secondsLeft' \in 0 .. RoundTime /\ shufflesLeft' \in 0 .. ShufflesPerRun
        /\ locked' = FALSE /\ resolving' = FALSE
        /\ DOMAIN board' = Tiles /\ \A t \in DOMAIN board' : board'[t] \in Faces
        /\ tray' \in Seq(TrayTile)
        /\ DOMAIN sprite' = DOMAIN board'
        /\ \A t \in DOMAIN board' :
             /\ sprite'[t] \in Sprite
             /\ sprite'[t].selectable = (t \in GetSelectableTileIds(board'))
             /\ sprite'[t].listens = sprite'[t].selectable
        /\ Cardinality(DOMAIN board') + Len(tray') + 3 * score' = Cardinality(Tiles)
    BY <1>2, <1>3, RunStarts
  <1>5. 0 \in 0 .. MaxReloads /\ 0 \in 0 .. MaxAttempts /\ 0 \in Nat
    BY SceneConstants, BoardConstants
  <1>6. Mine' = {}
    BY DEF Mine
  <1>7. SceneTypeOK'
    <2>1. reported' \in Seq(Result) /\ flying' \subseteq Flight
      OBVIOUS
    <2>2. phase' \in Phases
      BY <1>4 DEF Phases
    <2>3. QED
      BY <1>4, <1>5, <2>1, <2>2 DEF SceneTypeOK, Sprite
  <1>8. TurnInv'
    BY <1>4, <1>6 DEF TurnInv
  <1>9. SpriteInv'
    BY <1>4 DEF SpriteInv
  <1>10. RunsInv' /\ EndInv'
    BY <1>4 DEF RunsInv, EndInv
  <1>11. QED
    BY <1>7, <1>8, <1>9, <1>10 DEF SceneInv

LEMMA CreateGameKeeps ==
  ASSUME NEW a \in Attempts, CreateGame(a)
  PROVE  SceneInv'
  BY FreshGame DEF CreateGame

LEMMA ReloadSessionKeeps ==
  ASSUME SceneInv, NEW a \in Attempts, ReloadSession(a)
  PROVE  SceneInv'
  <1>1. SceneTypeOK /\ RunsInv /\ SpriteInv
    BY DEF SceneInv
  <1>2. /\ reloads < MaxReloads /\ ResetRun(a, sprite) /\ reloads' = reloads + 1
        /\ finalized' = (IF a = attempt THEN finalized ELSE 0)
        /\ UNCHANGED <<hasScene, flying, redraws, reported, strays>>
    BY DEF ReloadSession
  <1>3. \A t \in DOMAIN sprite : sprite[t] \in Sprite
    BY <1>1 DEF SceneTypeOK, Sprite
  <1>4. /\ attempt' = a /\ phase' = "playing" /\ clearing' = None /\ score' = 0
        /\ secondsLeft' \in 0 .. RoundTime /\ shufflesLeft' \in 0 .. ShufflesPerRun
        /\ locked' = FALSE /\ resolving' = FALSE
        /\ DOMAIN board' = Tiles /\ \A t \in DOMAIN board' : board'[t] \in Faces
        /\ tray' \in Seq(TrayTile)
        /\ DOMAIN sprite' = DOMAIN board'
        /\ \A t \in DOMAIN board' :
             /\ sprite'[t] \in Sprite
             /\ sprite'[t].selectable = (t \in GetSelectableTileIds(board'))
             /\ sprite'[t].listens = sprite'[t].selectable
                  \/ (t \in DOMAIN sprite /\ sprite'[t] = sprite[t])
        /\ Cardinality(DOMAIN board') + Len(tray') + 3 * score' = Cardinality(Tiles)
    BY <1>2, <1>3, RunStarts
  <1>5. /\ reloads \in 0 .. MaxReloads /\ reloads' \in 0 .. MaxReloads /\ reloads' > 0
        /\ finalized' \in 0 .. MaxAttempts /\ MaxReloads \in Nat
    BY <1>1, <1>2, SceneConstants, BoardConstants DEF SceneTypeOK
  <1>6. \A f \in flying : f.run \in Nat /\ f.run <= reloads
    BY <1>1 DEF SceneTypeOK, Flight, RunsInv
  <1>7. Mine' = {}
    BY <1>2, <1>5, <1>6 DEF Mine
  <1>8. SceneTypeOK'
    <2>1. /\ reported' \in Seq(Result) /\ flying' \subseteq Flight /\ redraws' \in BOOLEAN
          /\ strays' \in Nat /\ clearing' \in Turn \cup {None} /\ DOMAIN sprite' \subseteq Tiles
          /\ attempt' \in Attempts
      BY <1>1, <1>2, <1>4 DEF SceneTypeOK
    <2>2. phase' \in Phases /\ hasScene' \in BOOLEAN
      BY <1>1, <1>2, <1>4 DEF Phases, SceneTypeOK
    <2>3. QED
      BY <1>4, <1>5, <2>1, <2>2 DEF SceneTypeOK, Sprite
  <1>9. TurnInv'
    BY <1>4, <1>7 DEF TurnInv
  <1>10. SpriteInv'
    <2>1. ASSUME NEW t \in DOMAIN board', sprite'[t].listens # sprite'[t].selectable
          PROVE  ~sprite'[t].listens /\ \E f \in flying : f.tile = t
      BY <1>1, <1>4, <2>1 DEF SpriteInv
    <2>2. QED
      BY <1>2, <1>4, <2>1 DEF SpriteInv
  <1>11. RunsInv' /\ EndInv'
    BY <1>2, <1>5, <1>6 DEF RunsInv, EndInv
  <1>12. QED
    BY <1>8, <1>9, <1>10, <1>11 DEF SceneInv

LEMMA TapKeeps ==
  ASSUME SceneInv, NEW t, TileTap(t)
  PROVE  SceneInv'
  <1>1. SceneTypeOK /\ RunsInv /\ TurnInv /\ SpriteInv /\ EndInv
    BY DEF SceneInv
  <1>2. PICK with : with = AddTileToTrayGrouped(tray, [id |-> t, face |-> board[t]])
    OBVIOUS
  <1>3. PICK m : m = Matches(with)
    OBVIOUS
  <1>4. PICK done : done = [tray |-> Resolved(with), score |-> score + m]
    OBVIOUS
  <1>5. PICK f : f = [tile |-> t, with |-> with, run |-> reloads, turn |-> done]
    OBVIOUS
  <1>6. /\ phase = "playing" /\ resolving = FALSE /\ locked = FALSE
        /\ t \in DOMAIN sprite /\ sprite[t].listens /\ t \in GetSelectableTileIds(board)
        /\ flying' = flying \cup {f} /\ locked' = TRUE
        /\ sprite' = [sprite EXCEPT ![t].listens = FALSE]
        /\ UNCHANGED <<attempt, hasScene, board, tray, score, phase, secondsLeft, shufflesLeft,
                       resolving, clearing, redraws, result, history>>
    BY <1>1, <1>2, <1>3, <1>4, <1>5 DEF TileTap, Free, SceneTypeOK
  <1>7. t \in DOMAIN board /\ t \in Tiles /\ board[t] \in Faces
    BY <1>1, <1>6 DEF SceneTypeOK, SpriteInv
  <1>8. /\ with \in Seq(TrayTile) /\ Len(with) = Len(tray) + 1
        /\ m \in Nat /\ Resolved(with) \in Seq(TrayTile)
        /\ Len(Resolved(with)) = Len(with) - 3 * m
    <2>1. [id |-> t, face |-> board[t]] \in TrayTile /\ tray \in Seq(TrayTile)
      BY <1>1, <1>7 DEF TrayTile, SceneTypeOK
    <2>2. with \in Seq(TrayTile) /\ Len(with) = Len(tray) + 1
      BY <1>2, <2>1, OneMoreInTray
    <2>3. QED
      BY <1>3, <2>2, TriplesAreWhole, TheRestCloses
  <1>9. /\ done \in Turn /\ done.tray = Resolved(with) /\ done.score = score + m
    BY <1>1, <1>4, <1>8 DEF SceneTypeOK, Turn
  <1>10. f \in Flight /\ f.tile = t /\ f.with = with /\ f.run = reloads /\ f.turn = done
    BY <1>1, <1>5, <1>7, <1>8, <1>9 DEF SceneTypeOK, Flight
  <1>11. sprite' = [u \in DOMAIN sprite |->
                      IF u = t THEN [sprite[t] EXCEPT !.listens = FALSE] ELSE sprite[u]]
    BY <1>6
  <1>12. /\ DOMAIN sprite' = DOMAIN sprite
         /\ sprite'[t] \in Sprite /\ sprite'[t].selectable = sprite[t].selectable
         /\ sprite'[t].listens = FALSE
         /\ \A u \in DOMAIN sprite \ {t} : sprite'[u] = sprite[u]
    <2>1. PICK s \in Sprite : s = sprite[t]
      BY <1>1, <1>6 DEF SceneTypeOK, Sprite
    <2>2. sprite'[t] = [s EXCEPT !.listens = FALSE]
      BY <1>6, <1>11, <2>1
    <2>3. sprite'[t] \in Sprite /\ sprite'[t].selectable = s.selectable
          /\ sprite'[t].listens = FALSE
      BY <2>2 DEF Sprite
    <2>4. QED
      BY <1>11, <2>1, <2>3
  <1>13. reloads' = reloads /\ strays' = strays /\ finalized' = finalized /\ reported' = reported
    BY <1>6 DEF history, result
  <1>14. strays = 0 => Mine = {} /\ clearing = None
    BY <1>1, <1>6 DEF TurnInv
  <1>15. strays = 0 => Mine' = {f}
    BY <1>6, <1>10, <1>13, <1>14 DEF Mine
  <1>16. SceneTypeOK'
    <2>1. \A u \in DOMAIN sprite' : sprite'[u] \in Sprite
      BY <1>1, <1>12 DEF SceneTypeOK, Sprite
    <2>2. QED
      BY <1>1, <1>6, <1>10, <1>12, <1>13, <2>1 DEF SceneTypeOK, Sprite
  <1>17. TurnInv'
    <2> SUFFICES ASSUME strays = 0 PROVE TurnInv'
      BY <1>13 DEF TurnInv
    <2>1. Mine' = {f} /\ clearing' = None
      BY <1>6, <1>14, <1>15
    <2>2. Len(f.turn.tray) = Len(f.with) - 3 * Matches(f.with)
          /\ f.turn.score = score + Matches(f.with)
      BY <1>3, <1>8, <1>9, <1>10
    <2>3. Cardinality(DOMAIN board) + Len(tray) + 3 * score = Cardinality(Tiles)
      BY <1>1 DEF TurnInv
    <2>4. QED
      BY <1>6, <1>7, <1>8, <1>10, <2>1, <2>2, <2>3 DEF TurnInv
  <1>18. SpriteInv'
    <2>1. ASSUME NEW u \in DOMAIN board
          PROVE  /\ sprite'[u].selectable = (u \in GetSelectableTileIds(board))
                 /\ sprite'[u].listens # sprite'[u].selectable =>
                      ~sprite'[u].listens /\ \E g \in flying' : g.tile = u
      <3>1. CASE u = t
        BY <1>1, <1>6, <1>10, <1>12, <3>1 DEF SpriteInv
      <3>2. CASE u # t
        BY <1>1, <1>6, <1>12, <3>2 DEF SpriteInv
      <3>3. QED
        BY <3>1, <3>2
    <2>2. QED
      BY <1>1, <1>6, <1>12, <2>1 DEF SpriteInv
  <1>19. RunsInv' /\ EndInv'
    BY <1>1, <1>6, <1>10, <1>13 DEF RunsInv, EndInv, SceneTypeOK
  <1>20. QED
    BY <1>16, <1>17, <1>18, <1>19 DEF SceneInv

LEMMA ShuffleKeeps ==
  ASSUME SceneInv, ShuffleBoard
  PROVE  SceneInv'
  <1>1. SceneTypeOK /\ RunsInv /\ TurnInv /\ SpriteInv /\ EndInv
    BY DEF SceneInv
  <1>2. /\ board' \in [DOMAIN board -> Faces] /\ shufflesLeft > 0
        /\ shufflesLeft' = shufflesLeft - 1 /\ redraws' = TRUE
        /\ UNCHANGED <<attempt, hasScene, tray, score, phase, secondsLeft, turn, sprite, result,
                       history>>
    BY DEF ShuffleBoard, ShuffleBoardTileTypes
  <1>3. shufflesLeft' \in 0 .. ShufflesPerRun
    BY <1>1, <1>2, BoardConstants DEF SceneTypeOK
  <1>4. DOMAIN board' = DOMAIN board /\ \A t \in DOMAIN board' : board'[t] \in Faces
    BY <1>2
  <1>5. GetSelectableTileIds(board') = GetSelectableTileIds(board)
    BY <1>4 DEF GetSelectableTileIds
  <1>6. UNCHANGED <<locked, resolving, flying, clearing, finalized, reported, reloads, strays>>
    BY <1>2 DEF turn, result, history
  <1>7. SceneTypeOK'
    BY <1>1, <1>2, <1>3, <1>4, <1>6 DEF SceneTypeOK
  <1>8. Mine' = Mine
    BY <1>6 DEF Mine
  <1>9. TurnInv'
    BY <1>1, <1>2, <1>4, <1>6, <1>8 DEF TurnInv
  <1>10. SpriteInv' /\ RunsInv' /\ EndInv'
    BY <1>1, <1>2, <1>4, <1>5, <1>6 DEF SpriteInv, RunsInv, EndInv
  <1>11. QED
    BY <1>7, <1>9, <1>10 DEF SceneInv

LEMMA RedrawKeeps ==
  ASSUME SceneInv, Redraw
  PROVE  SceneInv'
  <1>1. SceneTypeOK /\ RunsInv /\ TurnInv /\ SpriteInv /\ EndInv
    BY DEF SceneInv
  <1>2. /\ redraws' = FALSE /\ sprite' = RenderBoard(board, sprite)
        /\ UNCHANGED <<attempt, hasScene, board, tray, score, phase, secondsLeft, shufflesLeft,
                       turn, result, history>>
    BY DEF Redraw
  <1>3. UNCHANGED <<locked, resolving, flying, clearing, finalized, reported, reloads, strays>>
    BY <1>2 DEF turn, result, history
  <1>4. /\ DOMAIN sprite' = DOMAIN board
        /\ \A t \in DOMAIN board :
             /\ sprite'[t] \in Sprite
             /\ sprite'[t].selectable = (t \in GetSelectableTileIds(board))
             /\ sprite'[t].listens = sprite'[t].selectable
                  \/ (t \in DOMAIN sprite /\ sprite'[t] = sprite[t])
    <2>1. \A t \in DOMAIN sprite : sprite[t] \in Sprite
      BY <1>1 DEF SceneTypeOK, Sprite
    <2>2. QED
      BY <1>2, <2>1, DrawingFits
  <1>5. SceneTypeOK'
    BY <1>1, <1>2, <1>3, <1>4 DEF SceneTypeOK, Sprite
  <1>6. Mine' = Mine
    BY <1>3 DEF Mine
  <1>7. TurnInv'
    BY <1>1, <1>2, <1>3, <1>6 DEF TurnInv
  <1>8. SpriteInv'
    <2>1. ASSUME NEW t \in DOMAIN board, sprite'[t].listens # sprite'[t].selectable
          PROVE  ~sprite'[t].listens /\ \E f \in flying : f.tile = t
      BY <1>1, <1>4, <2>1 DEF SpriteInv
    <2>2. QED
      BY <1>2, <1>3, <1>4, <2>1 DEF SpriteInv
  <1>9. RunsInv' /\ EndInv'
    BY <1>1, <1>2, <1>3 DEF RunsInv, EndInv
  <1>10. QED
    BY <1>5, <1>7, <1>8, <1>9 DEF SceneInv

LEMMA TickKeeps ==
  ASSUME SceneInv, TickTimer
  PROVE  SceneInv'
  <1>1. SceneTypeOK /\ RunsInv /\ TurnInv /\ SpriteInv /\ EndInv
    BY DEF SceneInv
  <1>2. /\ phase = "playing" /\ resolving = FALSE /\ locked = FALSE
        /\ \/ /\ phase' = "timeUp" /\ locked' = TRUE
              /\ RecordRunIfNeeded(score, "timeUp") /\ secondsLeft' = secondsLeft
           \/ /\ secondsLeft # 0 /\ secondsLeft' = secondsLeft - 1
              /\ UNCHANGED <<phase, locked, result>>
        /\ UNCHANGED <<attempt, hasScene, board, tray, score, shufflesLeft, resolving, sprite,
                       flying, clearing, redraws, history>>
    BY <1>1 DEF TickTimer, ClockRuns, Free, SceneTypeOK
  <1>3. reloads' = reloads /\ strays' = strays
    BY <1>2 DEF history
  <1>4. secondsLeft' \in 0 .. RoundTime /\ phase' \in Phases /\ locked' \in BOOLEAN
    <2>1. secondsLeft \in 0 .. RoundTime /\ RoundTime \in Nat /\ phase \in Phases
          /\ locked \in BOOLEAN /\ "timeUp" \in Phases
      BY <1>1, BoardConstants DEF SceneTypeOK, Phases
    <2>2. secondsLeft' \in 0 .. RoundTime
      BY <1>2, <2>1
    <2>3. QED
      BY <1>2, <2>1, <2>2
  <1>5. finalized' \in 0 .. MaxAttempts /\ reported' \in Seq(Result) /\ EndInv'
    <2>1. CASE phase' = "timeUp" /\ RecordRunIfNeeded(score, "timeUp")
      <3>1. "timeUp" \in Phases \ {"playing"} /\ score \in Nat
        BY <1>1 DEF SceneTypeOK, Phases
      <3>2. QED
        BY <1>1, <1>2, <1>3, <2>1, <3>1, ResultIsRecorded DEF EndInv
    <2>2. CASE UNCHANGED <<phase, locked, result>>
      BY <1>1, <1>2, <1>3, <2>2 DEF EndInv, SceneTypeOK, result
    <2>3. QED
      BY <1>2, <2>1, <2>2
  <1>6. SceneTypeOK'
    BY <1>1, <1>2, <1>3, <1>4, <1>5 DEF SceneTypeOK
  <1>7. Mine' = Mine
    BY <1>2, <1>3 DEF Mine
  <1>8. strays = 0 => Mine = {} /\ clearing = None
    BY <1>1, <1>2 DEF TurnInv
  <1>9. TurnInv'
    BY <1>1, <1>2, <1>3, <1>7, <1>8 DEF TurnInv
  <1>10. SpriteInv' /\ RunsInv'
    BY <1>1, <1>2, <1>3 DEF SpriteInv, RunsInv
  <1>11. QED
    BY <1>5, <1>6, <1>9, <1>10 DEF SceneInv

(* A tile that lands: its turn is over, or its match is cleared first.     *)
LEMMA LandKeeps ==
  ASSUME SceneInv, NEW f \in flying, Land(f)
  PROVE  SceneInv'
  <1>1. SceneTypeOK /\ RunsInv /\ TurnInv /\ SpriteInv /\ EndInv
    BY DEF SceneInv
  <1>2. PICK left : left = Without(board, f.tile)
    OBVIOUS
  <1>3. PICK drawn : drawn = [t \in DOMAIN sprite \ {f.tile} |-> sprite[t]]
    OBVIOUS
  <1>4. PICK m : m = Matches(f.with)
    OBVIOUS
  <1>5. /\ flying' = flying \ {f} /\ board' = left /\ sprite' = RenderBoard(left, drawn)
        /\ \/ /\ m > 0 /\ resolving' = TRUE /\ tray' = f.with /\ clearing' = f.turn
              /\ UNCHANGED <<score, phase, locked, result>>
           \/ /\ ~(m > 0) /\ CompleteTurn(f.turn, DOMAIN left = {})
              /\ UNCHANGED <<resolving, clearing>>
        /\ strays' = strays + (IF f.run = reloads THEN 0 ELSE 1)
        /\ UNCHANGED <<attempt, hasScene, secondsLeft, shufflesLeft, redraws, reloads>>
    BY <1>2, <1>3, <1>4 DEF Land
  <1>6. /\ f.tile \in Tiles /\ f.with \in Seq(TrayTile) /\ f.turn \in Turn
        /\ f.run \in Nat /\ f.run <= reloads /\ m \in Nat
        /\ f.turn.tray \in Seq(TrayTile) /\ f.turn.score \in Nat
    <2>1. f \in Flight
      BY <1>1 DEF SceneTypeOK
    <2>2. QED
      BY <1>1, <1>4, <2>1, TrayTyped, SceneConstants DEF Flight, Turn, RunsInv
  <1>7. /\ DOMAIN left = DOMAIN board \ {f.tile}
        /\ \A t \in DOMAIN left : left[t] \in Faces
    BY <1>1, <1>2 DEF Without, SceneTypeOK
  <1>8. /\ DOMAIN sprite' = DOMAIN left
        /\ \A t \in DOMAIN left :
             /\ sprite'[t] \in Sprite
             /\ sprite'[t].selectable = (t \in GetSelectableTileIds(left))
             /\ sprite'[t].listens = sprite'[t].selectable
                  \/ (t \in DOMAIN sprite /\ t # f.tile /\ sprite'[t] = sprite[t])
    <2>1. \A t \in DOMAIN drawn : drawn[t] \in Sprite
      BY <1>1, <1>3 DEF SceneTypeOK, Sprite
    <2>2. /\ DOMAIN RenderBoard(left, drawn) = DOMAIN left
          /\ \A t \in DOMAIN left :
               /\ RenderBoard(left, drawn)[t] \in Sprite
               /\ RenderBoard(left, drawn)[t].selectable = (t \in GetSelectableTileIds(left))
               /\ \/ RenderBoard(left, drawn)[t].listens = RenderBoard(left, drawn)[t].selectable
                  \/ t \in DOMAIN drawn /\ RenderBoard(left, drawn)[t] = drawn[t]
      BY <2>1, DrawingFits
    <2>3. sprite' = RenderBoard(left, drawn)
      BY <1>5
    <2>4. \A t \in DOMAIN drawn : t \in DOMAIN sprite /\ t # f.tile /\ drawn[t] = sprite[t]
      BY <1>3
    <2>5. QED
      BY <2>2, <2>3, <2>4
  <1>9. /\ score' \in Nat /\ tray' \in Seq(TrayTile) /\ phase' \in Phases
        /\ locked' \in BOOLEAN /\ resolving' \in BOOLEAN /\ clearing' \in Turn \cup {None}
        /\ finalized' \in 0 .. MaxAttempts /\ reported' \in Seq(Result)
        /\ m = 0 => score' = f.turn.score /\ tray' = f.turn.tray
        /\ (reloads = 0 /\ phase = "playing") =>
              IF phase' = "playing" \/ ~hasScene THEN finalized' = 0 /\ reported' = << >>
              ELSE /\ finalized' = attempt
                   /\ reported' = <<[attempt |-> attempt, matches |-> score', phase |-> phase']>>
    <2>1. CASE m > 0
      <3>1. /\ resolving' = TRUE /\ tray' = f.with /\ clearing' = f.turn
            /\ UNCHANGED <<score, phase, locked, finalized, reported>>
        BY <1>5, <2>1 DEF result
      <3>2. QED
        BY <1>1, <1>6, <2>1, <3>1 DEF SceneTypeOK, EndInv
    <2>2. CASE ~(m > 0)
      <3>1. CompleteTurn(f.turn, DOMAIN left = {}) /\ UNCHANGED <<resolving, clearing>>
        BY <1>5, <2>2
      <3>2. QED
        BY <1>1, <1>6, <3>1, TurnIsCompleted DEF SceneTypeOK
    <2>3. QED
      BY <2>1, <2>2
  <1>10. strays' \in Nat /\ (strays' = 0 => strays = 0 /\ f \in Mine)
    BY <1>1, <1>5 DEF SceneTypeOK, Mine
  <1>11. SceneTypeOK'
    BY <1>1, <1>5, <1>7, <1>8, <1>9, <1>10 DEF SceneTypeOK, Sprite
  <1>12. TurnInv'
    <2> SUFFICES ASSUME strays' = 0 PROVE TurnInv'
      BY DEF TurnInv
    <2>1. /\ phase = "playing" /\ clearing = None /\ f.tile \in DOMAIN board
          /\ Len(f.with) = Len(tray) + 1
          /\ Len(f.turn.tray) = Len(f.with) - 3 * m
          /\ f.turn.score = score + m
          /\ \A g \in Mine : f = g
          /\ Cardinality(DOMAIN board) + Len(tray) + 3 * score = Cardinality(Tiles)
      BY <1>1, <1>4, <1>10 DEF TurnInv
    <2>2. Mine' = {}
      BY <1>5, <2>1 DEF Mine
    <2>3. Cardinality(DOMAIN left) = Cardinality(DOMAIN board) - 1
          /\ Cardinality(DOMAIN board) \in Nat
      BY <1>1, <1>7, <2>1, BoardIsFinite, FS_RemoveElement
    <2>4. tray \in Seq(TrayTile) /\ Len(tray) \in Nat /\ score \in Nat
      BY <1>1, TrayTyped DEF SceneTypeOK
    <2>5. CASE m > 0
      <3>1. /\ resolving' = TRUE /\ tray' = f.with /\ clearing' = f.turn
            /\ UNCHANGED <<score, phase>>
        BY <1>5, <2>5
      <3>2. Cardinality(DOMAIN board') + Len(tray') + 3 * score' = Cardinality(Tiles)
        BY <1>5, <2>1, <2>3, <2>4, <3>1
      <3>3. Matches(tray') = m
        BY <1>4, <3>1
      <3>4. Len(clearing'.tray) = Len(tray') - 3 * Matches(tray')
            /\ clearing'.score = score' + Matches(tray')
        BY <2>1, <3>1, <3>3
      <3>5. QED
        BY <2>1, <2>2, <3>1, <3>2, <3>4 DEF TurnInv
    <2>6. CASE ~(m > 0)
      <3>1. m = 0 /\ clearing' = clearing
        BY <1>5, <1>6, <2>6
      <3>2. Cardinality(DOMAIN board') + Len(tray') + 3 * score' = Cardinality(Tiles)
        <4>1. score' = score /\ Len(tray') = Len(tray) + 1
          BY <1>6, <1>9, <2>1, <2>4, <3>1
        <4>2. QED
          BY <1>5, <2>1, <2>3, <2>4, <4>1
      <3>3. QED
        BY <2>1, <2>2, <3>1, <3>2 DEF TurnInv
    <2>7. QED
      BY <2>5, <2>6
  <1>13. SpriteInv'
    <2>1. ASSUME NEW t \in DOMAIN left, sprite'[t].listens # sprite'[t].selectable
          PROVE  ~sprite'[t].listens /\ \E g \in flying' : g.tile = t
      <3>1. t \in DOMAIN board /\ t # f.tile /\ sprite'[t] = sprite[t]
        BY <1>7, <1>8, <2>1
      <3>2. PICK g \in flying : ~sprite[t].listens /\ g.tile = t
        BY <1>1, <2>1, <3>1 DEF SpriteInv
      <3>3. g \in flying'
        BY <1>5, <3>1, <3>2
      <3>4. QED
        BY <3>1, <3>2, <3>3
    <2>2. QED
      BY <1>5, <1>8, <2>1 DEF SpriteInv
  <1>14. EndInv'
    <2> SUFFICES ASSUME reloads = 0 PROVE EndInv'
      BY <1>5 DEF EndInv
    <2>1. strays = 0 /\ f \in Mine
      BY <1>1, <1>6 DEF RunsInv, Mine
    <2>2. phase = "playing"
      BY <1>1, <2>1 DEF TurnInv
    <2>3. QED
      BY <1>5, <1>9, <2>2 DEF EndInv
  <1>15. RunsInv'
    BY <1>1, <1>5, <1>6 DEF RunsInv, SceneTypeOK
  <1>16. QED
    BY <1>11, <1>12, <1>13, <1>14, <1>15 DEF SceneInv

LEMMA MatchClearsKeeps ==
  ASSUME SceneInv, MatchClears
  PROVE  SceneInv'
  <1>1. SceneTypeOK /\ RunsInv /\ TurnInv /\ SpriteInv /\ EndInv
    BY DEF SceneInv
  <1>2. /\ clearing # None /\ clearing' = None /\ resolving' = FALSE
        /\ CompleteTurn(clearing, DOMAIN board = {})
        /\ UNCHANGED <<attempt, hasScene, board, secondsLeft, shufflesLeft, flying, sprite, redraws,
                       history>>
    BY DEF MatchClears
  <1>3. clearing \in Turn
    BY <1>1, <1>2 DEF SceneTypeOK
  <1>4. reloads' = reloads /\ strays' = strays
    BY <1>2 DEF history
  <1>5. /\ score' = clearing.score /\ tray' = clearing.tray
        /\ score' \in Nat /\ tray' \in Seq(TrayTile)
        /\ locked' \in BOOLEAN /\ phase' \in Phases
        /\ finalized' \in 0 .. MaxAttempts /\ reported' \in Seq(Result)
        /\ (reloads = 0 /\ phase = "playing") =>
              IF phase' = "playing" \/ ~hasScene THEN finalized' = 0 /\ reported' = << >>
              ELSE /\ finalized' = attempt
                   /\ reported' = <<[attempt |-> attempt, matches |-> score', phase |-> phase']>>
    BY <1>1, <1>2, <1>3, TurnIsCompleted
  <1>6. SceneTypeOK'
    BY <1>1, <1>2, <1>4, <1>5 DEF SceneTypeOK
  <1>7. TurnInv'
    <2> SUFFICES ASSUME strays = 0 PROVE TurnInv'
      BY <1>4 DEF TurnInv
    <2>1. /\ Mine = {} /\ Len(clearing.tray) = Len(tray) - 3 * Matches(tray)
          /\ clearing.score = score + Matches(tray)
          /\ Cardinality(DOMAIN board) + Len(tray) + 3 * score = Cardinality(Tiles)
      BY <1>1, <1>2 DEF TurnInv
    <2>2. Mine' = {}
      BY <1>2, <1>4, <2>1 DEF Mine
    <2>3. /\ Len(tray) \in Nat /\ Matches(tray) \in Nat /\ score \in Nat
          /\ Cardinality(DOMAIN board) \in Nat
      BY <1>1, BoardIsFinite, TrayTyped DEF SceneTypeOK
    <2>4. Cardinality(DOMAIN board') + Len(tray') + 3 * score' = Cardinality(Tiles)
      BY <1>2, <1>5, <2>1, <2>3
    <2>5. QED
      BY <1>2, <2>2, <2>4 DEF TurnInv
  <1>8. SpriteInv' /\ RunsInv'
    BY <1>1, <1>2, <1>4 DEF SpriteInv, RunsInv
  <1>9. EndInv'
    <2>1. reloads = 0 => phase = "playing"
      BY <1>1, <1>2 DEF RunsInv, TurnInv
    <2>2. QED
      BY <1>2, <1>4, <1>5, <2>1 DEF EndInv
  <1>10. QED
    BY <1>6, <1>7, <1>8, <1>9 DEF SceneInv

LEMMA SceneStutters ==
  ASSUME SceneInv, UNCHANGED sceneVars
  PROVE  SceneInv'
  <1>1. /\ UNCHANGED <<attempt, hasScene, board, tray, score, phase, secondsLeft, shufflesLeft>>
        /\ UNCHANGED <<locked, resolving, flying, clearing, sprite, redraws>>
        /\ UNCHANGED <<finalized, reported, reloads, strays>>
    BY DEF sceneVars, turn, result, history
  <1>2. Mine' = Mine
    BY <1>1 DEF Mine
  <1>3. SceneTypeOK' /\ RunsInv' /\ TurnInv' /\ SpriteInv' /\ EndInv'
    BY <1>1, <1>2 DEF SceneInv, SceneTypeOK, RunsInv, TurnInv, SpriteInv, EndInv
  <1>4. QED
    BY <1>3 DEF SceneInv

-----------------------------------------------------------------------------
(* The theorems.                                                           *)

LEMMA SceneInvInit == SceneInit => SceneInv
  <1> SUFFICES ASSUME SceneInit PROVE SceneInv
    OBVIOUS
  <1>1. /\ attempt \in Attempts /\ Deal[attempt] \in [Tiles -> Faces] /\ IsFiniteSet(Tiles)
        /\ hasScene \in BOOLEAN /\ RoundTime \in Nat /\ ShufflesPerRun \in Nat
        /\ 0 \in 0 .. MaxAttempts /\ 0 \in 0 .. MaxReloads
    BY BoardConstants, SceneConstants DEF SceneInit
  <1>2. /\ board = Deal[attempt] /\ tray = << >> /\ score = 0 /\ phase = "playing"
        /\ secondsLeft = RoundTime /\ shufflesLeft = ShufflesPerRun
        /\ locked = FALSE /\ resolving = FALSE /\ redraws = FALSE
        /\ flying = {} /\ clearing = None
        /\ finalized = 0 /\ reported = << >> /\ reloads = 0 /\ strays = 0
    BY DEF SceneInit
  <1>3. PICK none : none = << >> /\ DOMAIN none = {}
    OBVIOUS
  <1>4. /\ DOMAIN sprite = DOMAIN board
        /\ \A t \in DOMAIN board :
             /\ sprite[t] \in Sprite
             /\ sprite[t].selectable = (t \in GetSelectableTileIds(board))
             /\ sprite[t].listens = sprite[t].selectable
    <2>1. sprite = RenderBoard(board, none)
      BY <1>2, <1>3 DEF SceneInit
    <2>2. QED
      BY <1>3, <2>1, DrawingFits
  <1>5. DOMAIN board = Tiles /\ \A t \in DOMAIN board : board[t] \in Faces
    BY <1>1, <1>2
  <1>6. SceneTypeOK
    <2>1. tray \in Seq(TrayTile) /\ reported \in Seq(Result) /\ phase \in Phases
      BY <1>2 DEF Phases
    <2>2. secondsLeft \in 0 .. RoundTime /\ shufflesLeft \in 0 .. ShufflesPerRun
          /\ flying \subseteq Flight /\ finalized \in 0 .. MaxAttempts
          /\ reloads \in 0 .. MaxReloads
      BY <1>1, <1>2
    <2>3. QED
      BY <1>1, <1>2, <1>4, <1>5, <2>1, <2>2 DEF SceneTypeOK, Sprite
  <1>7. TurnInv
    <2>1. Mine = {} /\ Len(tray) = 0 /\ Cardinality(Tiles) \in Nat
      BY <1>1, <1>2, FS_CardinalityType DEF Mine
    <2>2. QED
      BY <1>2, <1>5, <2>1 DEF TurnInv
  <1>8. SpriteInv /\ RunsInv /\ EndInv
    BY <1>2, <1>4 DEF SpriteInv, RunsInv, EndInv
  <1>9. QED
    BY <1>6, <1>7, <1>8 DEF SceneInv

LEMMA SceneInvStep == SceneInv /\ [SceneNext]_sceneVars => SceneInv'
  BY CreateGameKeeps, ReloadSessionKeeps, TapKeeps, LandKeeps, MatchClearsKeeps, ShuffleKeeps,
     RedrawKeeps, TickKeeps, SceneStutters DEF SceneNext

LEMMA SceneInvariant == SceneSpec => []SceneInv
  BY SceneInvInit, SceneInvStep, PTL DEF SceneSpec

(* Whatever flies, is cleared, shuffled or drawn, one turn at a time is    *)
(* under way and every tile is on the board, in the tray or scored, in a   *)
(* game in which no tile landed in another run than its own.               *)
THEOREM SceneLosesNoTile == SceneSpec => []TilesAccounted
  <1>1. SceneInv => TilesAccounted
    <2> SUFFICES ASSUME SceneInv PROVE TilesAccounted
      OBVIOUS
    <2>1. SceneTypeOK /\ TurnInv
      BY DEF SceneInv
    <2>2. ASSUME strays = 0
          PROVE  Cardinality(Mine) + (IF clearing = None THEN 0 ELSE 1) <= 1
      <3>1. CASE Mine = {}
        BY <3>1, FS_EmptySet
      <3>2. CASE Mine # {}
        <4>1. PICK f : f \in Mine
          BY <3>2
        <4>2. Mine = {f} /\ clearing = None
          BY <2>1, <2>2, <4>1 DEF TurnInv
        <4>3. Cardinality(Mine) = 1
          BY <4>2, FS_Singleton
        <4>4. QED
          BY <4>2, <4>3
      <3>3. QED
        BY <3>1, <3>2
    <2>3. QED
      BY <2>1, <2>2 DEF TilesAccounted, TurnInv, Mine
  <1>2. QED
    BY <1>1, SceneInvariant, PTL

(* While nothing flies the tiles that listen are those that may be tapped, *)
(* though sprites are kept from one drawing to the next.                   *)
THEOREM SceneLeavesNoTileDead == SceneSpec => []TapTargets
  <1>1. SceneInv => TapTargets
    <2> SUFFICES ASSUME SceneInv, flying = {} PROVE TapTargets
      BY DEF TapTargets
    <2>1. \A t \in DOMAIN board : sprite[t].listens = (t \in GetSelectableTileIds(board))
      BY DEF SceneInv, SpriteInv
    <2>2. GetSelectableTileIds(board) \subseteq DOMAIN board
      BY DEF GetSelectableTileIds
    <2>3. QED
      BY <2>1, <2>2 DEF TapTargets
  <1>2. QED
    BY <1>1, SceneInvariant, PTL

(* A run that is over is reported once, with the score and the end it      *)
(* shows then and afterwards; or never, when the game's handle was given   *)
(* out before Phaser had its scene.                                        *)
THEOREM SceneReportsItsEnd == SceneSpec => []EndIsReported
  <1>1. SceneInv => EndIsReported
    BY DEF SceneInv, EndInv, EndIsReported
  <1>2. QED
    BY <1>1, SceneInvariant, PTL
=============================================================================
