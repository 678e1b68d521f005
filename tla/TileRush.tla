------------------------------ MODULE TileRush ------------------------------
(***************************************************************************)
(* A run of Tile Rush in the browser (components/tile-rush/TileRushGame):  *)
(* taps, shuffles, the clock, the delayed clearing of a match and the      *)
(* report of the run's result, which is made once.                         *)
(*                                                                         *)
(* The handlers are closures over the state of the last render.  What a    *)
(* click sets is rendered before the next event; what a timer sets is      *)
(* rendered by a later task, and an effect runs after the render it        *)
(* belongs to.  A click that falls in between sees the state before.       *)
(***************************************************************************)
EXTENDS TileBoard

CONSTANTS
  None,          \* no timer, no update, no effect pending
  MaxHasty       \* bound: clicks of a run between a timer and its render

Phases == {"playing", "gameOver", "cleared", "timeUp"}
Payload == [attempt : Attempts, matches : Nat, phase : Phases \ {"playing"}]
Clearing == [tray : Seq(TrayTile), score : Nat, empty : BOOLEAN]
Update == [tray : Seq(TrayTile), stale : BOOLEAN, phase : Phases]

ASSUME RunConstants ==
  /\ MaxHasty \in Nat
  /\ None \notin Nat /\ None \notin Payload /\ None \notin Clearing /\ None \notin Update

VARIABLES
  attempt,       \* currentAttempt, 0 before the first run
  board,         \* boardTiles
  tray,          \* tray, as last rendered
  score,
  phase,         \* as last rendered
  secondsLeft,
  shufflesLeft,
  finalized,     \* finalizedAttemptRef.current, 0 for null
  clearing,      \* the match-clear timer with what its callback closes over
  queued,        \* what that callback has set and is not rendered
  expiry,        \* the score the effect on secondsLeft = 0 closes over
  reports,       \* history: calls of onRunComplete in this run
  reported,      \* history: the payload of the last one
  hasty,         \* history: this run's clicks that saw a state that was over
  again          \* history: the triples that were in the tray at a click, scored before

game == <<attempt, board, tray, score, phase, secondsLeft, shufflesLeft, finalized,
          clearing, queued, expiry, reports, reported, hasty, again>>

GameTypeOK ==
  /\ attempt \in 0 .. MaxAttempts
  /\ DOMAIN board \subseteq Tiles /\ \A t \in DOMAIN board : board[t] \in Faces
  /\ tray \in Seq(TrayTile)
  /\ score \in Nat
  /\ phase \in Phases
  /\ secondsLeft \in 0 .. RoundTime
  /\ shufflesLeft \in 0 .. ShufflesPerRun
  /\ finalized \in 0 .. MaxAttempts
  /\ clearing \in Clearing \cup {None}
  /\ queued \in Update \cup {None}
  /\ expiry \in Nat \cup {None}
  /\ reports \in Nat
  /\ reported \in Payload \cup {None}
  /\ hasty \in Nat /\ again \in Nat

GameInit ==
  /\ attempt = 0
  /\ board = << >>
  /\ tray = << >>
  /\ score = 0
  /\ phase = "playing"
  /\ secondsLeft = RoundTime
  /\ shufflesLeft = ShufflesPerRun
  /\ finalized = 0
  /\ clearing = None /\ queued = None /\ expiry = None
  /\ reports = 0 /\ reported = None
  /\ hasty = 0 /\ again = 0

(* The page mounts the game or raises its sessionKey, for some attempt.    *)
StartSession(a) ==
  /\ attempt' = a
  /\ board' = Deal[a]
  /\ tray' = << >>
  /\ score' = 0
  /\ phase' = "playing"
  /\ secondsLeft' = RoundTime
  /\ shufflesLeft' = ShufflesPerRun
  /\ finalized' = 0
  /\ clearing' = None /\ queued' = None /\ expiry' = None
  /\ reports' = 0 /\ reported' = None
  /\ hasty' = 0 /\ again' = 0

Running == attempt # 0

(* Mutation: the ref is not looked at.                                     *)
RecordRunAgain(matches, end) ==
  /\ finalized' = attempt
  /\ reports' = reports + 1
  /\ reported' = [attempt |-> attempt, matches |-> matches, phase |-> end]

RecordRunIfNeeded(matches, end) ==
  IF finalized = attempt
    THEN UNCHANGED <<finalized, reports, reported>>
    ELSE /\ finalized' = attempt
         /\ reports' = reports + 1
         /\ reported' = [attempt |-> attempt, matches |-> matches, phase |-> end]

(* finishTurn: what the run has come to after a turn.                      *)
Outcome(matches, left, empty) ==
  IF empty THEN "cleared"
  ELSE IF IsTrayStuck(left, GetTrayMax(matches)) THEN "gameOver"
  ELSE "playing"

FinishTurn(matches, left, empty) ==
  LET end == Outcome(matches, left, empty)
  IN  IF end = "playing"
        THEN UNCHANGED <<finalized, reports, reported>>
        ELSE RecordRunIfNeeded(matches, end)

After(matches, left, empty, before) ==
  LET end == Outcome(matches, left, empty) IN IF end = "playing" THEN before ELSE end

-----------------------------------------------------------------------------
(* onTileTap.  The check for a stuck tray at its head never applies: the   *)
(* turn that fills the tray ends the run.                                  *)

InGap == queued # None \/ expiry # None
NoteHaste ==
  /\ hasty' = hasty + (IF InGap THEN 1 ELSE 0)
  /\ again' = again + Matches(tray)

(* A click that falls before a render: what it sets comes after what the   *)
(* timer has set, so that is not seen any more.                            *)
KeepQueued(ended) ==
  queued' = IF queued = None THEN None
            ELSE [queued EXCEPT !.stale = TRUE, !.phase = IF ended THEN "playing" ELSE @]

(* Mutation: a tap while a match is being cleared is not refused.          *)
MayTapAlways(t) ==
  /\ Running /\ phase = "playing"
  /\ t \in GetSelectableTileIds(board)

MayTap(t) ==
  /\ Running /\ phase = "playing" /\ clearing = None
  /\ t \in GetSelectableTileIds(board)

TileTap(t) ==
  LET nextBoard == Without(board, t)
      with      == AddTileToTrayGrouped(tray, [id |-> t, face |-> board[t]])
      newScore  == score + Matches(with)
      empty     == DOMAIN nextBoard = {}
  IN  /\ MayTap(t)
      /\ InGap => hasty < MaxHasty
      /\ NoteHaste
      /\ board' = nextBoard
      /\ score' = newScore
      /\ tray' = with
      /\ IF Matches(with) > 0
           THEN /\ clearing' = [tray |-> Resolved(with), score |-> newScore, empty |-> empty]
                /\ KeepQueued(FALSE)
                /\ UNCHANGED <<phase, finalized, reports, reported>>
           ELSE /\ FinishTurn(newScore, with, empty)
                /\ phase' = After(newScore, with, empty, phase)
                /\ KeepQueued(Outcome(newScore, with, empty) # "playing")
                /\ UNCHANGED clearing
      /\ UNCHANGED <<attempt, secondsLeft, shufflesLeft, expiry>>

(* The callback of the match-clear timer.                                  *)
MatchClears ==
  /\ clearing # None
  /\ LET c == clearing
     IN  /\ FinishTurn(c.score, c.tray, c.empty)
         /\ queued' = [tray |-> c.tray, stale |-> FALSE,
                       phase |-> After(c.score, c.tray, c.empty,
                                       IF queued = None THEN "playing" ELSE queued.phase)]
  /\ clearing' = None
  /\ UNCHANGED <<attempt, board, tray, score, phase, secondsLeft, shufflesLeft,
                 expiry, hasty, again>>

(* The effects of the last render run before the next one.                 *)
Render ==
  /\ queued # None
  /\ expiry = None
  /\ tray' = IF queued.stale THEN tray ELSE queued.tray
  /\ phase' = IF queued.phase = "playing" THEN phase ELSE queued.phase
  /\ queued' = None
  /\ UNCHANGED <<attempt, board, score, secondsLeft, shufflesLeft, finalized, clearing,
                 expiry, reports, reported, hasty, again>>

Shuffle ==
  /\ Running /\ phase = "playing"
  /\ shufflesLeft > 0
  /\ board # << >>
  /\ board' \in ShuffleBoardTileTypes(board)
  /\ shufflesLeft' = shufflesLeft - 1
  /\ UNCHANGED <<attempt, tray, score, phase, secondsLeft, finalized, clearing, queued,
                 expiry, reports, reported, hasty, again>>

(* Mutation: the clock is out one second after zero.                       *)
ClockIsOutLate(left) == left < 0

ClockIsOut(left) == left = 0

(* The interval.  It renders together with what the timer has queued.      *)
Tick ==
  /\ Running /\ phase = "playing"
  /\ queued = None
  /\ secondsLeft > 0
  /\ secondsLeft' = secondsLeft - 1
  /\ expiry' = IF ClockIsOut(secondsLeft') THEN score ELSE expiry
  /\ UNCHANGED <<attempt, board, tray, score, phase, shufflesLeft, finalized, clearing,
                 queued, reports, reported, hasty, again>>

(* The effect that sees the clock at zero.                                 *)
TimeUp ==
  /\ expiry # None
  /\ RecordRunIfNeeded(expiry, "timeUp")
  /\ queued' = IF queued = None THEN [tray |-> tray, stale |-> TRUE, phase |-> "timeUp"]
               ELSE [queued EXCEPT !.phase = "timeUp"]
  /\ expiry' = None
  /\ UNCHANGED <<attempt, board, tray, score, phase, secondsLeft, shufflesLeft, clearing,
                 hasty, again>>

Play ==
  \/ \E t \in Tiles : TileTap(t)
  \/ MatchClears \/ Render \/ Shuffle \/ Tick \/ TimeUp

-----------------------------------------------------------------------------
(* Properties.                                                             *)

OnBoard == Cardinality(DOMAIN board)
InTray ==
  Len(IF clearing # None THEN clearing.tray
      ELSE IF queued # None /\ ~queued.stale THEN queued.tray ELSE tray)

(* Every tile is on the board, in the tray or scored: three tiles make one *)
(* point, whatever the order of taps, shuffles and clearings.  Only a      *)
(* click that falls between the clearing of a match and its render sees    *)
(* the three tiles in the tray still, and scores them again.               *)
PointsAreTriples ==
  /\ GameTypeOK
  /\ Running => OnBoard + InTray + 3 * (score - again) = Cardinality(Tiles)
  /\ hasty = 0 => again = 0

(* A run reports its result once, though the clock, the last match and the *)
(* tray may end it at the same time, and what it reports is the score its  *)
(* end shows and goes on to show.  Only a click between the end of the     *)
(* clock and its render is shown and not reported.                         *)
RunIsReported ==
  /\ reports <= 1
  /\ reported # None => \/ reported.matches = score
                        \/ reported.matches < score /\ hasty > 0
=============================================================================
