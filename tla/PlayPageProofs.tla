--------------------------- MODULE PlayPageProofs ---------------------------
(***************************************************************************)
(* Why a run reports what it shows and the server gets what was played,    *)
(* for any board, deal, tray, clock and number of attempts, and however    *)
(* clicks, timers, renders, submissions and reloads interleave.            *)
(***************************************************************************)
EXTENDS PlayPage, TileBoardProofs

(* What a timer is going to put into the tray is the tray without its      *)
(* triples; while none is pending the tray has none.                       *)
TrayInv ==
  /\ clearing # None =>
       /\ clearing.score = score
       /\ Len(clearing.tray) = Len(tray) - 3 * Matches(tray)
       /\ Matches(clearing.tray) = 0
       /\ queued # None => queued.stale
  /\ (queued # None /\ ~queued.stale) =>
       /\ Len(queued.tray) = Len(tray) - 3 * Matches(tray)
       /\ Matches(queued.tray) = 0
  /\ (clearing = None /\ (queued # None => queued.stale)) => Matches(tray) = 0

(* Before the first run nothing is under way.                              *)
IdleInv ==
  attempt = 0 => clearing = None /\ queued = None /\ expiry = None /\ reported = None

CountInv ==
  /\ Running => OnBoard + InTray + 3 * (score - again) = Cardinality(Tiles)
  /\ hasty = 0 => again = 0

(* The ref is of this run exactly when it has reported; then it is over or *)
(* what ends it waits to be rendered.                                      *)
ReportInv ==
  /\ reports = IF reported = None THEN 0 ELSE 1
  /\ reported = None => finalized = 0
  /\ reported # None =>
       /\ finalized = attempt /\ reported.attempt = attempt
       /\ reported.matches <= score
       /\ reported.matches < score => hasty > 0
       /\ phase # "playing" \/ (queued # None /\ queued.phase # "playing")
  /\ expiry # None => expiry <= score /\ (expiry < score => hasty > 0)

GameInv == GameTypeOK /\ TrayInv /\ IdleInv /\ CountInv /\ ReportInv

-----------------------------------------------------------------------------
(* The server has the attempts 1 .. Used, each with a score that was       *)
(* played, and no attempt on the page is ahead of that by more than one.   *)
ServerInv ==
  /\ \A a \in Attempts :
       IF a <= Used THEN <<a, saved[a]>> \in played ELSE saved[a] = None
  /\ attempt <= Used + 1
  /\ submission # None =>
       /\ submission.attempt = attempt
       /\ <<submission.attempt, submission.matches>> \in played
       /\ submission.stage = "saved" => saved[attempt] # None
  /\ afloat # None =>
       /\ afloat.attempt <= Used + 1
       /\ <<afloat.attempt, afloat.matches>> \in played

(* What the page knows is not ahead of the server, and a run that is not   *)
(* on the page any more has left it for good.                              *)
KnownInv ==
  /\ known # None => known.used <= Used /\ (known.completed => Used >= MaxAttempts)
  /\ mounted => attempt # 0 /\ known # None
  /\ (attempt # 0 /\ listed /\ ~mounted) => known # None /\ known.completed
  /\ attempt = 0 => submission = None /\ ~complete

CompleteInv ==
  complete => submission = None /\ saved[attempt] # None

PlayInv == PageTypeOK /\ GameInv /\ ServerInv /\ KnownInv /\ CompleteInv

-----------------------------------------------------------------------------
(* What the parts of a turn do.                                            *)

LEMMA TrayTyped ==
  ASSUME GameTypeOK
  PROVE  tray \in Seq(TrayTile) /\ Len(tray) \in Nat /\ Matches(tray) \in Nat
  <1>1. tray \in Seq(TrayTile)
    BY DEF GameTypeOK
  <1>2. QED
    BY <1>1, TrayIsFinite, TriplesAreWhole

LEMMA BoardIsFinite ==
  ASSUME GameTypeOK
  PROVE  IsFiniteSet(DOMAIN board) /\ OnBoard \in Nat
  <1>1. DOMAIN board \in SUBSET Tiles /\ IsFiniteSet(Tiles)
    BY BoardConstants DEF GameTypeOK
  <1>2. QED
    BY <1>1, FS_Subset, FS_CardinalityType DEF OnBoard

LEMMA OutcomeIsPhase ==
  ASSUME NEW matches, NEW left, NEW empty
  PROVE  Outcome(matches, left, empty) \in Phases
  BY DEF Outcome, Phases

(* The result is recorded once, as that of this run.                       *)
LEMMA RecordIsMade ==
  ASSUME GameTypeOK, ReportInv, Running, NEW matches \in Nat,
         NEW end \in Phases \ {"playing"}, RecordRunIfNeeded(matches, end)
  PROVE  /\ reports' = 1 /\ reported' \in Payload /\ reported' # None
         /\ finalized' = attempt /\ reported'.attempt = attempt
         /\ reported = None => reported'.matches = matches
         /\ reported # None => reported' = reported
  <1>1. attempt \in Attempts /\ attempt # 0
    BY DEF GameTypeOK, Running, Attempts
  <1>2. CASE reported = None
    <2>1. finalized # attempt /\ reports = 0
      BY <1>1, <1>2 DEF ReportInv
    <2>2. /\ finalized' = attempt /\ reports' = 1
          /\ reported' = [attempt |-> attempt, matches |-> matches, phase |-> end]
      BY <2>1 DEF RecordRunIfNeeded
    <2>3. reported' \in Payload
      BY <1>1, <2>2 DEF Payload
    <2>4. QED
      BY <1>2, <2>2, <2>3, RunConstants
  <1>3. CASE reported # None
    BY <1>3 DEF RecordRunIfNeeded, ReportInv, GameTypeOK
  <1>4. QED
    BY <1>2, <1>3

(* finishTurn goes on or records an end.                                   *)
LEMMA TurnIsFinished ==
  ASSUME GameTypeOK, ReportInv, Running, NEW matches \in Nat, NEW left, NEW empty,
         FinishTurn(matches, left, empty)
  PROVE  LET end == Outcome(matches, left, empty)
         IN  \/ end = "playing" /\ UNCHANGED <<finalized, reports, reported>>
             \/ /\ end # "playing"
                /\ reports' = 1 /\ reported' \in Payload /\ reported' # None
                /\ finalized' = attempt /\ reported'.attempt = attempt
                /\ reported = None => reported'.matches = matches
                /\ reported # None => reported' = reported
  <1> DEFINE end == Outcome(matches, left, empty)
  <1>1. end \in Phases
    BY OutcomeIsPhase
  <1>2. CASE end = "playing"
    BY <1>2 DEF FinishTurn
  <1>3. CASE end # "playing"
    <2>1. RecordRunIfNeeded(matches, end)
      BY <1>3 DEF FinishTurn
    <2> HIDE DEF end
    <2>2. QED
      BY <1>1, <1>3, <2>1, RecordIsMade DEF end
  <1>4. QED
    BY <1>2, <1>3

LEMMA QueuedIsKept ==
  ASSUME GameTypeOK, NEW ended \in BOOLEAN, KeepQueued(ended)
  PROVE  /\ queued' \in Update \cup {None}
         /\ queued = None <=> queued' = None
         /\ queued # None => /\ queued'.stale /\ queued'.tray = queued.tray
                             /\ queued'.phase = IF ended THEN "playing" ELSE queued.phase
  <1>1. CASE queued = None
    BY <1>1 DEF KeepQueued
  <1>2. CASE queued # None
    <2>1. queued \in Update
      BY <1>2 DEF GameTypeOK
    <2>2. queued' = [queued EXCEPT !.stale = TRUE,
                                   !.phase = IF ended THEN "playing" ELSE queued.phase]
      BY <1>2 DEF KeepQueued
    <2>3. /\ queued' \in Update /\ queued'.stale /\ queued'.tray = queued.tray
          /\ queued'.phase = IF ended THEN "playing" ELSE queued.phase
      BY <2>1, <2>2 DEF Update, Phases
    <2>4. QED
      BY <1>2, <2>3, RunConstants
  <1>3. QED
    BY <1>1, <1>2

(* What a tap puts into the tray and takes off the board.                  *)
LEMMA TapMoves ==
  ASSUME GameTypeOK, NEW t, t \in GetSelectableTileIds(board), NEW with,
         with = AddTileToTrayGrouped(tray, [id |-> t, face |-> board[t]])
  PROVE  /\ with \in Seq(TrayTile) /\ Len(with) = Len(tray) + 1
         /\ Matches(with) \in Nat
         /\ Resolved(with) \in Seq(TrayTile)
         /\ Len(Resolved(with)) = Len(with) - 3 * Matches(with)
         /\ Matches(Resolved(with)) = 0
         /\ DOMAIN Without(board, t) \subseteq Tiles
         /\ \A u \in DOMAIN Without(board, t) : Without(board, t)[u] \in Faces
         /\ Cardinality(DOMAIN Without(board, t)) = OnBoard - 1
  <1>1. t \in DOMAIN board /\ DOMAIN board \subseteq Tiles /\ \A u \in DOMAIN board : board[u] \in Faces
    BY DEF GetSelectableTileIds, GameTypeOK
  <1>2. [id |-> t, face |-> board[t]] \in TrayTile
    BY <1>1 DEF TrayTile
  <1>3. with \in Seq(TrayTile) /\ Len(with) = Len(tray) + 1
    BY <1>2, TrayTyped, OneMoreInTray
  <1>4. /\ Matches(with) \in Nat
        /\ Resolved(with) \in Seq(TrayTile)
        /\ Len(Resolved(with)) = Len(with) - 3 * Matches(with)
        /\ Matches(Resolved(with)) = 0
    BY <1>3, TriplesAreWhole, TheRestCloses, NoTripleStays
  <1>5. DOMAIN Without(board, t) = DOMAIN board \ {t}
    BY DEF Without
  <1>6. Cardinality(DOMAIN board \ {t}) = OnBoard - 1
    BY <1>1, BoardIsFinite, FS_RemoveElement DEF OnBoard
  <1>7. \A u \in DOMAIN Without(board, t) : Without(board, t)[u] \in Faces
    BY <1>1, <1>5 DEF Without
  <1>8. QED
    BY <1>1, <1>3, <1>4, <1>5, <1>6, <1>7

-----------------------------------------------------------------------------
(* The invariant of the game is kept, action by action.                    *)

LEMMA TapKeeps ==
  ASSUME GameInv, NEW t, TileTap(t)
  PROVE  GameInv'
  <1>1. PICK with : with = AddTileToTrayGrouped(tray, [id |-> t, face |-> board[t]])
    OBVIOUS
  <1>2. PICK left : left = Without(board, t)
    OBVIOUS
  <1>3. PICK m : m = Matches(with)
    OBVIOUS
  <1> DEFINE new == score + m
             empty == DOMAIN left = {}
             rest == Resolved(with)
             old == Matches(tray)
             end == Outcome(new, with, empty)
  <1>4. /\ Running /\ phase = "playing" /\ clearing = None
        /\ t \in GetSelectableTileIds(board)
        /\ board' = left /\ score' = new /\ tray' = with
        /\ UNCHANGED <<attempt, secondsLeft, shufflesLeft, expiry>>
        /\ hasty' = hasty + (IF InGap THEN 1 ELSE 0) /\ again' = again + old
    BY <1>1, <1>2, <1>3 DEF TileTap, MayTap, NoteHaste
  <1>5. \/ /\ m > 0
           /\ clearing' = [tray |-> rest, score |-> new, empty |-> empty]
           /\ KeepQueued(FALSE)
           /\ UNCHANGED <<phase, finalized, reports, reported>>
        \/ /\ ~(m > 0)
           /\ FinishTurn(new, with, empty)
           /\ phase' = After(new, with, empty, phase)
           /\ KeepQueued(end # "playing")
           /\ UNCHANGED clearing
    BY <1>1, <1>2, <1>3 DEF TileTap
  <1>6. GameTypeOK /\ TrayInv /\ IdleInv /\ CountInv /\ ReportInv
    BY DEF GameInv
  <1>7. /\ with \in Seq(TrayTile) /\ Len(with) = Len(tray) + 1 /\ m \in Nat
        /\ rest \in Seq(TrayTile) /\ Len(rest) = Len(with) - 3 * m /\ Matches(rest) = 0
        /\ DOMAIN left \subseteq Tiles /\ \A u \in DOMAIN left : left[u] \in Faces
        /\ Cardinality(DOMAIN left) = OnBoard - 1
    BY <1>1, <1>2, <1>3, <1>4, <1>6, TapMoves
  <1>8. /\ Len(tray) \in Nat /\ old \in Nat /\ OnBoard \in Nat
        /\ score \in Nat /\ hasty \in Nat /\ again \in Nat
        /\ attempt \in 0 .. MaxAttempts /\ attempt # 0
    BY <1>4, <1>6, TrayTyped, BoardIsFinite DEF GameTypeOK, Running
  <1>9. new \in Nat /\ hasty' \in Nat /\ again' \in Nat /\ (InGap => hasty' > 0)
    BY <1>4, <1>7, <1>8
  <1>10. Matches(with) = m
    BY <1>3
  <1>11. OnBoard' = OnBoard - 1
    BY <1>4, <1>7 DEF OnBoard
  <1>12. Running' /\ attempt' # 0
    BY <1>4 DEF Running
  <1>13. hasty' = 0 => again' = 0
    <2>1. hasty' = 0 => ~InGap /\ hasty = 0
      BY <1>4, <1>8
    <2>2. ~InGap => old = 0
      BY <1>4, <1>6 DEF TrayInv, InGap
    <2>3. QED
      BY <1>4, <1>6, <1>8, <2>1, <2>2 DEF CountInv
  <1>14. OnBoard + Len(tray) - 3 * old + 3 * (score - again) = Cardinality(Tiles)
    <2>1. OnBoard + InTray + 3 * (score - again) = Cardinality(Tiles)
      BY <1>4, <1>6 DEF CountInv
    <2>2. InTray = Len(tray) - 3 * old
      BY <1>4, <1>6, <1>8 DEF InTray, TrayInv
    <2>3. QED
      BY <1>8, <2>1, <2>2
  <1>15. expiry' # None => expiry' <= score' /\ (expiry' < score' => hasty' > 0)
    <2>1. CASE expiry = None
      BY <1>4, <2>1
    <2>2. CASE expiry # None
      <3>1. InGap /\ expiry \in Nat /\ expiry <= score
        BY <1>6, <2>2 DEF InGap, ReportInv, GameTypeOK
      <3> HIDE DEF end, old, rest, empty
      <3>2. QED
        BY <1>4, <1>7, <1>8, <1>9, <3>1
    <2>3. QED
      BY <2>1, <2>2
  <1>16. reported # None => InGap
    BY <1>4, <1>6 DEF ReportInv, InGap
  <1> HIDE DEF new, empty, rest, old, end
  <1>17. CASE m > 0
    <2>1. /\ clearing' = [tray |-> rest, score |-> new, empty |-> empty]
          /\ KeepQueued(FALSE)
          /\ UNCHANGED <<phase, finalized, reports, reported>>
      BY <1>5, <1>17
    <2>2. clearing' \in Clearing /\ clearing' # None
      <3>1. empty \in BOOLEAN
        BY DEF empty
      <3>2. clearing' \in Clearing
        BY <1>7, <1>9, <2>1, <3>1 DEF Clearing
      <3>3. QED
        BY <3>2, RunConstants
    <2>3. /\ queued' \in Update \cup {None}
          /\ queued = None <=> queued' = None
          /\ queued # None => queued'.stale /\ queued'.tray = queued.tray /\ queued'.phase = queued.phase
      BY <1>6, <2>1, QueuedIsKept
    <2>4. GameTypeOK'
      BY <1>4, <1>6, <1>7, <1>9, <2>1, <2>2, <2>3 DEF GameTypeOK
    <2>5. TrayInv'
      BY <1>4, <1>7, <1>10, <2>1, <2>2, <2>3 DEF TrayInv
    <2>6. InTray' = Len(with) - 3 * m
      BY <1>7, <2>1, <2>2 DEF InTray
    <2>7. CountInv'
      BY <1>4, <1>7, <1>8, <1>11, <1>13, <1>14, <2>6 DEF CountInv, new
    <2>8. ReportInv'
      <3>1. reported # None => reported.matches \in Nat
        BY <1>6 DEF GameTypeOK, Payload
      <3>2. reported' # None =>
               /\ reported'.matches <= score'
               /\ reported'.matches < score' => hasty' > 0
        BY <1>4, <1>6, <1>7, <1>8, <1>9, <1>16, <2>1, <3>1 DEF ReportInv, new
      <3>3. QED
        BY <1>4, <1>6, <1>15, <2>1, <2>3, <3>2 DEF ReportInv
    <2>9. QED
      BY <1>12, <2>4, <2>5, <2>7, <2>8 DEF GameInv, IdleInv
  <1>18. CASE ~(m > 0)
    <2>1. /\ FinishTurn(new, with, empty)
          /\ phase' = After(new, with, empty, phase)
          /\ KeepQueued(end # "playing")
          /\ clearing' = clearing
      BY <1>5, <1>18
    <2>2. m = 0
      BY <1>7, <1>18
    <2>3. /\ queued' \in Update \cup {None}
          /\ queued = None <=> queued' = None
          /\ queued # None => /\ queued'.stale /\ queued'.tray = queued.tray
                              /\ queued'.phase = IF end # "playing" THEN "playing" ELSE queued.phase
      BY <1>6, <2>1, QueuedIsKept
    <2>4. phase' = IF end = "playing" THEN phase ELSE end
      BY <2>1 DEF After, end
    <2>5. end \in Phases
      BY OutcomeIsPhase DEF end
    <2>6. \/ end = "playing" /\ UNCHANGED <<finalized, reports, reported>>
          \/ /\ end # "playing"
             /\ reports' = 1 /\ reported' \in Payload /\ reported' # None
             /\ finalized' = attempt /\ reported'.attempt = attempt
             /\ reported = None => reported'.matches = new
             /\ reported # None => reported' = reported
      BY <1>4, <1>6, <1>9, <2>1, TurnIsFinished DEF end
    <2>7. GameTypeOK'
      BY <1>4, <1>6, <1>7, <1>8, <1>9, <2>1, <2>3, <2>4, <2>5, <2>6 DEF GameTypeOK
    <2>8. TrayInv'
      BY <1>4, <1>10, <2>1, <2>2, <2>3 DEF TrayInv
    <2>9. InTray' = Len(with)
      BY <1>4, <2>1, <2>3 DEF InTray
    <2>10. CountInv'
      BY <1>4, <1>7, <1>8, <1>11, <1>13, <1>14, <2>2, <2>9 DEF CountInv, new
    <2>11. ReportInv'
      <3>1. reported # None => reported.matches \in Nat /\ reported.matches <= score
        BY <1>6 DEF GameTypeOK, Payload, ReportInv
      <3>2. reported # None =>
              /\ reported.matches <= score'
              /\ reported.matches < score' => hasty' > 0
        BY <1>4, <1>7, <1>8, <1>9, <1>16, <3>1 DEF new
      <3>3. CASE end = "playing"
        BY <1>4, <1>6, <1>15, <2>3, <2>4, <2>6, <3>2, <3>3 DEF ReportInv
      <3>4. CASE end # "playing"
        <4>1. reported = None => reported'.matches = score'
          BY <1>4, <2>6, <3>4
        <4>2. /\ reported'.matches <= score'
              /\ reported'.matches < score' => hasty' > 0
          BY <1>4, <1>9, <2>6, <3>2, <3>4, <4>1
        <4>3. QED
          BY <1>4, <1>15, <2>4, <2>6, <3>4, <4>2 DEF ReportInv
      <3>5. QED
        BY <3>3, <3>4
    <2>12. QED
      BY <1>12, <2>7, <2>8, <2>10, <2>11 DEF GameInv, IdleInv
  <1>19. QED
    BY <1>17, <1>18

LEMMA MatchClearsKeeps ==
  ASSUME GameInv, MatchClears
  PROVE  GameInv'
  <1>1. PICK c : c = clearing
    OBVIOUS
  <1> DEFINE end == Outcome(c.score, c.tray, c.empty)
  <1>2. GameTypeOK /\ TrayInv /\ IdleInv /\ CountInv /\ ReportInv
    BY DEF GameInv
  <1>3. /\ clearing # None /\ FinishTurn(c.score, c.tray, c.empty)
        /\ queued' = [tray |-> c.tray, stale |-> FALSE,
                      phase |-> After(c.score, c.tray, c.empty,
                                      IF queued = None THEN "playing" ELSE queued.phase)]
        /\ clearing' = None
        /\ UNCHANGED <<attempt, board, tray, score, phase, secondsLeft, shufflesLeft,
                       expiry, hasty, again>>
    BY <1>1 DEF MatchClears
  <1>4. c \in Clearing /\ c.tray \in Seq(TrayTile) /\ c.score \in Nat /\ c.score = score
        /\ Len(c.tray) = Len(tray) - 3 * Matches(tray) /\ Matches(c.tray) = 0
    BY <1>1, <1>2, <1>3 DEF TrayInv, GameTypeOK, Clearing
  <1>5. Running
    BY <1>2, <1>3 DEF IdleInv, Running
  <1>6. queued # None => queued.phase \in Phases
    BY <1>2 DEF GameTypeOK, Update
  <1>7. end \in Phases /\ "playing" \in Phases
    BY OutcomeIsPhase DEF Phases
  <1>8. \/ end = "playing" /\ UNCHANGED <<finalized, reports, reported>>
        \/ /\ end # "playing"
           /\ reports' = 1 /\ reported' \in Payload /\ reported' # None
           /\ finalized' = attempt /\ reported'.attempt = attempt
           /\ reported = None => reported'.matches = c.score
           /\ reported # None => reported' = reported
    BY <1>2, <1>3, <1>4, <1>5, TurnIsFinished
  <1> DEFINE shows == IF end # "playing" THEN end
                      ELSE IF queued = None THEN "playing" ELSE queued.phase
  <1>9. queued' = [tray |-> c.tray, stale |-> FALSE, phase |-> shows]
    BY <1>3 DEF After
  <1> HIDE DEF end
  <1>10. shows \in Phases
    BY <1>6, <1>7
  <1> HIDE DEF shows
  <1>11. queued' \in Update /\ queued' # None /\ queued'.tray = c.tray /\ ~queued'.stale
         /\ queued'.phase = shows
    <2>1. queued' \in Update
      BY <1>4, <1>9, <1>10 DEF Update
    <2>2. queued'.tray = c.tray /\ ~queued'.stale /\ queued'.phase = shows
      BY <1>9
    <2>3. QED
      BY <2>1, <2>2, RunConstants
  <1>12. GameTypeOK'
    BY <1>2, <1>3, <1>5, <1>8, <1>11 DEF GameTypeOK, Running
  <1>13. TrayInv'
    BY <1>3, <1>4, <1>11 DEF TrayInv
  <1>14. CountInv'
    <2>1. InTray = Len(c.tray) /\ InTray' = Len(c.tray)
      BY <1>1, <1>3, <1>11 DEF InTray
    <2>2. OnBoard' = OnBoard /\ Running'
      BY <1>3, <1>5 DEF OnBoard, Running
    <2>3. QED
      BY <1>2, <1>3, <1>5, <2>1, <2>2 DEF CountInv
  <1>15. ReportInv'
    <2>1. reported # None => phase # "playing" \/ shows # "playing"
      BY <1>2 DEF ReportInv, shows
    <2>2. end # "playing" => shows # "playing"
      BY DEF shows
    <2>3. CASE end = "playing"
      BY <1>2, <1>3, <1>8, <1>11, <2>1, <2>3 DEF ReportInv
    <2>4. CASE end # "playing"
      <3>1. /\ reported'.matches <= score
            /\ reported'.matches < score => hasty > 0
        BY <1>2, <1>4, <1>8, <2>4 DEF ReportInv
      <3>2. QED
        BY <1>2, <1>3, <1>8, <1>11, <2>2, <2>4, <3>1 DEF ReportInv
    <2>5. QED
      BY <2>3, <2>4
  <1>16. IdleInv'
    BY <1>3, <1>5 DEF IdleInv, Running
  <1>17. QED
    BY <1>12, <1>13, <1>14, <1>15, <1>16 DEF GameInv

LEMMA RenderKeeps ==
  ASSUME GameInv, Render
  PROVE  GameInv'
  <1>1. GameTypeOK /\ TrayInv /\ IdleInv /\ CountInv /\ ReportInv
    BY DEF GameInv
  <1>2. /\ queued # None /\ expiry = None
        /\ tray' = IF queued.stale THEN tray ELSE queued.tray
        /\ phase' = IF queued.phase = "playing" THEN phase ELSE queued.phase
        /\ queued' = None
        /\ UNCHANGED <<attempt, board, score, secondsLeft, shufflesLeft, finalized, clearing,
                       expiry, reports, reported, hasty, again>>
    BY DEF Render
  <1>3. queued \in Update /\ queued.tray \in Seq(TrayTile) /\ queued.phase \in Phases
    BY <1>1, <1>2 DEF GameTypeOK, Update
  <1>4. clearing # None => queued.stale
    BY <1>1, <1>2 DEF TrayInv
  <1>5. GameTypeOK'
    BY <1>1, <1>2, <1>3 DEF GameTypeOK
  <1>6. TrayInv'
    BY <1>1, <1>2, <1>4 DEF TrayInv
  <1>7. CountInv'
    <2>1. InTray' = InTray
      BY <1>2, <1>4 DEF InTray
    <2>2. QED
      BY <1>1, <1>2, <2>1 DEF CountInv, OnBoard, Running
  <1>8. ReportInv'
    BY <1>1, <1>2 DEF ReportInv
  <1>9. IdleInv'
    BY <1>1, <1>2 DEF IdleInv
  <1>10. QED
    BY <1>5, <1>6, <1>7, <1>8, <1>9 DEF GameInv

LEMMA ShuffleKeeps ==
  ASSUME GameInv, Shuffle
  PROVE  GameInv'
  <1>1. GameTypeOK /\ TrayInv /\ IdleInv /\ CountInv /\ ReportInv
    BY DEF GameInv
  <1>2. /\ shufflesLeft > 0 /\ shufflesLeft' = shufflesLeft - 1
        /\ board' \in ShuffleBoardTileTypes(board)
        /\ UNCHANGED <<attempt, tray, score, phase, secondsLeft, finalized, clearing, queued,
                       expiry, reports, reported, hasty, again>>
    BY DEF Shuffle
  <1>3. DOMAIN board' = DOMAIN board /\ \A t \in DOMAIN board' : board'[t] \in Faces
    BY <1>2 DEF ShuffleBoardTileTypes
  <1>4. ShufflesPerRun \in Nat
    BY BoardConstants
  <1>5. GameTypeOK'
    BY <1>1, <1>2, <1>3, <1>4 DEF GameTypeOK
  <1>6. CountInv'
    BY <1>1, <1>2, <1>3 DEF CountInv, OnBoard, Running, InTray
  <1>7. QED
    BY <1>1, <1>2, <1>5, <1>6 DEF GameInv, TrayInv, IdleInv, ReportInv

LEMMA TickKeeps ==
  ASSUME GameInv, Tick
  PROVE  GameInv'
  <1>1. GameTypeOK /\ TrayInv /\ IdleInv /\ CountInv /\ ReportInv
    BY DEF GameInv
  <1>2. /\ attempt # 0 /\ phase = "playing" /\ queued = None
        /\ secondsLeft > 0 /\ secondsLeft' = secondsLeft - 1
        /\ expiry' = score \/ expiry' = expiry
        /\ UNCHANGED <<attempt, board, tray, score, phase, shufflesLeft, finalized, clearing,
                       queued, reports, reported, hasty, again>>
    BY DEF Tick, Running
  <1>3. RoundTime \in Nat /\ score \in Nat
    BY <1>1, BoardConstants DEF GameTypeOK
  <1>4. GameTypeOK'
    BY <1>1, <1>2, <1>3 DEF GameTypeOK
  <1>5. ReportInv'
    BY <1>1, <1>2, <1>3 DEF ReportInv
  <1>6. CountInv'
    BY <1>1, <1>2 DEF CountInv, OnBoard, Running, InTray
  <1>7. QED
    BY <1>1, <1>2, <1>4, <1>5, <1>6 DEF GameInv, TrayInv, IdleInv

LEMMA TimeUpKeeps ==
  ASSUME GameInv, TimeUp
  PROVE  GameInv'
  <1>1. GameTypeOK /\ TrayInv /\ IdleInv /\ CountInv /\ ReportInv
    BY DEF GameInv
  <1>2. /\ expiry # None /\ RecordRunIfNeeded(expiry, "timeUp")
        /\ queued' = IF queued = None THEN [tray |-> tray, stale |-> TRUE, phase |-> "timeUp"]
                     ELSE [queued EXCEPT !.phase = "timeUp"]
        /\ expiry' = None
        /\ UNCHANGED <<attempt, board, tray, score, phase, secondsLeft, shufflesLeft, clearing,
                       hasty, again>>
    BY DEF TimeUp
  <1>3. Running /\ expiry \in Nat /\ expiry <= score /\ (expiry < score => hasty > 0)
    BY <1>1, <1>2 DEF IdleInv, ReportInv, GameTypeOK, Running
  <1>4. "timeUp" \in Phases \ {"playing"}
    BY DEF Phases
  <1>5. /\ reports' = 1 /\ reported' \in Payload /\ reported' # None
        /\ finalized' = attempt /\ reported'.attempt = attempt
        /\ reported = None => reported'.matches = expiry
        /\ reported # None => reported' = reported
    BY <1>1, <1>2, <1>3, <1>4, RecordIsMade
  <1>6. /\ queued' \in Update /\ queued' # None /\ queued'.phase = "timeUp"
        /\ queued = None => queued'.stale
        /\ queued # None => queued'.stale = queued.stale /\ queued'.tray = queued.tray
    <2>1. CASE queued = None
      <3>1. tray \in Seq(TrayTile)
        BY <1>1 DEF GameTypeOK
      <3>2. queued' \in Update /\ queued'.phase = "timeUp" /\ queued'.stale
        BY <1>2, <1>4, <2>1, <3>1 DEF Update
      <3>3. QED
        BY <2>1, <3>2, RunConstants
    <2>2. CASE queued # None
      <3>1. queued \in Update
        BY <1>1, <2>2 DEF GameTypeOK
      <3>2. queued' = [queued EXCEPT !.phase = "timeUp"]
        BY <1>2, <2>2
      <3>3. /\ queued' \in Update /\ queued'.phase = "timeUp"
            /\ queued'.stale = queued.stale /\ queued'.tray = queued.tray
        BY <1>4, <3>1, <3>2 DEF Update
      <3>4. QED
        BY <2>2, <3>3, RunConstants
    <2>3. QED
      BY <2>1, <2>2
  <1>7. GameTypeOK'
    BY <1>1, <1>2, <1>5, <1>6 DEF GameTypeOK
  <1>8. TrayInv'
    BY <1>1, <1>2, <1>6 DEF TrayInv
  <1>9. CountInv'
    <2>1. InTray' = InTray
      BY <1>2, <1>6 DEF InTray
    <2>2. QED
      BY <1>1, <1>2, <2>1 DEF CountInv, OnBoard, Running
  <1>10. ReportInv'
    <2>1. /\ reported'.matches <= score
          /\ reported'.matches < score => hasty > 0
      BY <1>1, <1>3, <1>5 DEF ReportInv
    <2>2. QED
      BY <1>2, <1>5, <1>6, <2>1 DEF ReportInv
  <1>11. IdleInv'
    BY <1>2, <1>3 DEF IdleInv, Running
  <1>12. QED
    BY <1>7, <1>8, <1>9, <1>10, <1>11 DEF GameInv

LEMMA StartKeeps ==
  ASSUME NEW a \in Attempts, StartSession(a)
  PROVE  GameInv'
  <1>1. a \in 0 .. MaxAttempts /\ a # 0 /\ RoundTime \in Nat /\ ShufflesPerRun \in Nat
    BY BoardConstants DEF Attempts
  <1>2. Deal[a] \in [Tiles -> Faces]
    BY BoardConstants
  <1>3. << >> \in Seq(TrayTile) /\ Len(<< >>) = 0
    OBVIOUS
  <1>4. Matches(<< >>) = 0 /\ Matches(<< >>) \in Nat
    <2>1. InTriple(<< >>) \in SUBSET DOMAIN << >>
      BY DEF InTriple
    <2>2. InTriple(<< >>) = {}
      BY <2>1
    <2>3. QED
      BY <2>2, FS_EmptySet DEF Matches
  <1>5. /\ attempt' = a /\ board' = Deal[a] /\ tray' = << >> /\ score' = 0 /\ phase' = "playing"
        /\ secondsLeft' = RoundTime /\ shufflesLeft' = ShufflesPerRun /\ finalized' = 0
        /\ clearing' = None /\ queued' = None /\ expiry' = None
        /\ reports' = 0 /\ reported' = None /\ hasty' = 0 /\ again' = 0
    BY DEF StartSession
  <1>6. GameTypeOK'
    BY <1>1, <1>2, <1>3, <1>5, BoardConstants DEF GameTypeOK, Phases
  <1>7. TrayInv' /\ IdleInv' /\ ReportInv'
    BY <1>1, <1>4, <1>5 DEF TrayInv, IdleInv, ReportInv
  <1>8. CountInv'
    <2>1. DOMAIN board' = Tiles /\ Cardinality(Tiles) \in Nat
      BY <1>2, <1>5, BoardConstants, FS_CardinalityType
    <2>2. OnBoard' = Cardinality(Tiles) /\ InTray' = 0
      BY <1>3, <1>5, <2>1 DEF OnBoard, InTray
    <2>3. QED
      BY <1>5, <2>1, <2>2 DEF CountInv
  <1>9. QED
    BY <1>6, <1>7, <1>8 DEF GameInv

(* A fresh page has no run.                                                *)
Fresh ==
  /\ attempt = 0 /\ board = << >> /\ tray = << >> /\ score = 0 /\ phase = "playing"
  /\ secondsLeft = RoundTime /\ shufflesLeft = ShufflesPerRun /\ finalized = 0
  /\ clearing = None /\ queued = None /\ expiry = None
  /\ reports = 0 /\ reported = None /\ hasty = 0 /\ again = 0

LEMMA FreshIsFine == Fresh => GameInv
  <1> SUFFICES ASSUME Fresh PROVE GameInv
    OBVIOUS
  <1>1. MaxAttempts \in Nat /\ RoundTime \in Nat /\ ShufflesPerRun \in Nat
    BY BoardConstants
  <1>2. << >> \in Seq(TrayTile) /\ Len(<< >>) = 0 /\ DOMAIN << >> = {}
    OBVIOUS
  <1>3. Matches(<< >>) = 0
    <2>1. InTriple(<< >>) \in SUBSET DOMAIN << >>
      BY DEF InTriple
    <2>2. InTriple(<< >>) = {}
      BY <1>2, <2>1
    <2>3. QED
      BY <2>2, FS_EmptySet DEF Matches
  <1>4. GameTypeOK
    BY <1>1, <1>2 DEF GameTypeOK, Fresh, Phases
  <1>5. QED
    BY <1>3, <1>4 DEF GameInv, Fresh, TrayInv, IdleInv, CountInv, ReportInv, Running

LEMMA GameStutters ==
  ASSUME GameInv, UNCHANGED game
  PROVE  GameInv'
  BY DEF GameInv, GameTypeOK, TrayInv, IdleInv, CountInv, ReportInv, game, Running, OnBoard, InTray

LEMMA PlayKeeps ==
  ASSUME GameInv, Play
  PROVE  GameInv'
  BY TapKeeps, MatchClearsKeeps, RenderKeeps, ShuffleKeeps, TickKeeps, TimeUpKeeps DEF Play

-----------------------------------------------------------------------------
(* The page.                                                               *)

LEMMA UsedIsCounted ==
  ASSUME saved \in [Attempts -> Nat \cup {None}]
  PROVE  Used \in 0 .. MaxAttempts
  <1> DEFINE S == {a \in Attempts : saved[a] # None}
  <1>1. MaxAttempts \in Nat
    BY BoardConstants
  <1>2. IsFiniteSet(Attempts) /\ Cardinality(Attempts) = MaxAttempts
    BY <1>1, FS_Interval DEF Attempts
  <1>3. IsFiniteSet(S) /\ Cardinality(S) <= MaxAttempts /\ Cardinality(S) \in Nat
    BY <1>2, FS_Subset, FS_CardinalityType
  <1>4. QED
    BY <1>1, <1>3 DEF Used

LEMMA UsedIsLast ==
  ASSUME NEW n \in 0 .. MaxAttempts, \A a \in Attempts : saved[a] # None <=> a <= n
  PROVE  Used = n
  <1>1. {a \in Attempts : saved[a] # None} = 1 .. n
    BY BoardConstants DEF Attempts
  <1>2. Cardinality(1 .. n) = n
    BY FS_Interval
  <1>3. QED
    BY <1>1, <1>2 DEF Used

LEMMA SavedIsKnown ==
  ASSUME PageTypeOK, ServerInv, NEW a \in Attempts
  PROVE  saved[a] # None <=> a <= Used
  <1>1. <<a, saved[a]>> \in played => saved[a] \in Nat
    BY DEF PageTypeOK
  <1>2. QED
    BY <1>1, RunConstants DEF ServerInv

(* A score that is saved is one more or replaces one.                      *)
LEMMA SaveCounts ==
  ASSUME PageTypeOK, ServerInv, NEW p, Save(p), p.attempt \in Attempts, p.matches \in Nat,
         p.attempt <= Used + 1, <<p.attempt, p.matches>> \in played, UNCHANGED played
  PROVE  /\ Used \in 0 .. MaxAttempts /\ Used' \in 0 .. MaxAttempts /\ Used <= Used'
         /\ saved' \in [Attempts -> Nat \cup {None}]
         /\ saved'[p.attempt] # None
         /\ \A a \in Attempts : saved[a] # None => saved'[a] # None
         /\ \A a \in Attempts :
              IF a <= Used' THEN <<a, saved'[a]>> \in played' ELSE saved'[a] = None
  <1>1. saved \in [Attempts -> Nat \cup {None}] /\ MaxAttempts \in Nat
    BY BoardConstants DEF PageTypeOK
  <1>2. Used \in 0 .. MaxAttempts
    BY <1>1, UsedIsCounted
  <1>3. saved' = [saved EXCEPT ![p.attempt] = p.matches]
    BY DEF Save
  <1>4. saved' \in [Attempts -> Nat \cup {None}] /\ saved'[p.attempt] = p.matches
        /\ \A a \in Attempts : a # p.attempt => saved'[a] = saved[a]
    BY <1>1, <1>3
  <1>5. p.matches # None
    BY RunConstants
  <1>6. PICK n : n = IF p.attempt <= Used THEN Used ELSE p.attempt
    OBVIOUS
  <1>7. n \in 0 .. MaxAttempts /\ Used <= n /\ p.attempt <= n
        /\ \A a \in Attempts : a # p.attempt => (a <= n <=> a <= Used)
    BY <1>1, <1>2, <1>6 DEF Attempts
  <1>8. \A a \in Attempts : saved[a] # None <=> a <= Used
    BY SavedIsKnown
  <1>9. \A a \in Attempts : saved'[a] # None <=> a <= n
    BY <1>4, <1>5, <1>7, <1>8
  <1>10. Used' = n
    <2>1. {a \in Attempts : saved'[a] # None} = 1 .. n
      BY <1>1, <1>7, <1>9 DEF Attempts
    <2>2. Cardinality(1 .. n) = n
      BY <1>7, FS_Interval
    <2>3. QED
      BY <2>1, <2>2 DEF Used
  <1>11. \A a \in Attempts : IF a <= n THEN <<a, saved'[a]>> \in played ELSE saved'[a] = None
    <2> TAKE a \in Attempts
    <2>1. CASE a = p.attempt
      BY <1>4, <1>7, <2>1
    <2>2. CASE a # p.attempt
      BY <1>4, <1>7, <2>2 DEF ServerInv
    <2>3. QED
      BY <2>1, <2>2
  <1>12. QED
    BY <1>2, <1>4, <1>5, <1>7, <1>8, <1>9, <1>10, <1>11

(* While nothing is saved the count stays, and what was played stays so.   *)
LEMMA ServerStutters ==
  ASSUME PageTypeOK, ServerInv, UNCHANGED saved, played \subseteq played'
  PROVE  /\ Used' = Used /\ Used \in 0 .. MaxAttempts
         /\ \A a \in Attempts :
              IF a <= Used' THEN <<a, saved'[a]>> \in played' ELSE saved'[a] = None
  <1>1. Used' = Used
    BY DEF Used
  <1>2. Used \in 0 .. MaxAttempts
    BY UsedIsCounted DEF PageTypeOK
  <1>3. QED
    BY <1>1, <1>2 DEF ServerInv

LEMMA StartRunKeeps ==
  ASSUME PlayInv, StartRun
  PROVE  PlayInv'
  <1>1. PageTypeOK /\ ServerInv /\ KnownInv /\ CompleteInv /\ MaxAttempts \in Nat \ {0}
    BY BoardConstants DEF PlayInv
  <1>2. /\ listed /\ known # None /\ ~known.completed /\ ~mounted
        /\ StartSession(NextAttempt) /\ mounted' = TRUE /\ complete' = FALSE
        /\ UNCHANGED <<saved, listed, known, submission, afloat, reloads, played>>
    BY DEF StartRun, StartOffered, CanPlay
  <1>3. known \in Status /\ known.used \in 0 .. MaxAttempts /\ known.used <= Used
    BY <1>1, <1>2 DEF PageTypeOK, KnownInv, Status
  <1>4. Used' = Used /\ Used \in 0 .. MaxAttempts
        /\ \A a \in Attempts : IF a <= Used' THEN <<a, saved'[a]>> \in played' ELSE saved'[a] = None
    BY <1>1, <1>2, ServerStutters
  <1>5. NextAttempt \in Attempts /\ NextAttempt <= Used + 1 /\ NextAttempt # 0
    BY <1>1, <1>3, <1>4 DEF NextAttempt, Attempts
  <1>6. attempt = 0 /\ submission = None
    BY <1>1, <1>2 DEF KnownInv
  <1>7. attempt' = NextAttempt
    BY <1>2 DEF StartSession
  <1> HIDE DEF NextAttempt
  <1>8. GameInv'
    BY <1>2, <1>5, StartKeeps
  <1>9. PageTypeOK'
    BY <1>1, <1>2, <1>8 DEF PageTypeOK, GameInv
  <1>10. ServerInv'
    BY <1>1, <1>2, <1>4, <1>5, <1>6, <1>7 DEF ServerInv
  <1>11. KnownInv' /\ CompleteInv'
    BY <1>1, <1>2, <1>4, <1>5, <1>6, <1>7 DEF KnownInv, CompleteInv
  <1>12. QED
    BY <1>8, <1>9, <1>10, <1>11 DEF PlayInv

LEMMA RetryKeeps ==
  ASSUME PlayInv, HandleRetryRequested
  PROVE  PlayInv'
  <1>1. PageTypeOK /\ ServerInv /\ KnownInv /\ CompleteInv /\ MaxAttempts \in Nat \ {0}
    BY BoardConstants DEF PlayInv
  <1>2. /\ listed /\ mounted /\ submission = None
        /\ StartSession(NextAttempt) /\ complete' = FALSE
        /\ UNCHANGED <<saved, listed, known, mounted, submission, afloat, reloads, played>>
    BY DEF HandleRetryRequested, RetryReady
  <1>3. known \in Status /\ known.used \in 0 .. MaxAttempts /\ known.used <= Used
    BY <1>1, <1>2 DEF PageTypeOK, KnownInv, Status
  <1>4. Used' = Used /\ Used \in 0 .. MaxAttempts
        /\ \A a \in Attempts : IF a <= Used' THEN <<a, saved'[a]>> \in played' ELSE saved'[a] = None
    BY <1>1, <1>2, ServerStutters
  <1>5. NextAttempt \in Attempts /\ NextAttempt <= Used + 1 /\ NextAttempt # 0
    BY <1>1, <1>3, <1>4 DEF NextAttempt, Attempts
  <1>6. attempt' = NextAttempt
    BY <1>2 DEF StartSession
  <1> HIDE DEF NextAttempt
  <1>7. GameInv'
    BY <1>2, <1>5, StartKeeps
  <1>8. PageTypeOK'
    BY <1>1, <1>2, <1>7 DEF PageTypeOK, GameInv
  <1>9. ServerInv'
    BY <1>1, <1>2, <1>4, <1>5, <1>6 DEF ServerInv
  <1>10. KnownInv' /\ CompleteInv'
    BY <1>1, <1>2, <1>4, <1>5, <1>6 DEF KnownInv, CompleteInv
  <1>11. QED
    BY <1>7, <1>8, <1>9, <1>10 DEF PlayInv

(* The game plays on, and the page hears of a report.                      *)
LEMMA GamePlaysKeeps ==
  ASSUME PlayInv, GamePlays
  PROVE  PlayInv'
  <1>1. PageTypeOK /\ GameInv /\ ServerInv /\ KnownInv /\ CompleteInv
    BY DEF PlayInv
  <1>2. Play /\ OnRunComplete /\ UNCHANGED <<saved, listed, known, mounted, afloat, reloads>>
    BY DEF GamePlays, InGame, Play
  <1>3. GameInv'
    BY <1>1, <1>2, PlayKeeps
  <1>4. attempt' = attempt
    BY <1>2 DEF Play, TileTap, MatchClears, Render, Shuffle, Tick, TimeUp
  <1>5. CASE ~(reports' > reports)
    <2>1. UNCHANGED <<submission, complete, played>>
      BY <1>2, <1>5 DEF OnRunComplete
    <2>2. Used' = Used
          /\ \A a \in Attempts : IF a <= Used' THEN <<a, saved'[a]>> \in played' ELSE saved'[a] = None
      BY <1>1, <1>2, <2>1, ServerStutters
    <2>3. PageTypeOK'
      BY <1>1, <1>2, <1>3, <2>1 DEF PageTypeOK, GameInv
    <2>4. ServerInv'
      BY <1>1, <1>2, <1>4, <2>1, <2>2 DEF ServerInv
    <2>5. KnownInv' /\ CompleteInv'
      BY <1>1, <1>2, <1>4, <2>1, <2>2 DEF KnownInv, CompleteInv
    <2>6. QED
      BY <1>3, <2>3, <2>4, <2>5 DEF PlayInv
  <1>6. CASE reports' > reports
    <2>1. /\ submission' = [stage |-> "nonce", attempt |-> reported'.attempt,
                            matches |-> reported'.matches]
          /\ complete' = FALSE
          /\ played' = played \cup {<<reported'.attempt, reported'.matches>>}
      BY <1>2, <1>6 DEF OnRunComplete
    <2>2. reported' # None
      <3>1. reports' \in Nat /\ reports \in Nat
        BY <1>1, <1>3 DEF GameInv, GameTypeOK
      <3>2. reports' = IF reported' = None THEN 0 ELSE 1
        BY <1>3 DEF GameInv, ReportInv
      <3>3. QED
        BY <1>6, <3>1, <3>2
    <2>3. reported' \in Payload
      BY <1>3, <2>2 DEF GameInv, GameTypeOK
    <2>4. reported'.attempt = attempt /\ attempt \in Attempts /\ reported'.matches \in Nat
      BY <1>3, <1>4, <2>2, <2>3 DEF GameInv, ReportInv, Payload
    <2>5. submission' \in Submission /\ submission'.attempt = attempt
          /\ submission'.matches = reported'.matches /\ submission'.stage = "nonce"
      BY <2>1, <2>4 DEF Submission
    <2>6. /\ Used' = Used /\ played \subseteq played'
          /\ \A a \in Attempts : IF a <= Used' THEN <<a, saved'[a]>> \in played' ELSE saved'[a] = None
      BY <1>1, <1>2, <2>1, ServerStutters
    <2>7. <<submission'.attempt, submission'.matches>> \in played'
      BY <2>1, <2>4, <2>5
    <2>8. PageTypeOK'
      <3>1. <<reported'.attempt, reported'.matches>> \in Attempts \X Nat
        BY <2>4
      <3>2. played' \subseteq Attempts \X Nat
        BY <1>1, <2>1, <3>1 DEF PageTypeOK
      <3>3. complete' \in BOOLEAN
        BY <2>1
      <3>4. QED
        BY <1>1, <1>2, <1>3, <2>5, <3>2, <3>3 DEF PageTypeOK, GameInv
    <2>9. ServerInv'
      BY <1>1, <1>2, <1>4, <2>5, <2>6, <2>7 DEF ServerInv
    <2>10. KnownInv' /\ CompleteInv'
      BY <1>1, <1>2, <1>4, <2>1, <2>4, <2>6, BoardConstants DEF KnownInv, CompleteInv, Attempts
    <2>11. QED
      BY <1>3, <2>8, <2>9, <2>10 DEF PlayInv
  <1>7. QED
    BY <1>5, <1>6

(* The calls of a submission that do not reach the score.                  *)
LEMMA SubmissionMovesKeeps ==
  ASSUME PlayInv, FetchNonce \/ SignMessage \/ SubmitFails
  PROVE  PlayInv'
  <1>1. PageTypeOK /\ GameInv /\ ServerInv /\ KnownInv /\ CompleteInv
    BY DEF PlayInv
  <1>2. /\ submission # None
        /\ UNCHANGED <<game, saved, listed, known, mounted, complete, afloat, reloads, played>>
    BY DEF FetchNonce, SignMessage, SubmitFails
  <1>3. submission \in Submission
    BY <1>1, <1>2 DEF PageTypeOK
  <1>4. \/ submission' = None
        \/ submission' = [submission EXCEPT !.stage = "sign"]
        \/ submission' = [submission EXCEPT !.stage = "post"]
    BY DEF FetchNonce, SignMessage, SubmitFails, SubmissionGoes
  <1>5. \/ submission' = None
        \/ /\ submission' \in Submission
           /\ submission'.attempt = submission.attempt /\ submission'.matches = submission.matches
           /\ submission'.stage # "saved"
    BY <1>3, <1>4 DEF Submission
  <1>6. attempt' = attempt
    BY <1>2 DEF game
  <1>7. GameInv'
    BY <1>1, <1>2, GameStutters
  <1>8. Used' = Used
        /\ \A a \in Attempts : IF a <= Used' THEN <<a, saved'[a]>> \in played' ELSE saved'[a] = None
    BY <1>1, <1>2, ServerStutters
  <1>9. PageTypeOK'
    BY <1>1, <1>2, <1>5, <1>7 DEF PageTypeOK, GameInv
  <1>10. ServerInv'
    BY <1>1, <1>2, <1>5, <1>6, <1>8 DEF ServerInv
  <1>11. KnownInv' /\ CompleteInv'
    BY <1>1, <1>2, <1>5, <1>6, <1>8 DEF KnownInv, CompleteInv
  <1>12. QED
    BY <1>7, <1>9, <1>10, <1>11 DEF PlayInv

LEMMA PostScoreKeeps ==
  ASSUME PlayInv, PostScore
  PROVE  PlayInv'
  <1>1. PageTypeOK /\ GameInv /\ ServerInv /\ KnownInv /\ CompleteInv
    BY DEF PlayInv
  <1>2. /\ submission # None /\ Save(submission)
        /\ submission' = [submission EXCEPT !.stage = "saved"] \/ submission' = None
        /\ UNCHANGED <<game, listed, known, mounted, complete, afloat, reloads, played>>
    BY DEF PostScore, SubmissionGoes
  <1>3. submission \in Submission /\ submission.attempt \in Attempts /\ submission.matches \in Nat
    BY <1>1, <1>2 DEF PageTypeOK, Submission
  <1>4. /\ submission.attempt = attempt /\ attempt <= Used + 1
        /\ <<submission.attempt, submission.matches>> \in played
    BY <1>1, <1>2 DEF ServerInv
  <1>5. /\ Used \in 0 .. MaxAttempts /\ Used' \in 0 .. MaxAttempts /\ Used <= Used'
        /\ saved' \in [Attempts -> Nat \cup {None}] /\ saved'[attempt] # None
        /\ \A a \in Attempts : saved[a] # None => saved'[a] # None
        /\ \A a \in Attempts : IF a <= Used' THEN <<a, saved'[a]>> \in played' ELSE saved'[a] = None
    BY <1>1, <1>2, <1>3, <1>4, SaveCounts
  <1>6. \/ submission' = None
        \/ /\ submission' \in Submission
           /\ submission'.attempt = submission.attempt /\ submission'.matches = submission.matches
    BY <1>2, <1>3 DEF Submission
  <1>7. attempt' = attempt /\ attempt \in Nat
    BY <1>1, <1>2 DEF game, PageTypeOK, GameTypeOK
  <1>8. GameInv'
    BY <1>1, <1>2, GameStutters
  <1>9. PageTypeOK'
    BY <1>1, <1>2, <1>5, <1>6, <1>8 DEF PageTypeOK, GameInv
  <1>10. ServerInv'
    <2>1. afloat # None => afloat.attempt \in Nat
      BY <1>1 DEF PageTypeOK, Attempts
    <2>2. afloat # None => afloat.attempt <= Used' + 1
      BY <1>1, <1>5, <2>1 DEF ServerInv
    <2>3. attempt <= Used' + 1
      <3>1. PICK u, v : u = Used /\ v = Used'
        OBVIOUS
      <3>2. u \in 0 .. MaxAttempts /\ v \in 0 .. MaxAttempts /\ u <= v /\ attempt <= u + 1
        BY <1>4, <1>5, <3>1
      <3>3. attempt <= v + 1
        BY <1>7, <3>2, BoardConstants
      <3>4. QED
        BY <3>1, <3>3
    <2>4. QED
      BY <1>1, <1>2, <1>4, <1>5, <1>6, <1>7, <2>2, <2>3 DEF ServerInv
  <1>11. KnownInv'
    <2>1. known # None => known.used \in Nat
      BY <1>1 DEF PageTypeOK, Status
    <2>2. known # None => known.used <= Used' /\ (known.completed => Used' >= MaxAttempts)
      BY <1>1, <1>5, <2>1, BoardConstants DEF KnownInv
    <2>3. QED
      BY <1>1, <1>2, <1>7, <2>2 DEF KnownInv
  <1>12. CompleteInv'
    BY <1>1, <1>2 DEF CompleteInv
  <1>13. QED
    BY <1>8, <1>9, <1>10, <1>11, <1>12 DEF PlayInv

LEMMA LandsLateKeeps ==
  ASSUME PlayInv, LandsLate
  PROVE  PlayInv'
  <1>1. PageTypeOK /\ GameInv /\ ServerInv /\ KnownInv /\ CompleteInv
    BY DEF PlayInv
  <1>2. /\ afloat # None /\ afloat' = None /\ Save(afloat)
        /\ UNCHANGED <<game, listed, known, mounted, submission, complete, reloads, played>>
    BY DEF LandsLate
  <1>3. afloat.attempt \in Attempts /\ afloat.matches \in Nat
    BY <1>1, <1>2 DEF PageTypeOK
  <1>4. /\ afloat.attempt <= Used + 1 /\ <<afloat.attempt, afloat.matches>> \in played
    BY <1>1, <1>2 DEF ServerInv
  <1>5. /\ Used \in 0 .. MaxAttempts /\ Used' \in 0 .. MaxAttempts /\ Used <= Used'
        /\ saved' \in [Attempts -> Nat \cup {None}]
        /\ \A a \in Attempts : saved[a] # None => saved'[a] # None
        /\ \A a \in Attempts : IF a <= Used' THEN <<a, saved'[a]>> \in played' ELSE saved'[a] = None
    BY <1>1, <1>2, <1>3, <1>4, SaveCounts
  <1>6. attempt' = attempt /\ attempt \in Nat /\ attempt \in 0 .. MaxAttempts
    BY <1>1, <1>2 DEF game, PageTypeOK, GameTypeOK
  <1>7. GameInv'
    BY <1>1, <1>2, GameStutters
  <1>8. PageTypeOK'
    BY <1>1, <1>2, <1>5, <1>7 DEF PageTypeOK, GameInv
  <1>9. attempt # 0 => attempt \in Attempts
    BY <1>6, BoardConstants DEF Attempts
  <1>10. submission # None \/ complete => attempt # 0
    BY <1>1 DEF KnownInv
  <1>11. ServerInv'
    <2>1. attempt <= Used' + 1
      BY <1>1, <1>5, <1>6 DEF ServerInv
    <2>2. QED
      BY <1>1, <1>2, <1>5, <1>6, <1>9, <1>10, <2>1 DEF ServerInv
  <1>12. KnownInv'
    <2>1. known # None => known.used \in Nat
      BY <1>1 DEF PageTypeOK, Status
    <2>2. known # None => known.used <= Used' /\ (known.completed => Used' >= MaxAttempts)
      BY <1>1, <1>5, <2>1, BoardConstants DEF KnownInv
    <2>3. QED
      BY <1>1, <1>2, <1>6, <2>2 DEF KnownInv
  <1>13. CompleteInv'
    BY <1>1, <1>2, <1>5, <1>6, <1>9, <1>10 DEF CompleteInv
  <1>14. QED
    BY <1>7, <1>8, <1>11, <1>12, <1>13 DEF PlayInv

(* The submission ends, or the status is loaded: the page knows what the   *)
(* server has.                                                             *)
LEMMA StatusArrivesKeeps ==
  ASSUME PlayInv, FinishSubmission \/ LoadStatus
  PROVE  PlayInv'
  <1>1. PageTypeOK /\ GameInv /\ ServerInv /\ KnownInv /\ CompleteInv
    BY DEF PlayInv
  <1>2. /\ UNCHANGED <<game, saved, listed, afloat, reloads, played>>
        /\ \/ known' = ServerStatus /\ mounted' = (mounted /\ ~known'.completed)
           \/ UNCHANGED <<known, mounted>>
        /\ \/ submission # None /\ submission.stage = "saved" /\ submission' = None /\ complete' = TRUE
           \/ UNCHANGED <<submission, complete>>
    BY DEF FinishSubmission, LoadStatus
  <1>3. Used' = Used /\ Used \in 0 .. MaxAttempts
        /\ \A a \in Attempts : IF a <= Used' THEN <<a, saved'[a]>> \in played' ELSE saved'[a] = None
    BY <1>1, <1>2, ServerStutters
  <1>4. attempt' = attempt
    BY <1>2 DEF game
  <1>5. GameInv'
    BY <1>1, <1>2, GameStutters
  <1>6. /\ ServerStatus \in Status /\ ServerStatus.used = Used
        /\ ServerStatus.completed <=> Used >= MaxAttempts
    <2>1. (Used >= MaxAttempts) \in BOOLEAN
      OBVIOUS
    <2>2. ServerStatus \in Status
      BY <1>3, <2>1 DEF ServerStatus, Status
    <2>3. ServerStatus.used = Used /\ ServerStatus.completed = (Used >= MaxAttempts)
      BY DEF ServerStatus
    <2>4. QED
      BY <2>2, <2>3
  <1> HIDE DEF ServerStatus
  <1>7. ServerStatus # None
    BY <1>6, PageConstants
  <1>8. known' \in Status \cup {None} /\ mounted' \in BOOLEAN
    BY <1>1, <1>2, <1>6 DEF PageTypeOK
  <1>9. PageTypeOK'
    BY <1>1, <1>2, <1>5, <1>8 DEF PageTypeOK, GameInv
  <1>10. ServerInv'
    BY <1>1, <1>2, <1>3, <1>4 DEF ServerInv
  <1>11. CompleteInv'
    BY <1>1, <1>2, <1>4 DEF CompleteInv, ServerInv
  <1>12. submission # None => attempt # 0
    BY <1>1 DEF KnownInv
  <1>13. KnownInv'
    <2>1. CASE UNCHANGED <<known, mounted>>
      BY <1>1, <1>2, <1>3, <1>4, <1>12, <2>1 DEF KnownInv
    <2>2. CASE known' = ServerStatus /\ mounted' = (mounted /\ ~known'.completed)
      <3>1. known' # None /\ known'.used <= Used /\ (known'.completed <=> Used >= MaxAttempts)
        BY <1>3, <1>6, <1>7, <2>2
      <3>2. (attempt # 0 /\ listed /\ ~mounted') => known'.completed
        BY <1>1, <2>2, <3>1 DEF KnownInv
      <3>3. mounted' => attempt # 0
        BY <1>1, <2>2 DEF KnownInv
      <3>4. QED
        BY <1>1, <1>2, <1>3, <1>4, <1>12, <3>1, <3>2, <3>3 DEF KnownInv
    <2>3. QED
      BY <1>2, <2>1, <2>2
  <1>14. QED
    BY <1>5, <1>9, <1>10, <1>11, <1>13 DEF PlayInv

LEMMA PoolLeavesKeeps ==
  ASSUME PlayInv, PoolLeavesList
  PROVE  PlayInv'
  <1>1. PageTypeOK /\ GameInv /\ ServerInv /\ KnownInv /\ CompleteInv
    BY DEF PlayInv
  <1>2. /\ listed' = FALSE /\ known' = None /\ mounted' = FALSE /\ complete' = FALSE
        /\ UNCHANGED <<game, saved, submission, afloat, reloads, played>>
    BY DEF PoolLeavesList
  <1>3. Used' = Used
        /\ \A a \in Attempts : IF a <= Used' THEN <<a, saved'[a]>> \in played' ELSE saved'[a] = None
    BY <1>1, <1>2, ServerStutters
  <1>4. attempt' = attempt
    BY <1>2 DEF game
  <1>5. GameInv'
    BY <1>1, <1>2, GameStutters
  <1>6. PageTypeOK'
    BY <1>1, <1>2, <1>5 DEF PageTypeOK, GameInv
  <1>7. ServerInv' /\ KnownInv' /\ CompleteInv'
    BY <1>1, <1>2, <1>3, <1>4 DEF ServerInv, KnownInv, CompleteInv
  <1>8. QED
    BY <1>5, <1>6, <1>7 DEF PlayInv

LEMMA ReloadKeeps ==
  ASSUME PlayInv, Reload
  PROVE  PlayInv'
  <1>1. PageTypeOK /\ GameInv /\ ServerInv /\ KnownInv /\ CompleteInv
    BY DEF PlayInv
  <1>2. /\ Fresh' /\ known' = None /\ mounted' = FALSE /\ submission' = None /\ complete' = FALSE
        /\ reloads < MaxReloads /\ reloads' = reloads + 1
        /\ \/ /\ submission # None
              /\ afloat' = [attempt |-> submission.attempt, matches |-> submission.matches]
           \/ afloat' = afloat
        /\ UNCHANGED <<saved, listed, played>>
    BY DEF Reload, Fresh
  <1>3. Used' = Used /\ Used \in 0 .. MaxAttempts
        /\ \A a \in Attempts : IF a <= Used' THEN <<a, saved'[a]>> \in played' ELSE saved'[a] = None
    BY <1>1, <1>2, ServerStutters
  <1>4. GameInv'
    <2>1. Fresh' => GameInv'
      BY FreshIsFine, PTL
    <2>2. QED
      BY <1>2, <2>1
  <1>5. \/ afloat' = afloat
        \/ /\ afloat' \in [attempt : Attempts, matches : Nat]
           /\ afloat'.attempt <= Used + 1 /\ <<afloat'.attempt, afloat'.matches>> \in played
    <2>1. submission # None => submission.attempt \in Attempts /\ submission.matches \in Nat
      BY <1>1 DEF PageTypeOK, Submission
    <2>2. QED
      BY <1>1, <1>2, <2>1 DEF ServerInv
  <1>6. attempt' = 0
    BY <1>2 DEF Fresh
  <1>7. PageTypeOK'
    <2>1. reloads' \in 0 .. MaxReloads
      BY <1>1, <1>2, PageConstants DEF PageTypeOK
    <2>2. afloat' \in [attempt : Attempts, matches : Nat] \cup {None}
      BY <1>1, <1>5 DEF PageTypeOK
    <2>3. GameTypeOK'
      BY <1>4 DEF GameInv
    <2>4. QED
      BY <1>1, <1>2, <2>1, <2>2, <2>3 DEF PageTypeOK
  <1>8. ServerInv'
    BY <1>1, <1>2, <1>3, <1>5, <1>6 DEF ServerInv
  <1>9. KnownInv' /\ CompleteInv'
    BY <1>1, <1>2, <1>3, <1>6 DEF KnownInv, CompleteInv
  <1>10. QED
    BY <1>4, <1>7, <1>8, <1>9 DEF PlayInv

-----------------------------------------------------------------------------
(* The theorems.                                                           *)

LEMMA PlayInvInit == PageInit => PlayInv
  <1> SUFFICES ASSUME PageInit PROVE PlayInv
    OBVIOUS
  <1>1. Fresh
    BY DEF PageInit, GameInit, Fresh
  <1>2. GameInv
    BY <1>1, FreshIsFine
  <1>3. MaxAttempts \in Nat /\ MaxReloads \in Nat
    BY BoardConstants, PageConstants
  <1>4. PageTypeOK
    <2>1. 0 \in 0 .. MaxReloads
      BY <1>3
    <2>2. GameTypeOK
      BY <1>2 DEF GameInv
    <2>3. QED
      BY <2>1, <2>2 DEF PageTypeOK, PageInit
  <1>5. Used = 0
    BY <1>3, UsedIsLast DEF PageInit, Attempts
  <1>6. ServerInv /\ KnownInv /\ CompleteInv
    BY <1>1, <1>5 DEF ServerInv, KnownInv, CompleteInv, PageInit, Fresh, Attempts
  <1>7. QED
    BY <1>2, <1>4, <1>6 DEF PlayInv

LEMMA PlayInvStep == PlayInv /\ [PlayNext]_playVars => PlayInv'
  <1> SUFFICES ASSUME PlayInv, [PlayNext]_playVars PROVE PlayInv'
    OBVIOUS
  <1>1. CASE PlayNext
    BY <1>1, StartRunKeeps, RetryKeeps, GamePlaysKeeps, SubmissionMovesKeeps, PostScoreKeeps,
       LandsLateKeeps, StatusArrivesKeeps, PoolLeavesKeeps, ReloadKeeps DEF PlayNext
  <1>2. CASE UNCHANGED playVars
    <2>1. UNCHANGED game /\ UNCHANGED page
      BY <1>2 DEF playVars
    <2>2. GameInv'
      BY <2>1, GameStutters DEF PlayInv
    <2>3. attempt' = attempt
      BY <2>1 DEF game
    <2>4. Used' = Used
      BY <2>1 DEF Used, page
    <2>5. PageTypeOK'
      BY <2>1, <2>2 DEF PlayInv, PageTypeOK, GameInv, page
    <2>6. ServerInv' /\ KnownInv' /\ CompleteInv'
      BY <2>1, <2>3, <2>4 DEF PlayInv, ServerInv, KnownInv, CompleteInv, page
    <2>7. QED
      BY <2>2, <2>5, <2>6 DEF PlayInv
  <1>3. QED
    BY <1>1, <1>2

LEMMA PlayInvariant == PlaySpec => []PlayInv
  BY PlayInvInit, PlayInvStep, PTL DEF PlaySpec

(* Whatever is tapped and shuffled and whenever the timers fire, every     *)
(* tile is on the board, in the tray or scored, three tiles to the point;  *)
(* a point too many comes only of a click between a timer and its render.  *)
THEOREM PointsAreOfTriples == PlaySpec => []PointsAreTriples
  <1>1. PlayInv => PointsAreTriples
    BY DEF PlayInv, GameInv, CountInv, PointsAreTriples
  <1>2. QED
    BY <1>1, PlayInvariant, PTL

(* A run is reported at most once, by the last turn, the clock or the      *)
(* clearing of a match, with the score it shows then and afterwards.       *)
THEOREM RunIsReportedOnce == PlaySpec => []RunIsReported
  <1>1. PlayInv => RunIsReported
    <2> SUFFICES ASSUME PlayInv PROVE RunIsReported
      OBVIOUS
    <2>1. ReportInv /\ GameTypeOK
      BY DEF PlayInv, GameInv
    <2>2. reported # None => reported.matches \in Nat /\ score \in Nat
      BY <2>1 DEF GameTypeOK, Payload
    <2>3. QED
      BY <2>1, <2>2 DEF ReportInv, RunIsReported
  <1>2. QED
    BY <1>1, PlayInvariant, PTL

(* The server has the first attempts without a gap, each with a score that *)
(* a run of that attempt reported, though replies are lost, submissions    *)
(* fail, pages are reloaded and requests of closed pages land late.        *)
THEOREM SavedIsWhatWasPlayed == PlaySpec => []SavedWasPlayed
  <1>1. PlayInv => SavedWasPlayed
    <2> SUFFICES ASSUME PlayInv PROVE SavedWasPlayed
      OBVIOUS
    <2>1. PageTypeOK /\ ServerInv
      BY DEF PlayInv
    <2>2. Used \in 0 .. MaxAttempts
      BY <2>1, UsedIsCounted DEF PageTypeOK
    <2>3. QED
      BY <2>1, <2>2 DEF ServerInv, SavedWasPlayed
  <1>2. QED
    BY <1>1, PlayInvariant, PTL

(* A retry starts a run only when the score of the last one is saved.      *)
THEOREM RetryComesAfterSave == PlaySpec => RetryAfterSave
  <1>1. PlayInv /\ [PlayNext]_playVars
          => [HandleRetryRequested => saved[attempt] # None]_playVars
    BY DEF PlayInv, CompleteInv, HandleRetryRequested, RetryReady
  <1>2. QED
    BY <1>1, PlayInvariant, PTL DEF PlaySpec, RetryAfterSave
=============================================================================
