------------------------------ MODULE PlayPage ------------------------------
(***************************************************************************)
(* The play page around the game (apps/web/app/play/page.tsx): it starts a *)
(* run, submits what the run reports, refetches how far the player is and  *)
(* lets the player retry.  A submission is a chain of awaited calls during *)
(* which the pool may be settled and leave the list, the status may be     *)
(* refetched and the page may be reloaded; a reply may be lost.            *)
(***************************************************************************)
EXTENDS TileRush

CONSTANTS MaxReloads      \* bound: how often the page is reloaded

Status == [used : 0 .. MaxAttempts, completed : BOOLEAN]
Submission == [stage : {"nonce", "sign", "post", "saved"}, attempt : Attempts, matches : Nat]

ASSUME PageConstants ==
  /\ MaxReloads \in Nat
  /\ None \notin Status /\ None \notin Submission
  /\ None \notin [attempt : Attempts, matches : Nat]

VARIABLES
  saved,       \* external: the attempts the server has, None where there is none
  listed,      \* external: the pool is in the list of tournaments
  known,       \* participantStatus: attemptsUsed and completed, None while loading
  mounted,     \* the game is on the page
  submission,  \* submitAttempt, where it stands; None when it does not run
  complete,    \* submitComplete
  afloat,      \* external: a request whose page is gone
  reloads,
  played       \* history: what the runs have reported

page == <<saved, listed, known, mounted, submission, complete, afloat, reloads, played>>
playVars == <<game, page>>

Used == Cardinality({a \in Attempts : saved[a] # None})
ServerStatus == [used |-> Used, completed |-> Used >= MaxAttempts]

PageTypeOK ==
  /\ GameTypeOK
  /\ saved \in [Attempts -> Nat \cup {None}]
  /\ listed \in BOOLEAN /\ mounted \in BOOLEAN /\ complete \in BOOLEAN
  /\ known \in Status \cup {None}
  /\ submission \in Submission \cup {None}
  /\ afloat \in [attempt : Attempts, matches : Nat] \cup {None}
  /\ reloads \in 0 .. MaxReloads
  /\ played \subseteq Attempts \X Nat

PageInit ==
  /\ GameInit
  /\ saved = [a \in Attempts |-> None]
  /\ listed = TRUE
  /\ known = None
  /\ mounted = FALSE
  /\ submission = None
  /\ complete = FALSE
  /\ afloat = None
  /\ reloads = 0
  /\ played = {}

-----------------------------------------------------------------------------
(* The runs.                                                               *)

NextAttempt == IF known.used < MaxAttempts THEN known.used + 1 ELSE MaxAttempts

CanPlay == listed /\ known # None /\ ~known.completed

(* The screen with the button, until a run is active.                      *)
StartOffered == CanPlay /\ ~mounted

StartRun ==
  /\ StartOffered
  /\ StartSession(NextAttempt)
  /\ mounted' = TRUE
  /\ complete' = FALSE
  /\ UNCHANGED <<saved, listed, known, submission, afloat, reloads, played>>

(* Mutation: the button waits for the end of the submission only.          *)
RetryReadyAfterFailure == submission = None

(* GameEndModal: disabled = submitting || !retryReady.                      *)
RetryReady == submission = None /\ complete

(* The modal is open, and onRetry goes on.                                 *)
RetryOffered == phase # "playing" /\ attempt < MaxAttempts

HandleRetryRequested ==
  /\ listed /\ mounted
  /\ RetryOffered /\ RetryReady
  /\ StartSession(NextAttempt)
  /\ complete' = FALSE
  /\ UNCHANGED <<saved, listed, known, mounted, submission, afloat, reloads, played>>

(* Mutation: the attempt is the next one by the status, not the payload's. *)
OnRunCompleteOfNext ==
  IF reports' > reports
    THEN /\ submission' = [stage |-> "nonce",
                           attempt |-> IF known = None THEN reported'.attempt ELSE NextAttempt,
                           matches |-> reported'.matches]
         /\ complete' = FALSE
         /\ played' = played \cup {<<reported'.attempt, reported'.matches>>}
    ELSE UNCHANGED <<submission, complete, played>>

(* onRunComplete starts submitAttempt, which closes over the payload.      *)
OnRunComplete ==
  IF reports' > reports
    THEN /\ submission' = [stage |-> "nonce", attempt |-> reported'.attempt,
                           matches |-> reported'.matches]
         /\ complete' = FALSE
         /\ played' = played \cup {<<reported'.attempt, reported'.matches>>}
    ELSE UNCHANGED <<submission, complete, played>>

(* What the game does, and the page with it.  A game that was taken off    *)
(* the page has no handlers and no interval, but its match-clear timer     *)
(* runs on.                                                                *)
InGame(step) ==
  /\ step
  /\ OnRunComplete
  /\ UNCHANGED <<saved, listed, known, mounted, afloat, reloads>>

GamePlays ==
  \/ mounted /\ InGame(Play)
  \/ ~mounted /\ InGame(MatchClears)

-----------------------------------------------------------------------------
(* submitAttempt.                                                          *)

SubmissionGoes(stage) == submission' = [submission EXCEPT !.stage = stage]

FetchNonce ==
  /\ submission # None /\ submission.stage = "nonce"
  /\ SubmissionGoes("sign")
  /\ UNCHANGED <<game, saved, listed, known, mounted, complete, afloat, reloads, played>>

SignMessage ==
  /\ submission # None /\ submission.stage = "sign"
  /\ SubmissionGoes("post")
  /\ UNCHANGED <<game, saved, listed, known, mounted, complete, afloat, reloads, played>>

(* A call fails, the player declines to sign, or the server refuses.       *)
SubmitFails ==
  /\ submission # None /\ submission.stage # "saved"
  /\ submission' = None
  /\ UNCHANGED <<game, saved, listed, known, mounted, complete, afloat, reloads, played>>

Save(p) ==
  /\ Used < MaxAttempts
  /\ saved' = [saved EXCEPT ![p.attempt] = p.matches]

(* The server has the score, and the reply comes back or is lost.          *)
PostScore ==
  /\ submission # None /\ submission.stage = "post"
  /\ Save(submission)
  /\ \/ SubmissionGoes("saved")
     \/ submission' = None
  /\ UNCHANGED <<game, listed, known, mounted, complete, afloat, reloads, played>>

(* invalidateQueries waits for the refetch, and goes on when that fails.   *)
FinishSubmission ==
  /\ submission # None /\ submission.stage = "saved"
  /\ submission' = None
  /\ complete' = TRUE
  /\ \/ /\ known' = ServerStatus
        /\ mounted' = (mounted /\ ~known'.completed)
     \/ UNCHANGED <<known, mounted>>
  /\ UNCHANGED <<game, saved, listed, afloat, reloads, played>>

-----------------------------------------------------------------------------
(* The status is loaded and, on focus, loaded again.  A completed player   *)
(* is sent to the dashboard.                                               *)
LoadStatus ==
  /\ listed
  /\ known # ServerStatus
  /\ known' = ServerStatus
  /\ mounted' = (mounted /\ ~known'.completed)
  /\ UNCHANGED <<game, saved, listed, submission, complete, afloat, reloads, played>>

(* The pool is settled: the list the page polls has it no more.            *)
PoolLeavesList ==
  /\ listed
  /\ listed' = FALSE
  /\ known' = None
  /\ mounted' = FALSE
  /\ complete' = FALSE
  /\ UNCHANGED <<game, saved, submission, afloat, reloads, played>>

(* The page is reloaded.  What it had sent may still reach the server.     *)
Reload ==
  /\ reloads < MaxReloads
  /\ reloads' = reloads + 1
  /\ attempt' = 0 /\ board' = << >> /\ tray' = << >> /\ score' = 0 /\ phase' = "playing"
  /\ secondsLeft' = RoundTime /\ shufflesLeft' = ShufflesPerRun /\ finalized' = 0
  /\ clearing' = None /\ queued' = None /\ expiry' = None
  /\ reports' = 0 /\ reported' = None
  /\ known' = None /\ mounted' = FALSE /\ submission' = None /\ complete' = FALSE
  /\ afloat' = IF submission # None /\ submission.stage = "post"
                 THEN [attempt |-> submission.attempt, matches |-> submission.matches]
                 ELSE afloat
  /\ hasty' = 0 /\ again' = 0
  /\ UNCHANGED <<saved, listed, played>>

LandsLate ==
  /\ afloat # None
  /\ afloat' = None
  /\ Save(afloat)
  /\ UNCHANGED <<game, listed, known, mounted, submission, complete, reloads, played>>

PlayNext ==
  \/ StartRun \/ HandleRetryRequested \/ GamePlays
  \/ FetchNonce \/ SignMessage \/ SubmitFails \/ PostScore \/ FinishSubmission
  \/ LoadStatus \/ PoolLeavesList \/ Reload \/ LandsLate

(* Timers fire and what they set is rendered.  Nobody has to tap, to sign  *)
(* or to retry, and no call has to succeed.                                *)
PlayFairness ==
  /\ WF_playVars(mounted /\ InGame(Tick))
  /\ WF_playVars(mounted /\ InGame(TimeUp))
  /\ WF_playVars(mounted /\ InGame(Render))
  /\ WF_playVars(InGame(MatchClears))

PlaySpec == PageInit /\ [][PlayNext]_playVars /\ PlayFairness

-----------------------------------------------------------------------------
(* Properties.                                                             *)

(* The server's attempts are the first ones, with no gap, each with a      *)
(* score that a run of that very attempt reported.                         *)
SavedWasPlayed ==
  /\ PageTypeOK
  /\ \E n \in 0 .. MaxAttempts : \A a \in Attempts :
       IF a <= n THEN <<a, saved[a]>> \in played ELSE saved[a] = None

(* Retry starts a run only when the server has the score of the last one.  *)
RetryAfterSave ==
  [][HandleRetryRequested => saved[attempt] # None]_playVars

(* A run that is being played comes to an end, if only by the clock.       *)
RunsEnd == (mounted /\ phase = "playing") ~> (phase # "playing" \/ ~mounted)
=============================================================================
