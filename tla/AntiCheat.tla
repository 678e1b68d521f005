----------------------------- MODULE AntiCheat -----------------------------
(***************************************************************************)
(* validateScoreHeuristics (apps/backend/src/services/antiCheat.ts): the   *)
(* rules every submitted run is held against.  The quotients of the code   *)
(* are compared by cross-multiplication, in exact arithmetic: the code's   *)
(* floating point differs for four runs of exactly 45 matches a minute.    *)
(***************************************************************************)
EXTENDS Integers

MaxAttempts         == 3      \* MAX_ATTEMPTS_PER_TOURNAMENT
MaxMatches          == 500
MinMsPerMatch       == 400
MaxMatchesPerMinute == 45
MsPerMinute         == 60000
MinRateWindow       == 600    \* Math.max(minutes, 0.01), in ms

TooFast(matches, durationMs) == durationMs < MinMsPerMatch * matches

RateWindow(durationMs) == IF durationMs < MinRateWindow THEN MinRateWindow ELSE durationMs

RateTooHigh(matches, durationMs) ==
  MsPerMinute * matches > MaxMatchesPerMinute * RateWindow(durationMs)

(* The reason of a flag, "" for a run that is not flagged.                 *)
ValidateScoreHeuristics(matches, durationMs, attemptIndex) ==
  LET timed == durationMs > 0 /\ matches > 0
  IN  CASE attemptIndex \notin 1 .. MaxAttempts -> "Invalid attempt index"
        [] attemptIndex \in 1 .. MaxAttempts /\ matches > MaxMatches -> "Impossible match count"
        [] attemptIndex \in 1 .. MaxAttempts /\ matches <= MaxMatches /\ timed
             /\ TooFast(matches, durationMs) -> "Abnormal move speed"
        [] attemptIndex \in 1 .. MaxAttempts /\ matches <= MaxMatches /\ timed
             /\ ~TooFast(matches, durationMs) /\ RateTooHigh(matches, durationMs) ->
             "Match rate exceeds human threshold"
        [] OTHER -> ""

Flagged(matches, durationMs, attemptIndex) ==
  ValidateScoreHeuristics(matches, durationMs, attemptIndex) # ""
=============================================================================
