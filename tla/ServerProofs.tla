---------------------------- MODULE ServerProofs ----------------------------
(***************************************************************************)
(* Two parts of the server that share no state: the submissions of scores  *)
(* (ScoreSubmission), then the weekly jackpot (WeeklyJackpot).             *)
(***************************************************************************)
EXTENDS ScoreSubmission, WeeklyJackpot, EconomyProofs, FiniteSetTheorems

-----------------------------------------------------------------------------
(***************************************************************************)
(* ScoreSubmission: its invariants, for any number of seats, nonces and    *)
(* concurrent submissions and for any runs; and a fact about the rules of  *)
(* AntiCheat.                                                              *)
(***************************************************************************)

(* What only a commit writes.                                              *)
stored == <<attempts, submitted, participant, flags, accepted, overtaken>>

(* The submissions that passed the check of a nonce.                       *)
Admitted(n) == {s \in Slots : sub[s] # NoSub /\ sub[s].nonce = n}

(* The nonce's uses and the submissions that may still use it.             *)
NonceIsShared ==
  \A n \in Nonces :
    /\ ~nonce[n].used => accepted[n] = 0
    /\ accepted[n] + Cardinality(Admitted(n)) <= Cardinality(Slots)

(* A transaction that was not overtaken has read what it will leave.       *)
ViewsAreCurrent ==
  \A s \in Slots : sub[s].stage = "read" /\ ~sub[s].overtaken => sub[s].view = View(s)

-----------------------------------------------------------------------------
(* The rules.                                                              *)

(* The rule on the time of a match rejects nothing the rule on the rate    *)
(* lets pass: 400 ms a match is 150 matches a minute, the limit is 45.     *)
(* (validateScoreHeuristics of antiCheat.ts: only the reason differs.)     *)
THEOREM MoveSpeedRuleIsRedundant ==
  ASSUME NEW matches \in Nat \ {0}, NEW durationMs \in Nat \ {0}, TooFast(matches, durationMs)
  PROVE  RateTooHigh(matches, durationMs)
  BY DEF TooFast, RateTooHigh, RateWindow, MinMsPerMatch, MaxMatchesPerMinute,
         MsPerMinute, MinRateWindow

-----------------------------------------------------------------------------
(* Rows and aggregates.                                                    *)

LEMMA RowFacts ==
  ASSUME NEW run \in Runs, NEW i \in Indexes
  PROVE  /\ Row(run, i) \in Rows
         /\ Row(run, i) # NoRun
         /\ (Row(run, i).status = "FLAGGED") <=> (StatusOf(run, i) = "FLAGGED")
  BY DEF Row, Rows, NoRun, StatusOf

LEMMA RowsAreRuns ==
  ASSUME NEW row \in Rows, row # NoRun
  PROVE  row.matches \in Nat
  BY RunsConstants DEF Rows, Row

LEMMA PresentIsCounted ==
  ASSUME NEW rows
  PROVE  /\ Cardinality(Present(rows)) \in 0 .. MaxAttempts
         /\ AllIn(rows) <=> Cardinality(Present(rows)) = MaxAttempts
  <1>1. IsFiniteSet(Indexes) /\ Cardinality(Indexes) = MaxAttempts
    <2>1. IsFiniteSet(1 .. 3) /\ Cardinality(1 .. 3) = IF 1 > 3 THEN 0 ELSE 3 - 1 + 1
      BY ONLY 1 \in Int, 3 \in Int, FS_Interval
    <2>2. QED
      BY <2>1 DEF Indexes, MaxAttempts
  <1>2. Present(rows) \in SUBSET Indexes
    BY DEF Present
  <1>3. IsFiniteSet(Present(rows)) /\ Cardinality(Present(rows)) <= MaxAttempts
    BY <1>1, <1>2, FS_Subset
  <1>4. Cardinality(Present(rows)) \in Nat
    BY <1>3, FS_CardinalityType
  <1>5. QED
    BY <1>3, <1>4 DEF AllIn, MaxAttempts

LEMMA AggregatesHaveTypes ==
  ASSUME NEW rows \in [Indexes -> Rows]
  PROVE  /\ Score(rows) \in Scores
         /\ Total(rows) \in Nat
         /\ SubmittedFrom(rows) \in [totalScore : Nat, attempt : Scores,
                                     status : {"FLAGGED", "VALIDATED", "PENDING"}]
         /\ ParticipantFrom(rows) \in [totalScore : Nat, attemptsUsed : 0 .. MaxAttempts,
                                       completed : BOOLEAN]
  <1>1. Score(rows) \in Scores
    BY RowsAreRuns DEF Score, Scores
  <1>2. Total(rows) \in Nat
    BY <1>1 DEF Total, Scores, Indexes, MaxAttempts
  <1>3. AggregateStatus(rows) \in {"FLAGGED", "VALIDATED", "PENDING"}
    BY DEF AggregateStatus
  <1>4. AllIn(rows) \in BOOLEAN
    BY DEF AllIn
  <1>5. QED
    BY <1>1, <1>2, <1>3, <1>4, PresentIsCounted DEF SubmittedFrom, ParticipantFrom

(* The aggregates of any rows agree with each other.                       *)
LEMMA AggregatesAgree ==
  ASSUME NEW rows
  PROVE  /\ SubmittedFrom(rows).totalScore = ParticipantFrom(rows).totalScore
         /\ SubmittedFrom(rows).totalScore = SubmittedFrom(rows).attempt[1]
              + SubmittedFrom(rows).attempt[2] + SubmittedFrom(rows).attempt[3]
         /\ ParticipantFrom(rows).completed <=> ParticipantFrom(rows).attemptsUsed = MaxAttempts
  BY PresentIsCounted DEF SubmittedFrom, ParticipantFrom, Total

-----------------------------------------------------------------------------
(* Steps.                                                                  *)

LEMMA Submissions ==
  ASSUME ScoreTypeOK, NEW s \in Slots
  PROVE  /\ sub[s] = NoSub \/ sub[s] \in Checking \/ sub[s] \in Reading
         /\ sub[s].stage \in {"participant", "begin", "written"} => sub[s] \in Checking
         /\ sub[s].stage = "read" => sub[s] \in Reading
         /\ sub[s].stage \in {"participant", "begin", "written", "read"} => sub[s] # NoSub
  BY DEF ScoreTypeOK, NoSub, Checking, Reading

LEMMA ViewHasType ==
  ASSUME ScoreTypeOK, NEW s \in Slots, sub[s].stage \in {"written", "read"}
  PROVE  View(s) \in [Indexes -> Rows]
  <1>1. sub[s].seat \in Seats /\ sub[s].index \in Indexes /\ sub[s].run \in Runs
    BY Submissions DEF Checking, Reading
  <1>2. QED
    BY <1>1, RowFacts DEF View, ScoreTypeOK

(* Every step but a commit leaves the tables as they are.                  *)
LEMMA OnlyCommitStores ==
  ASSUME [ScoreNext]_scoreVars, ~\E s \in Slots : CommitScore(s)
  PROVE  stored' = stored
  BY DEF ScoreNext, scoreVars, stored, tables, history, IssueNonce, NonceExpires,
         ReadNonce, ReadParticipant, WriteAttempt, ReadAttempts, Fail

LEMMA TypeStep ==
  ASSUME ScoreTypeOK, [ScoreNext]_scoreVars
  PROVE  ScoreTypeOK'
  <1>1. CASE UNCHANGED scoreVars
    BY <1>1 DEF ScoreTypeOK, scoreVars
  <1>2. ASSUME NEW n \in Nonces, IssueNonce(n) \/ NonceExpires(n)
        PROVE  ScoreTypeOK'
    <2>1. nonce' = [nonce EXCEPT ![n].issued = TRUE]
            \/ nonce' = [nonce EXCEPT ![n].expired = TRUE]
      BY <1>2 DEF IssueNonce, NonceExpires
    <2>2. /\ attempts' = attempts /\ submitted' = submitted /\ participant' = participant
          /\ flags' = flags /\ sub' = sub /\ accepted' = accepted /\ overtaken' = overtaken
      BY <1>2 DEF IssueNonce, NonceExpires, history
    <2>3. nonce' \in [Nonces -> [issued : BOOLEAN, used : BOOLEAN, expired : BOOLEAN]]
      <3>1. nonce \in [Nonces -> [issued : BOOLEAN, used : BOOLEAN, expired : BOOLEAN]]
        BY DEF ScoreTypeOK
      <3>2. CASE nonce' = [nonce EXCEPT ![n].issued = TRUE]
        BY <3>1, <3>2
      <3>3. CASE nonce' = [nonce EXCEPT ![n].expired = TRUE]
        BY <3>1, <3>3
      <3>4. QED
        BY <2>1, <3>2, <3>3
    <2>4. QED
      BY <2>2, <2>3, Zenon DEF ScoreTypeOK
  <1>3. ASSUME NEW s \in Slots, NEW n \in Nonces, NEW p \in Seats, NEW i \in Indexes,
               NEW run \in Runs, ReadNonce(s, n, p, i, run)
        PROVE  ScoreTypeOK'
    BY <1>3 DEF ReadNonce, tables, history, ScoreTypeOK, Checking
  <1>4. ASSUME NEW s \in Slots, ReadParticipant(s) \/ WriteAttempt(s)
        PROVE  ScoreTypeOK'
    <2>1. sub[s] \in Checking
      BY <1>4, Submissions DEF ReadParticipant, WriteAttempt
    <2>2. sub' \in [Slots -> {NoSub} \cup Checking \cup Reading]
      <3>1. /\ [sub[s] EXCEPT !.stage = "begin"] \in Checking
            /\ [sub[s] EXCEPT !.stage = "written"] \in Checking
        BY <2>1 DEF Checking
      <3>2. CASE ReadParticipant(s)
        BY <3>1, <3>2 DEF ReadParticipant, ScoreTypeOK
      <3>3. CASE WriteAttempt(s)
        BY <3>1, <3>3 DEF WriteAttempt, ScoreTypeOK
      <3>4. QED
        BY <1>4, <3>2, <3>3
    <2>3. QED
      BY <1>4, <2>2 DEF ReadParticipant, WriteAttempt, tables, history, ScoreTypeOK
  <1>5. ASSUME NEW s \in Slots, ReadAttempts(s)
        PROVE  ScoreTypeOK'
    <2>1. sub[s] \in Checking
      BY <1>5, Submissions DEF ReadAttempts
    <2>2. View(s) \in [Indexes -> Rows]
      BY <1>5, ViewHasType DEF ReadAttempts
    <2>3. sub' \in [Slots -> {NoSub} \cup Checking \cup Reading]
      BY <1>5, <2>1, <2>2 DEF ReadAttempts, ScoreTypeOK, Checking, Reading
    <2>4. QED
      BY <1>5, <2>3 DEF ReadAttempts, tables, history, ScoreTypeOK
  <1>6. ASSUME NEW s \in Slots, CommitScore(s)
        PROVE  ScoreTypeOK'
    <2>1. sub[s] \in Reading
      BY <1>6, Submissions DEF CommitScore
    <2>2. /\ SubmittedFrom(sub[s].view) \in [totalScore : Nat, attempt : Scores,
                                             status : {"FLAGGED", "VALIDATED", "PENDING"}]
          /\ ParticipantFrom(sub[s].view) \in [totalScore : Nat, attemptsUsed : 0 .. MaxAttempts,
                                               completed : BOOLEAN]
      BY <2>1, AggregatesHaveTypes DEF Reading
    <2>3. Row(sub[s].run, sub[s].index) \in Rows
      BY <2>1, RowFacts DEF Reading
    <2>4. NewFlags(s) \in Nat
      BY DEF NewFlags
    <2>5. sub' \in [Slots -> {NoSub} \cup Checking \cup Reading]
      <3>1. ASSUME NEW t \in Slots, sub[t].stage = "read"
            PROVE  [sub[t] EXCEPT !.overtaken = TRUE] \in Reading
        BY <3>1, Submissions DEF Reading
      <3>2. QED
        BY <1>6, <3>1 DEF CommitScore, ScoreTypeOK
    <2>6. /\ nonce' \in [Nonces -> [issued : BOOLEAN, used : BOOLEAN, expired : BOOLEAN]]
          /\ accepted' \in [Nonces -> Nat]
      <3>1. sub[s].nonce \in Nonces
        BY <2>1 DEF Reading
      <3>2. nonce' \in [Nonces -> [issued : BOOLEAN, used : BOOLEAN, expired : BOOLEAN]]
        BY <1>6, <3>1 DEF CommitScore, ScoreTypeOK
      <3>3. accepted' \in [Nonces -> Nat]
        BY <1>6, <3>1 DEF CommitScore, ScoreTypeOK
      <3>4. QED
        BY <3>2, <3>3
    <2>7. /\ flags' \in [Seats -> Nat]
          /\ overtaken' \in [Seats -> BOOLEAN]
      BY <1>6, <2>1, <2>4 DEF CommitScore, ScoreTypeOK, Reading
    <2>8. attempts' \in [Seats -> [Indexes -> Rows]]
      BY <1>6, <2>1, <2>3 DEF CommitScore, ScoreTypeOK, Reading
    <2>9. /\ submitted' \in [Seats -> {NoScore} \cup
                 [totalScore : Nat, attempt : Scores, status : {"FLAGGED", "VALIDATED", "PENDING"}]]
          /\ participant' \in [Seats ->
                 [totalScore : Nat, attemptsUsed : 0 .. MaxAttempts, completed : BOOLEAN]]
      BY <1>6, <2>1, <2>2 DEF CommitScore, ScoreTypeOK, Reading
    <2>10. QED
      BY <2>5, <2>6, <2>7, <2>8, <2>9 DEF ScoreTypeOK
  <1>7. ASSUME NEW s \in Slots, Fail(s)
        PROVE  ScoreTypeOK'
    BY <1>7 DEF Fail, tables, history, ScoreTypeOK
  <1>8. QED
    BY <1>1, <1>2, <1>3, <1>4, <1>5, <1>6, <1>7 DEF ScoreNext

(* What a commit writes, seat by seat.                                     *)
LEMMA CommitFacts ==
  ASSUME ScoreTypeOK, NEW s \in Slots, CommitScore(s), NEW p \in Seats
  PROVE  /\ sub[s] \in Reading
         /\ p = sub[s].seat =>
              /\ attempts'[p] = View(s)
              /\ submitted'[p] = SubmittedFrom(sub[s].view)
              /\ participant'[p] = ParticipantFrom(sub[s].view)
              /\ flags'[p] = flags[p] + NewFlags(s)
              /\ overtaken'[p] = sub[s].overtaken
         /\ p # sub[s].seat =>
              /\ attempts'[p] = attempts[p]
              /\ submitted'[p] = submitted[p]
              /\ participant'[p] = participant[p]
              /\ flags'[p] = flags[p]
              /\ overtaken'[p] = overtaken[p]
  <1>1. sub[s] \in Reading
    BY Submissions DEF CommitScore
  <1>2. sub[s].seat \in Seats /\ sub[s].index \in Indexes
    BY <1>1 DEF Reading
  <1>3. /\ p = sub[s].seat => attempts'[p] = View(s)
        /\ p # sub[s].seat => attempts'[p] = attempts[p]
    BY <1>2 DEF CommitScore, View, ScoreTypeOK
  <1>4. /\ p = sub[s].seat => submitted'[p] = SubmittedFrom(sub[s].view)
        /\ p # sub[s].seat => submitted'[p] = submitted[p]
    BY <1>2 DEF CommitScore, ScoreTypeOK
  <1>5. /\ p = sub[s].seat => participant'[p] = ParticipantFrom(sub[s].view)
        /\ p # sub[s].seat => participant'[p] = participant[p]
    BY <1>2 DEF CommitScore, ScoreTypeOK
  <1>6. /\ p = sub[s].seat => flags'[p] = flags[p] + NewFlags(s)
        /\ p # sub[s].seat => flags'[p] = flags[p]
    BY <1>2 DEF CommitScore, ScoreTypeOK
  <1>7. /\ p = sub[s].seat => overtaken'[p] = sub[s].overtaken
        /\ p # sub[s].seat => overtaken'[p] = overtaken[p]
    BY <1>2 DEF CommitScore, ScoreTypeOK
  <1>8. QED
    BY <1>1, <1>3, <1>4, <1>5, <1>6, <1>7

LEMMA AgreementStep ==
  ASSUME ScoreTypeOK, TablesAgree, [ScoreNext]_scoreVars
  PROVE  TablesAgree'
  <1>1. CASE ~\E s \in Slots : CommitScore(s)
    BY <1>1, OnlyCommitStores DEF stored, TablesAgree
  <1>2. ASSUME NEW s \in Slots, CommitScore(s), NEW p \in Seats, submitted'[p] # NoScore
        PROVE  /\ submitted'[p].totalScore = participant'[p].totalScore
               /\ submitted'[p].totalScore =
                    submitted'[p].attempt[1] + submitted'[p].attempt[2] + submitted'[p].attempt[3]
               /\ participant'[p].completed <=> participant'[p].attemptsUsed = MaxAttempts
    <2>1. CASE p = sub[s].seat
      BY <1>2, <2>1, CommitFacts, AggregatesAgree
    <2>2. CASE p # sub[s].seat
      BY <1>2, <2>2, CommitFacts DEF TablesAgree
    <2>3. QED
      BY <2>1, <2>2
  <1>3. QED
    BY <1>1, <1>2 DEF TablesAgree

LEMMA FaithStep ==
  ASSUME ScoreTypeOK, ViewsAreCurrent, FaithfulUnlessOvertaken, [ScoreNext]_scoreVars
  PROVE  FaithfulUnlessOvertaken'
  <1>1. CASE ~\E s \in Slots : CommitScore(s)
    BY <1>1, OnlyCommitStores DEF stored, FaithfulUnlessOvertaken, Faithful
  <1>2. ASSUME NEW s \in Slots, CommitScore(s), NEW p \in Seats, ~overtaken'[p]
        PROVE  Faithful(p)'
    <2>1. CASE p = sub[s].seat
      <3>1. attempts'[p] = View(s) /\ ~sub[s].overtaken
        BY <1>2, <2>1, CommitFacts
      <3>2. sub[s].view = View(s)
        BY <1>2, <3>1 DEF ViewsAreCurrent, CommitScore
      <3>3. sub[s].index \in Present(View(s))
        <4>1. /\ sub[s].index \in Indexes /\ sub[s].run \in Runs
              /\ attempts[sub[s].seat] \in [Indexes -> Rows]
          BY <1>2, CommitFacts DEF Reading, ScoreTypeOK
        <4>2. View(s)[sub[s].index] = Row(sub[s].run, sub[s].index)
          BY <4>1 DEF View
        <4>3. QED
          BY <4>1, <4>2, RowFacts DEF Present
      <3>4. QED
        BY <1>2, <2>1, <3>1, <3>2, <3>3, CommitFacts DEF Faithful
    <2>2. CASE p # sub[s].seat
      BY <1>2, <2>2, CommitFacts DEF FaithfulUnlessOvertaken, Faithful
    <2>3. QED
      BY <2>1, <2>2
  <1>3. QED
    BY <1>1, <1>2 DEF FaithfulUnlessOvertaken

LEMMA ViewStep ==
  ASSUME ScoreTypeOK, ViewsAreCurrent, [ScoreNext]_scoreVars
  PROVE  ViewsAreCurrent'
  <1> SUFFICES ASSUME NEW t \in Slots, sub'[t].stage = "read", ~sub'[t].overtaken
               PROVE  sub'[t].view = View(t)'
    BY DEF ViewsAreCurrent
  <1>1. ASSUME sub'[t] = sub[t], attempts'[sub[t].seat] = attempts[sub[t].seat]
        PROVE  sub'[t].view = View(t)'
    BY <1>1 DEF ViewsAreCurrent, View
  <1>2. ASSUME NEW s \in Slots, CommitScore(s)
        PROVE  sub'[t].view = View(t)'
    <2>1. t # s
      BY <1>2 DEF CommitScore, ScoreTypeOK, NoSub
    <2>2. CASE sub[t].stage = "read" /\ sub[t].seat = sub[s].seat
      <3>1. sub'[t] = [sub[t] EXCEPT !.overtaken = TRUE]
        BY <1>2, <2>1, <2>2 DEF CommitScore
      <3>2. QED
        BY <2>2, <3>1, Submissions DEF Reading
    <2>3. CASE ~(sub[t].stage = "read" /\ sub[t].seat = sub[s].seat)
      <3>1. sub'[t] = sub[t]
        BY <1>2, <2>1, <2>3 DEF CommitScore
      <3>2. sub[t].seat \in Seats /\ sub[t].seat # sub[s].seat
        BY <2>3, <3>1, Submissions DEF Reading
      <3>3. QED
        BY <1>1, <1>2, <3>1, <3>2, CommitFacts
    <2>4. QED
      BY <2>2, <2>3
  <1>3. CASE ~\E s \in Slots : CommitScore(s)
    <2>1. attempts' = attempts
      BY <1>3, OnlyCommitStores DEF stored
    <2>2. CASE ReadAttempts(t)
      <3>1. sub[t] \in Checking
        BY <2>2, Submissions DEF ReadAttempts
      <3>2. /\ sub'[t].view = View(t) /\ sub'[t].seat = sub[t].seat
            /\ sub'[t].index = sub[t].index /\ sub'[t].run = sub[t].run
        BY <2>2, <3>1 DEF ReadAttempts, ScoreTypeOK
      <3>3. QED
        BY <2>1, <3>2 DEF View
    <2>3. CASE ~ReadAttempts(t)
      <3>1. sub'[t] = sub[t]
        <4>1. CASE UNCHANGED scoreVars
          BY <4>1 DEF scoreVars
        <4>2. ASSUME NEW n \in Nonces, IssueNonce(n) \/ NonceExpires(n)
              PROVE  sub'[t] = sub[t]
          BY <4>2 DEF IssueNonce, NonceExpires
        <4>3. ASSUME NEW s \in Slots, NEW n \in Nonces, NEW p \in Seats, NEW i \in Indexes,
                     NEW run \in Runs, ReadNonce(s, n, p, i, run)
              PROVE  sub'[t] = sub[t]
          BY <4>3 DEF ReadNonce, ScoreTypeOK
        <4>4. ASSUME NEW s \in Slots, ReadParticipant(s)
              PROVE  sub'[t] = sub[t]
          <5>1. sub[s] \in Checking
            BY <4>4, Submissions DEF ReadParticipant
          <5>2. QED
            BY <4>4, <5>1 DEF ReadParticipant, ScoreTypeOK, Checking, NoSub
        <4>5. ASSUME NEW s \in Slots, WriteAttempt(s)
              PROVE  sub'[t] = sub[t]
          <5>1. sub[s] \in Checking
            BY <4>5, Submissions DEF WriteAttempt
          <5>2. QED
            BY <4>5, <5>1 DEF WriteAttempt, ScoreTypeOK, Checking
        <4>6. ASSUME NEW s \in Slots, ReadAttempts(s)
              PROVE  sub'[t] = sub[t]
          BY <4>6, <2>3 DEF ReadAttempts, ScoreTypeOK
        <4>7. ASSUME NEW s \in Slots, Fail(s)
              PROVE  sub'[t] = sub[t]
          BY <4>7 DEF Fail, ScoreTypeOK, NoSub
        <4>8. QED
          BY <1>3, <4>1, <4>2, <4>3, <4>4, <4>5, <4>6, <4>7 DEF ScoreNext
      <3>2. QED
        BY <1>1, <2>1, <3>1
    <2>4. QED
      BY <2>2, <2>3
  <1>4. QED
    BY <1>2, <1>3

LEMMA NonceStep ==
  ASSUME ScoreTypeOK, NonceIsShared, [ScoreNext]_scoreVars
  PROVE  NonceIsShared'
  <1> SUFFICES ASSUME NEW n \in Nonces
               PROVE  /\ ~nonce'[n].used => accepted'[n] = 0
                      /\ accepted'[n] + Cardinality(Admitted(n)') <= Cardinality(Slots)
    BY DEF NonceIsShared
  <1>1. /\ IsFiniteSet(Slots) /\ Cardinality(Slots) \in Nat
        /\ IsFiniteSet(Admitted(n)) /\ Cardinality(Admitted(n)) \in Nat
        /\ Cardinality(Admitted(n)') <= Cardinality(Slots) /\ Cardinality(Admitted(n)') \in Nat
        /\ accepted[n] \in Nat
    <2>1. Admitted(n) \in SUBSET Slots /\ Admitted(n)' \in SUBSET Slots
      BY DEF Admitted
    <2>2. QED
      BY <2>1, FiniteSlots, FS_Subset, FS_CardinalityType DEF ScoreTypeOK
  <1>2. ASSUME nonce'[n].used = nonce[n].used, accepted'[n] = accepted[n],
               Admitted(n)' \subseteq Admitted(n)
        PROVE  /\ ~nonce'[n].used => accepted'[n] = 0
               /\ accepted'[n] + Cardinality(Admitted(n)') <= Cardinality(Slots)
    <2>1. Cardinality(Admitted(n)') <= Cardinality(Admitted(n))
      BY <1>1, <1>2, FS_Subset
    <2>2. QED
      BY <1>1, <1>2, <2>1 DEF NonceIsShared
  <1>3. CASE UNCHANGED scoreVars
    BY <1>2, <1>3 DEF scoreVars, Admitted
  <1>4. ASSUME NEW m \in Nonces, IssueNonce(m) \/ NonceExpires(m)
        PROVE  /\ ~nonce'[n].used => accepted'[n] = 0
               /\ accepted'[n] + Cardinality(Admitted(n)') <= Cardinality(Slots)
    <2>1. nonce'[n].used = nonce[n].used
      <3>1. nonce[m] \in [issued : BOOLEAN, used : BOOLEAN, expired : BOOLEAN]
        BY DEF ScoreTypeOK
      <3>2. CASE IssueNonce(m)
        BY <3>1, <3>2 DEF IssueNonce, ScoreTypeOK
      <3>3. CASE NonceExpires(m)
        BY <3>1, <3>3 DEF NonceExpires, ScoreTypeOK
      <3>4. QED
        BY <1>4, <3>2, <3>3
    <2>2. QED
      BY <1>2, <1>4, <2>1 DEF IssueNonce, NonceExpires, history, Admitted
  <1>5. ASSUME NEW s \in Slots, NEW m \in Nonces, NEW p \in Seats, NEW i \in Indexes,
               NEW run \in Runs, ReadNonce(s, m, p, i, run)
        PROVE  /\ ~nonce'[n].used => accepted'[n] = 0
               /\ accepted'[n] + Cardinality(Admitted(n)') <= Cardinality(Slots)
    <2>1. nonce' = nonce /\ accepted' = accepted
      BY <1>5 DEF ReadNonce, tables, history
    <2>2. CASE m = n
      <3>1. accepted[n] = 0
        BY <1>5, <2>2 DEF ReadNonce, NonceValid, NonceIsShared
      <3>2. QED
        BY <1>1, <2>1, <3>1
    <2>3. CASE m # n
      <3>1. Admitted(n)' \subseteq Admitted(n)
        BY <1>5, <2>3 DEF ReadNonce, Admitted, ScoreTypeOK
      <3>2. QED
        BY <1>2, <2>1, <3>1
    <2>4. QED
      BY <2>2, <2>3
  <1>6. ASSUME NEW s \in Slots, ReadParticipant(s) \/ WriteAttempt(s) \/ ReadAttempts(s) \/ Fail(s)
        PROVE  /\ ~nonce'[n].used => accepted'[n] = 0
               /\ accepted'[n] + Cardinality(Admitted(n)') <= Cardinality(Slots)
    <2>1. nonce' = nonce /\ accepted' = accepted
      BY <1>6 DEF ReadParticipant, WriteAttempt, ReadAttempts, Fail, tables, history
    <2>2. ASSUME NEW t \in Slots, t # s
          PROVE  sub'[t] = sub[t]
      BY <1>6, <2>2 DEF ReadParticipant, WriteAttempt, ReadAttempts, Fail, ScoreTypeOK
    <2>3. sub[s] # NoSub
      BY <1>6, Submissions DEF ReadParticipant, WriteAttempt, ReadAttempts, Fail
    <2>4. sub'[s] = NoSub \/ sub'[s].nonce = sub[s].nonce
      <3>1. CASE ReadParticipant(s)
        BY <3>1, Submissions DEF ReadParticipant, ScoreTypeOK, Checking
      <3>2. CASE WriteAttempt(s)
        BY <3>2, Submissions DEF WriteAttempt, ScoreTypeOK, Checking
      <3>3. CASE ReadAttempts(s)
        BY <3>3 DEF ReadAttempts, ScoreTypeOK
      <3>4. CASE Fail(s)
        BY <3>4 DEF Fail, ScoreTypeOK
      <3>5. QED
        BY <1>6, <3>1, <3>2, <3>3, <3>4
    <2>5. Admitted(n)' \subseteq Admitted(n)
      BY <2>2, <2>3, <2>4 DEF Admitted
    <2>6. QED
      BY <1>2, <2>1, <2>5
  <1>7. ASSUME NEW s \in Slots, CommitScore(s)
        PROVE  /\ ~nonce'[n].used => accepted'[n] = 0
               /\ accepted'[n] + Cardinality(Admitted(n)') <= Cardinality(Slots)
    <2>1. sub[s] \in Reading /\ sub[s] # NoSub /\ sub[s].nonce \in Nonces
      BY <1>7, Submissions DEF CommitScore, Reading
    <2>2. sub'[s] = NoSub
      BY <1>7 DEF CommitScore
    <2>3. ASSUME NEW t \in Slots, t # s
          PROVE  (sub'[t] # NoSub => sub[t] # NoSub) /\ sub'[t].nonce = sub[t].nonce
      <3>1. sub'[t] = sub[t] \/ (sub[t].stage = "read" /\ sub'[t] = [sub[t] EXCEPT !.overtaken = TRUE])
        BY <1>7, <2>3 DEF CommitScore
      <3>2. QED
        BY <3>1, Submissions DEF Reading
    <2>4. Admitted(n)' \subseteq Admitted(n) \ {s}
      BY <2>2, <2>3 DEF Admitted
    <2>5. CASE n = sub[s].nonce
      <3>1. nonce'[n].used = TRUE /\ accepted'[n] = accepted[n] + 1
        BY <1>7, <2>1, <2>5 DEF CommitScore, ScoreTypeOK
      <3>2. s \in Admitted(n)
        BY <2>1, <2>5 DEF Admitted
      <3>3. Cardinality(Admitted(n) \ {s}) = Cardinality(Admitted(n)) - 1
            /\ IsFiniteSet(Admitted(n) \ {s})
        BY <1>1, <3>2, FS_RemoveElement
      <3>4. Cardinality(Admitted(n)') <= Cardinality(Admitted(n)) - 1
        BY <2>4, <3>3, FS_Subset
      <3>5. QED
        BY <1>1, <3>1, <3>4 DEF NonceIsShared
    <2>6. CASE n # sub[s].nonce
      <3>1. nonce'[n] = nonce[n] /\ accepted'[n] = accepted[n]
        BY <1>7, <2>1, <2>6 DEF CommitScore, ScoreTypeOK
      <3>2. QED
        BY <1>2, <2>4, <3>1
    <2>7. QED
      BY <2>5, <2>6
  <1>8. QED
    BY <1>3, <1>4, <1>5, <1>6, <1>7 DEF ScoreNext

(* The flagged attempts of a seat, as FlaggedRunsReported counts them.     *)
FlaggedIn(rows) == {i \in Indexes : rows[i].status = "FLAGGED"}

LEMMA ReportStep ==
  ASSUME ScoreTypeOK, FlaggedRunsReported, [ScoreNext]_scoreVars
  PROVE  FlaggedRunsReported'
  <1>1. CASE ~\E s \in Slots : CommitScore(s)
    BY <1>1, OnlyCommitStores DEF stored, FlaggedRunsReported
  <1>2. ASSUME NEW s \in Slots, CommitScore(s), NEW p \in Seats
        PROVE  Cardinality(FlaggedIn(attempts'[p])) <= flags'[p]
    <2>1. /\ FlaggedIn(attempts[p]) \in SUBSET Indexes
          /\ IsFiniteSet(FlaggedIn(attempts[p]))
          /\ Cardinality(FlaggedIn(attempts[p])) \in Nat
          /\ Cardinality(FlaggedIn(attempts[p])) <= flags[p]
          /\ flags[p] \in Nat
      <3>1. IsFiniteSet(1 .. 3)
        BY ONLY 1 \in Int, 3 \in Int, FS_Interval
      <3>2. FlaggedIn(attempts[p]) \in SUBSET (1 .. 3)
        BY DEF FlaggedIn, Indexes, MaxAttempts
      <3>3. IsFiniteSet(FlaggedIn(attempts[p])) /\ Cardinality(FlaggedIn(attempts[p])) \in Nat
        BY <3>1, <3>2, FS_Subset, FS_CardinalityType
      <3>4. QED
        BY <3>2, <3>3 DEF FlaggedIn, FlaggedRunsReported, ScoreTypeOK, Indexes, MaxAttempts
    <2>2. CASE p # sub[s].seat
      BY <1>2, <2>1, <2>2, CommitFacts
    <2>3. CASE p = sub[s].seat
      <3>1. /\ sub[s].index \in Indexes /\ sub[s].run \in Runs
            /\ attempts[p] \in [Indexes -> Rows]
            /\ attempts'[p] = View(s)
            /\ flags'[p] = flags[p] + NewFlags(s)
        BY <1>2, <2>3, CommitFacts DEF Reading, ScoreTypeOK
      <3>2. ASSUME NEW i \in Indexes
            PROVE  View(s)[i] = IF i = sub[s].index THEN Row(sub[s].run, sub[s].index)
                                                    ELSE attempts[p][i]
        BY <2>3, <3>1 DEF View
      <3>3. CASE StatusOf(sub[s].run, sub[s].index) = "FLAGGED"
        <4>1. FlaggedIn(View(s)) \subseteq FlaggedIn(attempts[p]) \cup {sub[s].index}
          BY <3>2 DEF FlaggedIn
        <4>2. /\ IsFiniteSet(FlaggedIn(attempts[p]) \cup {sub[s].index})
              /\ Cardinality(FlaggedIn(attempts[p]) \cup {sub[s].index})
                   <= Cardinality(FlaggedIn(attempts[p])) + 1
          BY <2>1, FS_AddElement
        <4>3. /\ Cardinality(FlaggedIn(View(s))) <= Cardinality(FlaggedIn(attempts[p])) + 1
              /\ Cardinality(FlaggedIn(View(s))) \in Nat
          <5>1. /\ IsFiniteSet(FlaggedIn(View(s)))
                /\ Cardinality(FlaggedIn(View(s)))
                     <= Cardinality(FlaggedIn(attempts[p]) \cup {sub[s].index})
            BY <4>1, <4>2, FS_Subset
          <5>2. QED
            BY <2>1, <4>2, <5>1, FS_CardinalityType
        <4>4. NewFlags(s) = 1
          BY <3>3 DEF NewFlags
        <4>5. QED
          BY <2>1, <3>1, <4>3, <4>4
      <3>4. CASE StatusOf(sub[s].run, sub[s].index) # "FLAGGED"
        <4>1. FlaggedIn(View(s)) \subseteq FlaggedIn(attempts[p])
          BY <3>1, <3>2, <3>4, RowFacts DEF FlaggedIn
        <4>2. /\ IsFiniteSet(FlaggedIn(View(s)))
              /\ Cardinality(FlaggedIn(View(s))) <= Cardinality(FlaggedIn(attempts[p]))
          BY <2>1, <4>1, FS_Subset
        <4>3. Cardinality(FlaggedIn(View(s))) \in Nat
          BY <4>2, FS_CardinalityType
        <4>4. NewFlags(s) = 0
          BY <3>4 DEF NewFlags
        <4>5. QED
          BY <2>1, <3>1, <4>2, <4>3, <4>4
      <3>5. QED
        BY <3>3, <3>4
    <2>4. QED
      BY <2>2, <2>3
  <1>3. QED
    BY <1>1, <1>2 DEF FlaggedRunsReported, FlaggedIn

-----------------------------------------------------------------------------
(* The invariant.                                                          *)

ScoreInv ==
  /\ ScoreTypeOK
  /\ TablesAgree
  /\ ViewsAreCurrent
  /\ FaithfulUnlessOvertaken
  /\ NonceIsShared
  /\ FlaggedRunsReported

LEMMA ScoreInitInv == ScoreInit => ScoreInv
  <1> SUFFICES ASSUME ScoreInit PROVE ScoreInv
    OBVIOUS
  <1>1. ScoreTypeOK
    BY DEF ScoreInit, ScoreTypeOK, NoPlay, Rows, MaxAttempts
  <1>2. TablesAgree /\ ViewsAreCurrent
    BY DEF ScoreInit, TablesAgree, ViewsAreCurrent, NoSub
  <1>3. FaithfulUnlessOvertaken
    BY DEF ScoreInit, FaithfulUnlessOvertaken, Faithful, Present
  <1>4. NonceIsShared
    <2>1. ASSUME NEW n \in Nonces
          PROVE  Admitted(n) = {} /\ accepted[n] = 0
      BY DEF ScoreInit, Admitted
    <2>2. Cardinality({}) = 0 /\ Cardinality(Slots) \in Nat
      BY FiniteSlots, FS_EmptySet, FS_CardinalityType
    <2>3. QED
      BY <2>1, <2>2 DEF NonceIsShared
  <1>5. FlaggedRunsReported
    <2>1. ASSUME NEW p \in Seats
          PROVE  Cardinality({i \in Indexes : attempts[p][i].status = "FLAGGED"}) <= flags[p]
      <3>1. {i \in Indexes : attempts[p][i].status = "FLAGGED"} = {} /\ flags[p] = 0
        BY DEF ScoreInit, NoRun
      <3>2. Cardinality({}) = 0
        BY FS_EmptySet
      <3>3. QED
        BY <3>1, <3>2
    <2>2. QED
      BY <2>1 DEF FlaggedRunsReported
  <1>6. QED
    BY <1>1, <1>2, <1>3, <1>4, <1>5 DEF ScoreInv

LEMMA ScoreInvStep == ScoreInv /\ [ScoreNext]_scoreVars => ScoreInv'
  BY TypeStep, AgreementStep, ViewStep, FaithStep, NonceStep, ReportStep DEF ScoreInv

LEMMA ScoreInvariant == ScoreSpec => []ScoreInv
  BY ScoreInitInv, ScoreInvStep, PTL DEF ScoreSpec

(* Every table of the submission keeps its type (schema.prisma).           *)
THEOREM ScoreTypeCorrect == ScoreSpec => []ScoreTypeOK
  BY ScoreInvariant, PTL DEF ScoreInv

(* The score a settlement ranks by (TournamentParticipant.totalScore) and  *)
(* the score the leaderboards show (SubmittedScore) never differ, for any  *)
(* number of racing submissions.                                           *)
THEOREM ScoresNeverDiverge == ScoreSpec => []TablesAgree
  BY ScoreInvariant, PTL DEF ScoreInv

(* The only way to wrong aggregates is a commit that was overtaken between *)
(* its read of the attempts and its end (the transaction of POST /submit). *)
THEOREM WrongOnlyIfOvertaken == ScoreSpec => []FaithfulUnlessOvertaken
  BY ScoreInvariant, PTL DEF ScoreInv

(* A nonce, whose check precedes the transaction, is used at most as often *)
(* as the server handles submissions at one time.                          *)
THEOREM NonceUsesAreBounded == ScoreSpec => []ReplaysBounded
  <1>1. ScoreInv => ReplaysBounded
    <2>1. ASSUME ScoreInv, NEW n \in Nonces
          PROVE  accepted[n] <= Cardinality(Slots)
      <3>1. Admitted(n) \in SUBSET Slots
        BY DEF Admitted
      <3>2. Cardinality(Admitted(n)) \in Nat /\ Cardinality(Slots) \in Nat
        BY <3>1, FiniteSlots, FS_Subset, FS_CardinalityType
      <3>3. QED
        BY <2>1, <3>2 DEF ScoreInv, NonceIsShared, ScoreTypeOK
    <2>2. QED
      BY <2>1 DEF ReplaysBounded
  <1>2. QED
    BY <1>1, ScoreInvariant, PTL

(* No flagged run enters the tables without a row for the moderators.      *)
THEOREM NoFlagIsLost == ScoreSpec => []FlaggedRunsReported
  BY ScoreInvariant, PTL DEF ScoreInv

-----------------------------------------------------------------------------
(***************************************************************************)
(* WeeklyJackpot: what the jackpot pays is backed, for any epochs, pools,  *)
(* entries, visitors and deaths of the process.                            *)
(***************************************************************************)

(* The slices that were handed over to epoch e.                            *)
Handed(e) ==
  SumFunctionOnSet([d \in Dailies |-> IF daily[d].epoch = e /\ daily[d].contributed
                                        THEN Slice(d) ELSE 0], Dailies)

(* The workers' records, stage by stage.                                   *)
AgentStates ==
       [stage : {"idle", "find daily", "make daily", "find weekly", "make weekly"}]
  \cup [stage : {"open daily"}, epoch : Epochs]
  \cup [stage : {"count weekly", "show weekly"}, epoch : Epochs, credits : Nat]
  \cup [stage : {"open weekly"}, epoch : Epochs, seed : Nat]

RollerStates == [stage : {"idle", "create"}] \cup [stage : {"settle"}, epoch : Epochs]

SettlerStates ==
       [stage : {"idle"}]
  \cup [stage : {"contribute"}, pool : Dailies]
  \cup [stage : {"transfer"}, pool : Dailies, amount : Nat]
  \cup [stage : {"display"}, weekly : Weeklies, pool : Nat, shown : Nat]
  \cup [stage : {"list"}, weekly : Weeklies, pool : Nat]
  \cup [stage : {"pay"}, weekly : Weeklies, pool : Nat, rank : Nat, players : Nat]
  \cup [stage : {"mark", "reset"}, weekly : Weeklies]

WorkersTyped ==
  /\ agent \in AgentStates
  /\ roller \in RollerStates
  /\ settler \in SettlerStates

(* A pool that was never opened has nothing; one that was has an epoch.    *)
PoolsTyped ==
  /\ \A d \in Dailies :
       IF daily[d].status = "ABSENT" THEN daily[d].entries = 0 /\ ~daily[d].contributed
       ELSE daily[d].epoch \in Epochs
  /\ \A w \in Weeklies :
       IF weekly[w].status = "ABSENT" THEN paid[w] = 0 /\ weekly[w].seed = 0
       ELSE weekly[w].epoch \in Epochs

(* What an epoch holds was handed over, and so was what the agent or the   *)
(* settlement has read of it; a seed is of slices.                         *)
EpochIsBacked(e) ==
  /\ credits[e] <= Handed(e)
  /\ agent.stage \in {"count weekly", "show weekly"} /\ agent.epoch = e =>
       agent.credits <= Handed(e)
  /\ agent.stage = "open weekly" /\ agent.epoch = e => agent.seed <= Slices(e)
  /\ \A w \in Weeklies : weekly[w].status # "ABSENT" /\ weekly[w].epoch = e =>
       /\ weekly[w].seed <= Slices(e)
       /\ settler.stage = "display" /\ settler.weekly = w =>
            /\ settler.pool <= weekly[w].entries * WeeklyFee + Slices(e)
            /\ settler.shown <= Handed(e)

(* What the settlement has read stays true, or backed, while it works.     *)
DailyAtHand(d) ==
  settler.stage \in {"contribute", "transfer"} /\ settler.pool = d =>
    /\ daily[d].status = "SETTLED"
    /\ settler.stage = "transfer" => ~daily[d].contributed /\ settler.amount <= Slice(d)

WeeklyAtHand(w) ==
  settler.stage \in {"display", "list", "pay", "mark", "reset"} /\ settler.weekly = w =>
    /\ weekly[w].status = IF settler.stage = "reset" THEN "SETTLED" ELSE "ACTIVE"
    /\ settler.stage \in {"list", "pay"} => settler.pool <= Backed(w)
    /\ settler.stage = "pay" => settler.rank >= 1

SettlerIsBacked ==
  /\ \A d \in Dailies : DailyAtHand(d)
  /\ \A w \in Weeklies : WeeklyAtHand(w)

(* What the ranks before a rank are paid from a pool.                      *)
SlotsBefore(rank) == IF rank <= 4 THEN 0 ELSE IF rank > 11 THEN RunnerUpSlots ELSE rank - 4
PaidBefore(rank, pool) ==
  (IF rank > 1 THEN Podium(1, pool) ELSE 0) + (IF rank > 2 THEN Podium(2, pool) ELSE 0)
  + (IF rank > 3 THEN Podium(3, pool) ELSE 0) + SlotsBefore(rank) * RunnerUp(pool)

(* What the settlement under way has paid of weekly tournament w.          *)
UnderWay(w) ==
  IF settler.stage = "pay" /\ settler.weekly = w THEN PaidBefore(settler.rank, settler.pool)
  ELSE IF settler.stage = "mark" /\ settler.weekly = w THEN Backed(w)
  ELSE 0

(* A settlement pays what is backed at most, and only a death of the       *)
(* process makes it start again.                                           *)
PaymentIsBacked(w) ==
  /\ weekly[w].status = "ACTIVE" => paid[w] <= failures * Backed(w) + UnderWay(w)
  /\ weekly[w].status = "SETTLED" => paid[w] <= failures * Backed(w) + Backed(w)

WeeklyInv ==
  /\ WeeklyTypeOK /\ WorkersTyped /\ PoolsTyped
  /\ \A e \in Epochs : EpochIsBacked(e)
  /\ SettlerIsBacked
  /\ \A w \in Weeklies : PaymentIsBacked(w)

-----------------------------------------------------------------------------
(* The sums.                                                               *)

LEMMA ShareIsNat == SplitDailyEntryFee(DailyFee).weeklyJackpot \in Nat
  BY WeeklyConstants, SplitConservesFee

LEMMA TimesIsNat ==
  ASSUME NEW i \in Nat, NEW j \in Nat
  PROVE  i * j \in Nat
  OBVIOUS

LEMMA TimesGrows ==
  ASSUME NEW i \in Nat, NEW j \in Nat, NEW k \in Nat, i <= j
  PROVE  i * k <= j * k
  OBVIOUS

DailyTables == [Dailies -> [status : Statuses, epoch : 0 .. MaxEpochs, entries : 0 .. MaxEntries,
                            contributed : BOOLEAN]]

LEMMA EntriesAreNat ==
  ASSUME NEW table \in DailyTables, NEW d \in Dailies
  PROVE  table[d].entries \in Nat
  <1>1. MaxEntries \in Nat
    BY WeeklyConstants
  <1>2. table[d].entries \in 0 .. MaxEntries
    BY DEF DailyTables
  <1>3. QED
    BY <1>1, <1>2

LEMMA SliceIsNat ==
  ASSUME WeeklyTypeOK, NEW d \in Dailies
  PROVE  Slice(d) \in Nat
  <1>1. daily[d].entries \in Nat
    BY EntriesAreNat DEF WeeklyTypeOK, DailyTables
  <1>2. QED
    BY <1>1, ShareIsNat, TimesIsNat DEF Slice

(* A sum over the pools of naturals is one.                                *)
LEMMA NaturalSum ==
  ASSUME NEW f, \A d \in Dailies : f[d] \in Nat
  PROVE  SumFunctionOnSet(f, Dailies) \in Nat
  <1> DEFINE zero == [d \in Dailies |-> 0]
  <1>1. IsFiniteSet(Dailies)
    BY WeeklyConstants
  <1>2. SumFunctionOnSet(zero, Dailies) = 0
    BY <1>1, SumOfZeros
  <1>3. /\ \A d \in Dailies : zero[d] \in Int
        /\ \A d \in Dailies : f[d] \in Int
        /\ \A d \in Dailies : zero[d] <= f[d]
    OBVIOUS
  <1> HIDE DEF zero
  <1>4. SumFunctionOnSet(zero, Dailies) <= SumFunctionOnSet(f, Dailies)
    BY <1>1, <1>3, SumGrows
  <1>5. SumFunctionOnSet(f, Dailies) \in Int
    BY <1>1, <1>3, SumIsInt
  <1>6. QED
    BY <1>2, <1>4, <1>5

(* What was handed over and what is pending are different slices.          *)
LEMMA SlicesAreSplit ==
  ASSUME WeeklyTypeOK, NEW e
  PROVE  /\ Slices(e) \in Nat /\ Pending(e) \in Nat /\ Handed(e) \in Nat
         /\ Handed(e) + Pending(e) <= Slices(e)
  <1> DEFINE all == [d \in Dailies |-> IF daily[d].epoch = e THEN Slice(d) ELSE 0]
             waiting == [d \in Dailies |-> IF Waits(d, e) THEN Slice(d) ELSE 0]
             given == [d \in Dailies |-> IF daily[d].epoch = e /\ daily[d].contributed
                                           THEN Slice(d) ELSE 0]
             both == [d \in Dailies |-> given[d] + waiting[d]]
  <1>1. \A d \in Dailies : Slice(d) \in Nat
    BY SliceIsNat
  <1>2. \A d \in Dailies : /\ all[d] \in Nat /\ waiting[d] \in Nat /\ given[d] \in Nat
                           /\ given[d] + waiting[d] <= all[d]
    BY <1>1 DEF Waits
  <1>3. \A d \in Dailies : both[d] = given[d] + waiting[d]
    OBVIOUS
  <1>4. /\ Slices(e) = SumFunctionOnSet(all, Dailies)
        /\ Pending(e) = SumFunctionOnSet(waiting, Dailies)
        /\ Handed(e) = SumFunctionOnSet(given, Dailies)
    BY DEF Slices, Pending, Handed
  <1> HIDE DEF all, waiting, given, both
  <1>5. IsFiniteSet(Dailies)
    BY WeeklyConstants
  <1>6. /\ \A d \in Dailies : all[d] \in Int
        /\ \A d \in Dailies : waiting[d] \in Int
        /\ \A d \in Dailies : given[d] \in Int
        /\ \A d \in Dailies : both[d] \in Int
        /\ \A d \in Dailies : both[d] <= all[d]
    BY <1>2, <1>3
  <1>7. SumFunctionOnSet(both, Dailies)
          = SumFunctionOnSet(given, Dailies) + SumFunctionOnSet(waiting, Dailies)
    BY <1>3, <1>5, <1>6, SumAdds
  <1>8. SumFunctionOnSet(both, Dailies) <= SumFunctionOnSet(all, Dailies)
    BY <1>5, <1>6, SumGrows
  <1>9. /\ SumFunctionOnSet(all, Dailies) \in Nat
        /\ SumFunctionOnSet(waiting, Dailies) \in Nat
        /\ SumFunctionOnSet(given, Dailies) \in Nat
    BY <1>2, NaturalSum
  <1>10. QED
    BY <1>4, <1>7, <1>8, <1>9

(* No slice shrinks, leaves its epoch or comes back.                       *)
DailiesGrow ==
  \A d \in Dailies :
    /\ daily[d].entries <= daily'[d].entries
    /\ daily'[d].epoch = daily[d].epoch \/ daily[d].entries = 0
    /\ daily[d].contributed => daily'[d].contributed

LEMMA SlicesGrow ==
  ASSUME WeeklyTypeOK, WeeklyTypeOK', DailiesGrow, NEW e
  PROVE  /\ Slices(e)' \in Nat /\ Handed(e)' \in Nat
         /\ Slices(e) <= Slices(e)' /\ Handed(e) <= Handed(e)'
  <1> DEFINE all == [d \in Dailies |-> IF daily[d].epoch = e THEN Slice(d) ELSE 0]
             given == [d \in Dailies |-> IF daily[d].epoch = e /\ daily[d].contributed
                                           THEN Slice(d) ELSE 0]
             allNow == [d \in Dailies |-> IF daily'[d].epoch = e THEN Slice(d)' ELSE 0]
             givenNow == [d \in Dailies |-> IF daily'[d].epoch = e /\ daily'[d].contributed
                                              THEN Slice(d)' ELSE 0]
  <1>1. \A d \in Dailies : Slice(d) \in Nat
    BY SliceIsNat
  <1>2. \A d \in Dailies : Slice(d)' \in Nat
    <2>1. \A d \in Dailies : daily'[d].entries \in Nat
      BY EntriesAreNat DEF WeeklyTypeOK, DailyTables
    <2>2. QED
      BY <2>1, ShareIsNat, TimesIsNat DEF Slice
  <1>3. \A d \in Dailies : Slice(d) <= Slice(d)'
    <2> SUFFICES ASSUME NEW d \in Dailies PROVE Slice(d) <= Slice(d)'
      OBVIOUS
    <2>1. daily[d].entries \in Nat /\ daily'[d].entries \in Nat
      BY EntriesAreNat DEF WeeklyTypeOK, DailyTables
    <2>2. QED
      BY <2>1, ShareIsNat, TimesGrows DEF Slice, DailiesGrow
  <1>4. \A d \in Dailies : daily[d].entries = 0 => Slice(d) = 0
    BY ShareIsNat DEF Slice
  <1>5. \A d \in Dailies : all[d] \in Int /\ allNow[d] \in Int /\ all[d] <= allNow[d]
    BY <1>1, <1>2, <1>3, <1>4 DEF DailiesGrow
  <1>6. \A d \in Dailies : given[d] \in Int /\ givenNow[d] \in Int /\ given[d] <= givenNow[d]
    BY <1>1, <1>2, <1>3, <1>4 DEF DailiesGrow
  <1>5a. \A d \in Dailies : allNow[d] \in Nat
    BY <1>2
  <1>6a. \A d \in Dailies : givenNow[d] \in Nat
    BY <1>2
  <1>7. /\ Slices(e) = SumFunctionOnSet(all, Dailies)
        /\ Handed(e) = SumFunctionOnSet(given, Dailies)
        /\ Slices(e)' = SumFunctionOnSet(allNow, Dailies)
        /\ Handed(e)' = SumFunctionOnSet(givenNow, Dailies)
    BY DEF Slices, Handed
  <1> HIDE DEF all, given, allNow, givenNow
  <1>8. IsFiniteSet(Dailies)
    BY WeeklyConstants
  <1>9. SumFunctionOnSet(all, Dailies) <= SumFunctionOnSet(allNow, Dailies)
    BY <1>5, <1>8, SumGrows
  <1>10. SumFunctionOnSet(given, Dailies) <= SumFunctionOnSet(givenNow, Dailies)
    BY <1>6, <1>8, SumGrows
  <1>11. SumFunctionOnSet(allNow, Dailies) \in Nat /\ SumFunctionOnSet(givenNow, Dailies) \in Nat
    BY <1>5a, <1>6a, NaturalSum
  <1>12. QED
    BY <1>7, <1>9, <1>10, <1>11

(* A pool hands its slice over.                                            *)
LEMMA HandingOver ==
  ASSUME WeeklyTypeOK, WeeklyTypeOK', NEW d \in Dailies, ~daily[d].contributed,
         daily' = [daily EXCEPT ![d].contributed = TRUE], NEW e, daily[d].epoch = e
  PROVE  Handed(e)' = Handed(e) + Slice(d)
  <1> DEFINE given == [x \in Dailies |-> IF daily[x].epoch = e /\ daily[x].contributed
                                           THEN Slice(x) ELSE 0]
             givenNow == [x \in Dailies |-> IF daily'[x].epoch = e /\ daily'[x].contributed
                                              THEN Slice(x)' ELSE 0]
  <1>1. \A x \in Dailies : Slice(x) \in Nat
    BY SliceIsNat
  <1>2. \A x \in Dailies : Slice(x)' = Slice(x) /\ daily'[x].epoch = daily[x].epoch
    BY DEF Slice, WeeklyTypeOK
  <1>3. /\ \A x \in Dailies \ {d} : daily'[x].contributed = daily[x].contributed
        /\ daily'[d].contributed
    BY DEF WeeklyTypeOK
  <1>4. /\ \A x \in Dailies : given[x] \in Int
        /\ \A x \in Dailies : givenNow[x] \in Int
        /\ \A x \in Dailies \ {d} : givenNow[x] = given[x]
        /\ given[d] = 0 /\ givenNow[d] = Slice(d)
    BY <1>1, <1>2, <1>3
  <1>5. Handed(e) = SumFunctionOnSet(given, Dailies)
        /\ Handed(e)' = SumFunctionOnSet(givenNow, Dailies)
    BY DEF Handed
  <1> HIDE DEF given, givenNow
  <1>6. IsFiniteSet(Dailies)
    BY WeeklyConstants
  <1>7. SumFunctionOnSet(givenNow, Dailies)
          = SumFunctionOnSet(given, Dailies) + givenNow[d] - given[d]
    BY <1>4, <1>6, SumChanges
  <1>8. SumFunctionOnSet(given, Dailies) \in Int
    BY <1>4, <1>6, SumIsInt
  <1>9. QED
    BY <1>1, <1>4, <1>5, <1>7, <1>8

-----------------------------------------------------------------------------
(* Types.                                                                  *)

LEMMA WeeklyConstantsAreNat ==
  /\ MaxEpochs \in Nat /\ MaxEpochs > 0 /\ DailyFee \in Nat /\ WeeklyFee \in Nat
  /\ MaxEntries \in Nat /\ MaxVisitors \in Nat /\ MaxFailures \in Nat
  BY WeeklyConstants

(* The latest of some epochs is one of them.                               *)
LEMMA LatestIsOne ==
  ASSUME NEW m \in Nat, NEW S \in SUBSET (1 .. m), S # {}
  PROVE  Max(S) \in S
  <1> DEFINE T == {n \in Nat : \A s \in SUBSET (1 .. n) :
                                 s # {} => \E x \in s : \A y \in s : x >= y}
  <1>1. 0 \in T
    <2>1. \A s \in SUBSET (1 .. 0) : s = {}
      OBVIOUS
    <2>2. QED
      BY <2>1
  <1>2. \A n \in T : n + 1 \in T
    <2> SUFFICES ASSUME NEW n \in T PROVE n + 1 \in T
      OBVIOUS
    <2>1. n \in Nat
      OBVIOUS
    <2>2. \A s \in SUBSET (1 .. n + 1) : s # {} => \E x \in s : \A y \in s : x >= y
      <3> SUFFICES ASSUME NEW s \in SUBSET (1 .. n + 1), s # {}
                   PROVE  \E x \in s : \A y \in s : x >= y
        OBVIOUS
      <3>1. CASE n + 1 \in s
        BY <2>1, <3>1
      <3>2. CASE n + 1 \notin s
        <4>1. s \in SUBSET (1 .. n)
          BY <2>1, <3>2
        <4>2. QED
          BY <4>1
      <3>3. QED
        BY <3>1, <3>2
    <2>3. QED
      BY <2>1, <2>2
  <1>3. T \in SUBSET Nat
    OBVIOUS
  <1>4. T = Nat
    BY <1>1, <1>2, <1>3, AllNaturals
  <1>5. \E x \in S : \A y \in S : x >= y
    BY <1>4
  <1>6. QED
    BY <1>5 DEF Max

LEMMA ActiveAndExpired ==
  ASSUME WeeklyTypeOK
  PROVE  /\ Active # {} => Max(Active) \in Epochs
         /\ Expired # {} => Max(Expired) \in Epochs
  <1>1. made \in Nat /\ made <= MaxEpochs
    <2>1. made \in 0 .. MaxEpochs
      BY DEF WeeklyTypeOK
    <2>2. QED
      BY <2>1, WeeklyConstantsAreNat
  <1>2. Active \in SUBSET (1 .. made) /\ Expired \in SUBSET (1 .. made)
    BY DEF Active, Expired
  <1>3. /\ Active # {} => Max(Active) \in Active
        /\ Expired # {} => Max(Expired) \in Expired
    BY <1>1, <1>2, LatestIsOne
  <1>4. 1 .. made \subseteq Epochs
    BY <1>1, WeeklyConstantsAreNat DEF Epochs
  <1>5. QED
    BY <1>2, <1>3, <1>4

WeeklyTables == [Weeklies -> [status : Statuses, epoch : 0 .. MaxEpochs,
                              entries : 0 .. MaxEntries, seed : Nat]]

TypesHold == WeeklyTypeOK /\ WorkersTyped /\ PoolsTyped

LEMMA CreateEpochKeeps ==
  ASSUME TypesHold, CreateEpoch
  PROVE  made' \in 0 .. MaxEpochs /\ made' \in Epochs
  <1>1. made \in 0 .. MaxEpochs /\ made < MaxEpochs /\ made' = made + 1
    BY DEF CreateEpoch, TypesHold, WeeklyTypeOK
  <1>2. QED
    BY <1>1, WeeklyConstantsAreNat DEF Epochs

LEMMA EpochStepKeepsTypes ==
  ASSUME TypesHold,
         (\E e \in Epochs : TimePasses(e)) \/ VisitorFindsNone \/ VisitorCreates
         \/ RollFinds \/ RollSettles \/ RollCreates \/ Crash
  PROVE  TypesHold'
  <1> USE DEF TypesHold
  <1>0. visitors \in 0 .. MaxVisitors /\ failures \in 0 .. MaxFailures
    BY DEF WeeklyTypeOK
  <1>1. CASE \E e \in Epochs : TimePasses(e)
    <2>1. PICK e \in Epochs : TimePasses(e)
      BY <1>1
    <2>2. age' \in [Epochs -> Ages]
      BY <2>1 DEF TimePasses, WeeklyTypeOK, Ages
    <2>3. WeeklyTypeOK'
      BY <2>1, <2>2 DEF TimePasses, WeeklyTypeOK, workers
    <2>4. QED
      BY <2>1, <2>3 DEF TimePasses, WorkersTyped, PoolsTyped, workers
  <1>2. CASE VisitorFindsNone
    <2>1. visitors' \in 0 .. MaxVisitors
      <3>1. visitors < MaxVisitors /\ visitors' = visitors + 1
        BY <1>2 DEF VisitorFindsNone
      <3>2. QED
        BY <3>1, <1>0, WeeklyConstantsAreNat
    <2>2. QED
      BY <1>2, <2>1 DEF VisitorFindsNone, WeeklyTypeOK, WorkersTyped, PoolsTyped, workers, epochs
  <1>3. CASE VisitorCreates
    <2>1. made' \in 0 .. MaxEpochs
      BY <1>3, CreateEpochKeeps DEF VisitorCreates
    <2>2. visitors' \in 0 .. MaxVisitors
      <3>1. visitors > 0 /\ visitors' = visitors - 1
        BY <1>3 DEF VisitorCreates
      <3>2. QED
        BY <3>1, <1>0, WeeklyConstantsAreNat
    <2>3. QED
      BY <1>3, <2>1, <2>2
      DEF VisitorCreates, CreateEpoch, WeeklyTypeOK, WorkersTyped, PoolsTyped, workers
  <1>4. CASE RollFinds
    <2>1. Max(Expired) \in Epochs
      BY <1>4, ActiveAndExpired DEF RollFinds
    <2>2. roller' \in RollerStates /\ roller'.stage = "settle"
      BY <1>4, <2>1 DEF RollFinds, RollerStates
    <2>3. QED
      BY <1>4, <2>2
      DEF RollFinds, RollerElse, WeeklyTypeOK, WorkersTyped, PoolsTyped, epochs
  <1>5. CASE RollSettles
    <2>1. settled' \in [Epochs -> BOOLEAN]
      BY <1>5 DEF RollSettles, WeeklyTypeOK
    <2>2. roller' \in RollerStates /\ roller'.stage = "create"
      BY <1>5 DEF RollSettles, RollerStates
    <2>3. QED
      BY <1>5, <2>1, <2>2
      DEF RollSettles, RollerElse, WeeklyTypeOK, WorkersTyped, PoolsTyped
  <1>6. CASE RollCreates
    <2>1. made' \in 0 .. MaxEpochs
      BY <1>6, CreateEpochKeeps DEF RollCreates
    <2>2. roller' \in RollerStates /\ roller'.stage = "idle"
      BY <1>6 DEF RollCreates, RollerStates, Resting
    <2>3. QED
      BY <1>6, <2>1, <2>2
      DEF RollCreates, CreateEpoch, RollerElse, WeeklyTypeOK, WorkersTyped, PoolsTyped
  <1>7. CASE Crash
    <2>1. failures' \in 0 .. MaxFailures
      <3>1. failures < MaxFailures /\ failures' = failures + 1
        BY <1>7 DEF Crash
      <3>2. QED
        BY <3>1, <1>0, WeeklyConstantsAreNat
    <2>2. visitors' \in 0 .. MaxVisitors
      BY <1>7, WeeklyConstantsAreNat DEF Crash
    <2>3. /\ agent' \in AgentStates /\ agent'.stage = "idle"
          /\ roller' \in RollerStates /\ roller'.stage = "idle"
          /\ settler' \in SettlerStates /\ settler'.stage = "idle"
      BY <1>7 DEF Crash, Resting, AgentStates, RollerStates, SettlerStates
    <2>4. QED
      BY <1>7, <2>1, <2>2, <2>3 DEF Crash, WeeklyTypeOK, WorkersTyped, PoolsTyped, epochs
  <1>8. QED
    BY <1>1, <1>2, <1>3, <1>4, <1>5, <1>6, <1>7

LEMMA JoinKeepsTypes ==
  ASSUME TypesHold,
         (\E d \in Dailies : JoinDaily(d)) \/ (\E w \in Weeklies : JoinWeekly(w))
  PROVE  TypesHold'
  <1> USE DEF TypesHold
  <1>1. CASE \E d \in Dailies : JoinDaily(d)
    <2>1. PICK d \in Dailies : JoinDaily(d)
      BY <1>1
    <2>2. daily[d].entries + 1 \in 0 .. MaxEntries
      <3>1. daily[d].entries \in 0 .. MaxEntries
        BY DEF WeeklyTypeOK
      <3>2. daily[d].entries < MaxEntries
        BY <2>1 DEF JoinDaily
      <3>3. QED
        BY <3>1, <3>2, WeeklyConstantsAreNat
    <2>3. /\ daily' = [daily EXCEPT ![d] = [daily[d] EXCEPT !.entries = daily[d].entries + 1]]
          /\ daily \in DailyTables
      BY <2>1 DEF JoinDaily, WeeklyTypeOK, DailyTables
    <2>4. daily' \in DailyTables
      BY <2>2, <2>3 DEF DailyTables
    <2>5. \A x \in Dailies : /\ daily'[x].status = daily[x].status
                             /\ daily'[x].epoch = daily[x].epoch
                             /\ daily'[x].contributed = daily[x].contributed
                             /\ x # d => daily'[x].entries = daily[x].entries
      BY <2>3 DEF DailyTables
    <2>6. WeeklyTypeOK'
      BY <2>1, <2>4 DEF JoinDaily, WeeklyTypeOK, DailyTables, epochs, workers
    <2>7. PoolsTyped'
      BY <2>1, <2>5 DEF JoinDaily, PoolsTyped
    <2>8. QED
      BY <2>1, <2>6, <2>7 DEF JoinDaily, WorkersTyped, workers
  <1>2. CASE \E w \in Weeklies : JoinWeekly(w)
    <2>1. PICK w \in Weeklies : JoinWeekly(w)
      BY <1>2
    <2>2. weekly[w].entries + 1 \in 0 .. MaxEntries
      <3>1. weekly[w].entries \in 0 .. MaxEntries
        BY DEF WeeklyTypeOK
      <3>2. weekly[w].entries < MaxEntries
        BY <2>1 DEF JoinWeekly
      <3>3. QED
        BY <3>1, <3>2, WeeklyConstantsAreNat
    <2>3. /\ weekly' = [weekly EXCEPT ![w] = [weekly[w] EXCEPT !.entries = weekly[w].entries + 1]]
          /\ weekly \in WeeklyTables
      BY <2>1 DEF JoinWeekly, WeeklyTypeOK, WeeklyTables
    <2>4. weekly' \in WeeklyTables
      BY <2>2, <2>3 DEF WeeklyTables
    <2>5. \A x \in Weeklies : /\ weekly'[x].status = weekly[x].status
                              /\ weekly'[x].epoch = weekly[x].epoch
                              /\ weekly'[x].seed = weekly[x].seed
      BY <2>3 DEF WeeklyTables
    <2>6. WeeklyTypeOK'
      BY <2>1, <2>4 DEF JoinWeekly, WeeklyTypeOK, WeeklyTables, epochs, workers
    <2>7. PoolsTyped'
      BY <2>1, <2>5 DEF JoinWeekly, PoolsTyped
    <2>8. QED
      BY <2>1, <2>6, <2>7 DEF JoinWeekly, WorkersTyped, workers
  <1>3. QED
    BY <1>1, <1>2

LEMMA AgentStepKeepsTypes ==
  ASSUME TypesHold, AgentStep
  PROVE  TypesHold'
  <1> USE DEF TypesHold
  <1>0. /\ agent \in AgentStates
        /\ credits \in [Epochs -> Nat] /\ daily \in DailyTables /\ weekly \in WeeklyTables
    BY DEF WeeklyTypeOK, WorkersTyped, DailyTables, WeeklyTables
  <1>a. \A e \in Epochs : With(e) \in AgentStates /\ With(e).stage \in {"open daily", "count weekly"}
    BY <1>0 DEF With, AgentStates
  <1>b. Epochs \subseteq 0 .. MaxEpochs
    BY DEF Epochs
  (* An action that changes nothing but the agent.                         *)
  <1>c. ASSUME agent' \in AgentStates, UNCHANGED <<epochs, daily, weekly, AgentElse>>
        PROVE  TypesHold'
    <2>1. agent'.stage \in {"idle", "find daily", "make daily", "open daily", "find weekly",
                            "make weekly", "count weekly", "show weekly", "open weekly"}
      BY <1>c DEF AgentStates
    <2>2. QED
      BY <1>c, <2>1 DEF epochs, AgentElse, WeeklyTypeOK, WorkersTyped, PoolsTyped
  <1>1. CASE AgentTick
    <2>1. agent' \in AgentStates
      BY <1>1 DEF AgentTick, AgentStates
    <2>2. QED
      BY <1>1, <1>c, <2>1 DEF AgentTick
  <1>2. CASE AgentFindsEpoch
    <2>1. Active # {} => Max(Active) \in Epochs
      BY ActiveAndExpired
    <2>2. agent' \in AgentStates
      BY <1>2, <1>a, <2>1 DEF AgentFindsEpoch, AgentStates
    <2>3. QED
      BY <1>2, <1>c, <2>2 DEF AgentFindsEpoch
  <1>3. CASE AgentMakesEpoch
    <2>1. made' \in 0 .. MaxEpochs /\ made' \in Epochs
      BY <1>3, CreateEpochKeeps DEF AgentMakesEpoch
    <2>2. agent' \in AgentStates /\ agent'.stage \in {"open daily", "count weekly"}
      BY <1>3, <1>a, <2>1 DEF AgentMakesEpoch
    <2>3. QED
      BY <1>3, <2>1, <2>2
      DEF AgentMakesEpoch, CreateEpoch, AgentElse, WeeklyTypeOK, WorkersTyped, PoolsTyped
  <1>4. CASE AgentOpensDaily
    <2>1. agent.epoch \in Epochs
      BY <1>0, <1>4 DEF AgentOpensDaily, AgentStates
    <2>2. agent' \in AgentStates /\ agent'.stage = "find weekly"
      BY <1>4 DEF AgentOpensDaily, AgentStates
    <2>3. CASE UNCHANGED daily
      BY <1>4, <1>c, <2>2, <2>3 DEF AgentOpensDaily
    <2>4. ASSUME NEW d \in Unused(daily),
                 daily' = [daily EXCEPT ![d].status = "ACTIVE", ![d].epoch = agent.epoch]
          PROVE  TypesHold'
      <3>1. d \in Dailies /\ daily[d].status = "ABSENT"
        BY <1>0 DEF Unused, DailyTables
      <3>2. /\ daily'[d] = [status |-> "ACTIVE", epoch |-> agent.epoch,
                            entries |-> daily[d].entries, contributed |-> daily[d].contributed]
            /\ \A x \in Dailies \ {d} : daily'[x] = daily[x]
            /\ daily' = [x \in Dailies |-> daily'[x]]
        BY <1>0, <2>4, <3>1 DEF DailyTables
      <3>3. daily' \in DailyTables
        BY <1>0, <1>b, <2>1, <3>1, <3>2 DEF DailyTables, Statuses
      <3>4. WeeklyTypeOK'
        BY <1>4, <2>2, <3>3 DEF AgentOpensDaily, AgentElse, epochs, WeeklyTypeOK, DailyTables
      <3>5. PoolsTyped'
        <4>1. daily'[d].status = "ACTIVE" /\ daily'[d].epoch \in Epochs
          BY <2>1, <3>2
        <4>2. UNCHANGED <<weekly, paid>>
          BY <1>4 DEF AgentOpensDaily, AgentElse
        <4>3. QED
          BY <3>1, <3>2, <4>1, <4>2 DEF PoolsTyped
      <3>6. QED
        BY <1>4, <2>2, <3>4, <3>5 DEF AgentOpensDaily, AgentElse, WorkersTyped
    <2>5. QED
      BY <1>4, <2>3, <2>4 DEF AgentOpensDaily
  <1>5. CASE AgentCountsWeekly
    <2>1. agent' \in AgentStates
      BY <1>0, <1>5 DEF AgentCountsWeekly, AgentStates, Resting
    <2>2. QED
      BY <1>5, <1>c, <2>1 DEF AgentCountsWeekly
  <1>6. CASE AgentReadsDisplay
    <2>1. agent.epoch \in Epochs /\ agent.credits \in Nat
      BY <1>0, <1>6 DEF AgentReadsDisplay, AgentStates
    <2>2. agent.credits + Pending(agent.epoch) \in Nat
      BY <2>1, SlicesAreSplit
    <2>3. agent' \in AgentStates
      BY <1>6, <2>1, <2>2 DEF AgentReadsDisplay, AgentStates
    <2>4. QED
      BY <1>6, <1>c, <2>3 DEF AgentReadsDisplay
  <1>7. CASE AgentOpensWeekly
    <2>1. agent.epoch \in Epochs /\ agent.seed \in Nat
      BY <1>0, <1>7 DEF AgentOpensWeekly, AgentStates
    <2>2. agent' \in AgentStates /\ agent'.stage = "idle"
      BY <1>7 DEF AgentOpensWeekly, AgentStates, Resting
    <2>3. CASE UNCHANGED weekly
      BY <1>7, <1>c, <2>2, <2>3 DEF AgentOpensWeekly
    <2>4. ASSUME NEW w \in Unused(weekly),
                 weekly' = [weekly EXCEPT ![w] = [status |-> "ACTIVE", epoch |-> agent.epoch,
                                                  entries |-> 0, seed |-> agent.seed]]
          PROVE  TypesHold'
      <3>1. w \in Weeklies
        BY <1>0 DEF Unused, WeeklyTables
      <3>2. 0 \in 0 .. MaxEntries
        BY WeeklyConstantsAreNat
      <3>3. weekly' \in WeeklyTables
        BY <1>0, <1>b, <2>1, <2>4, <3>1, <3>2 DEF WeeklyTables, Statuses
      <3>4. /\ weekly'[w].status = "ACTIVE" /\ weekly'[w].epoch = agent.epoch
            /\ \A x \in Weeklies \ {w} : weekly'[x] = weekly[x]
        BY <1>0, <2>4, <3>1 DEF WeeklyTables
      <3>5. WeeklyTypeOK'
        BY <1>7, <2>2, <3>3 DEF AgentOpensWeekly, AgentElse, epochs, WeeklyTypeOK, WeeklyTables
      <3>6. PoolsTyped'
        BY <1>7, <2>1, <3>1, <3>4 DEF AgentOpensWeekly, AgentElse, PoolsTyped
      <3>7. QED
        BY <1>7, <2>2, <3>5, <3>6 DEF AgentOpensWeekly, AgentElse, WorkersTyped
    <2>5. QED
      BY <1>7, <2>3, <2>4 DEF AgentOpensWeekly
  <1>8. QED
    BY <1>1, <1>2, <1>3, <1>4, <1>5, <1>6, <1>7 DEF AgentStep

LEMMA RewardIsNat ==
  ASSUME NEW rank \in Nat, NEW pool \in Nat
  PROVE  ComputeWeeklyReward(rank, pool) \in Nat
  <1>1. /\ Podium(1, pool) \in Nat /\ Podium(2, pool) \in Nat /\ Podium(3, pool) \in Nat
    BY DEF Podium, WeeklyShare
  <1>2. RunnerUp(pool) \in Nat
    BY WeeklyPrizesFitPool
  <1>3. rank \in 1 .. 3 => rank = 1 \/ rank = 2 \/ rank = 3
    OBVIOUS
  <1>4. CASE pool <= 0 \/ rank < 1
    BY <1>4 DEF ComputeWeeklyReward
  <1>5. CASE pool > 0 /\ rank \in 1 .. 3
    <2>1. ComputeWeeklyReward(rank, pool) = Podium(rank, pool)
      BY <1>5 DEF ComputeWeeklyReward
    <2>2. QED
      BY <1>1, <1>3, <1>5, <2>1
  <1>6. CASE pool > 0 /\ rank \in 4 .. 10
    BY <1>2, <1>6 DEF ComputeWeeklyReward
  <1>7. CASE pool > 0 /\ rank > 10
    BY <1>7 DEF ComputeWeeklyReward
  <1>8. QED
    BY <1>4, <1>5, <1>6, <1>7

LEMMA SettlerStepKeepsTypes ==
  ASSUME TypesHold, SettlerIsBacked,
         SettlerStep \/ (\E d \in Dailies : MarkDaily(d)) \/ (\E w \in Weeklies : ReadWeekly(w))
  PROVE  TypesHold'
  <1> USE DEF TypesHold
  <1>0. /\ settler \in SettlerStates
        /\ credits \in [Epochs -> Nat] /\ daily \in DailyTables /\ weekly \in WeeklyTables
        /\ paid \in [Weeklies -> Nat]
    BY DEF WeeklyTypeOK, WorkersTyped, DailyTables, WeeklyTables
  (* An action that changes nothing but the settler.                       *)
  <1>a. ASSUME settler' \in SettlerStates, UNCHANGED <<epochs, daily, weekly, paid, SettlerElse>>
        PROVE  TypesHold'
    <2>1. settler'.stage \in {"idle", "contribute", "transfer", "display", "list", "pay",
                              "mark", "reset"}
      BY <1>a DEF SettlerStates
    <2>2. QED
      BY <1>a, <2>1 DEF epochs, SettlerElse, WeeklyTypeOK, WorkersTyped, PoolsTyped
  <1>1. CASE \E d \in Dailies : MarkDaily(d)
    <2>1. PICK d \in Dailies : MarkDaily(d)
      BY <1>1
    <2>2. settler' \in SettlerStates /\ settler'.stage = "contribute"
      BY <2>1 DEF MarkDaily, SettlerStates
    <2>3. /\ daily'[d] = [daily[d] EXCEPT !.status = "SETTLED"]
          /\ \A x \in Dailies \ {d} : daily'[x] = daily[x]
          /\ daily' \in DailyTables
      BY <1>0, <2>1 DEF MarkDaily, DailyTables, Statuses
    <2>4. daily'[d].status = "SETTLED" /\ daily'[d].epoch = daily[d].epoch
      BY <1>0, <2>3 DEF DailyTables
    <2>5. daily[d].status = "ACTIVE"
      BY <2>1 DEF MarkDaily
    <2>6. PoolsTyped'
      BY <2>1, <2>3, <2>4, <2>5 DEF MarkDaily, PoolsTyped
    <2>7. QED
      BY <2>1, <2>2, <2>3, <2>6
      DEF MarkDaily, SettlerElse, epochs, WeeklyTypeOK, DailyTables, WorkersTyped
  <1>2. CASE ReadSlice
    <2>1. settler.pool \in Dailies
      BY <1>0, <1>2 DEF ReadSlice, SettlerStates
    <2>2. Slice(settler.pool) \in Nat
      BY <2>1, SliceIsNat
    <2>3. settler' \in SettlerStates
      BY <1>2, <2>1, <2>2 DEF ReadSlice, SettlerStates, Resting
    <2>4. QED
      BY <1>2, <1>a, <2>3 DEF ReadSlice
  <1>3. CASE TransferSlice
    <2>1. settler.pool \in Dailies /\ settler.amount \in Nat
      BY <1>0, <1>3 DEF TransferSlice, SettlerStates
    <2>2. settler' \in SettlerStates /\ settler'.stage = "idle"
      BY <1>3 DEF TransferSlice, SettlerStates, Resting
    <2>3. credits' \in [Epochs -> Nat]
      <3>1. daily[settler.pool].status = "SETTLED"
        BY <1>3, <2>1 DEF TransferSlice, SettlerIsBacked, DailyAtHand
      <3>2. daily[settler.pool].epoch \in Epochs
        BY <2>1, <3>1 DEF PoolsTyped
      <3>3. credits[daily[settler.pool].epoch] + settler.amount \in Nat
        BY <1>0, <2>1, <3>2
      <3>4. QED
        BY <1>0, <1>3, <3>2, <3>3 DEF TransferSlice
    <2>4. /\ daily'[settler.pool] = [daily[settler.pool] EXCEPT !.contributed = TRUE]
          /\ \A x \in Dailies \ {settler.pool} : daily'[x] = daily[x]
          /\ daily' \in DailyTables
      BY <1>0, <1>3, <2>1 DEF TransferSlice, DailyTables
    <2>5. daily'[settler.pool].status = "SETTLED"
          /\ daily'[settler.pool].epoch = daily[settler.pool].epoch
          /\ daily[settler.pool].status = "SETTLED"
      BY <1>0, <1>3, <2>1, <2>4 DEF TransferSlice, SettlerIsBacked, DailyAtHand, DailyTables
    <2>6. PoolsTyped'
      BY <1>3, <2>4, <2>5 DEF TransferSlice, PoolsTyped
    <2>7. QED
      BY <1>3, <2>2, <2>3, <2>4, <2>6
      DEF TransferSlice, SettlerElse, WeeklyTypeOK, DailyTables, WorkersTyped
  <1>4. CASE \E w \in Weeklies : ReadWeekly(w)
    <2>1. PICK w \in Weeklies : ReadWeekly(w)
      BY <1>4
    <2>2. weekly[w].epoch \in Epochs /\ weekly[w].status = "ACTIVE"
      BY <2>1 DEF ReadWeekly, PoolsTyped
    <2>3. weekly[w].seed \in Nat /\ weekly[w].entries \in Nat
      <3>1. weekly[w].seed \in Nat /\ weekly[w].entries \in 0 .. MaxEntries
        BY <1>0 DEF WeeklyTables
      <3>2. QED
        BY <3>1, WeeklyConstantsAreNat
    <2>4. RewardPool(w) \in Nat
      BY <2>3, WeeklyConstantsAreNat, TimesIsNat DEF RewardPool
    <2>5. credits[weekly[w].epoch] \in Nat
      BY <1>0, <2>2
    <2>6. settler' \in SettlerStates
      BY <2>1, <2>4, <2>5 DEF ReadWeekly, SettlerStates
    <2>7. QED
      BY <1>a, <2>1, <2>6 DEF ReadWeekly
  <1>5. CASE ReadDisplay
    <2>1. settler.weekly \in Weeklies /\ settler.pool \in Nat /\ settler.shown \in Nat
      BY <1>0, <1>5 DEF ReadDisplay, SettlerStates
    <2>2. settler.pool + settler.shown + Pending(weekly[settler.weekly].epoch) \in Nat
      BY <2>1, SlicesAreSplit
    <2>3. settler' \in SettlerStates
      BY <1>5, <2>1, <2>2 DEF ReadDisplay, SettlerStates
    <2>4. QED
      BY <1>5, <1>a, <2>3 DEF ReadDisplay
  (* PayFrom goes on to the next rank or to the end.                       *)
  <1>b. ASSUME NEW w \in Weeklies, NEW pool \in Nat, NEW rank \in Nat, NEW players \in Nat,
               PayFrom(w, pool, rank, players)
        PROVE  settler' \in SettlerStates
    BY <1>b DEF PayFrom, SettlerStates
  <1>6. CASE ListEntrants
    <2>1. settler.weekly \in Weeklies /\ settler.pool \in Nat
      BY <1>0, <1>6 DEF ListEntrants, SettlerStates
    <2>2. weekly[settler.weekly].entries \in Nat
      BY <1>0, <2>1, WeeklyConstantsAreNat DEF WeeklyTables
    <2>3. settler' \in SettlerStates
      BY <1>6, <1>b, <2>1, <2>2 DEF ListEntrants
    <2>4. QED
      BY <1>6, <1>a, <2>3 DEF ListEntrants
  <1>7. CASE PayWeekly
    <2>1. /\ settler.weekly \in Weeklies /\ settler.pool \in Nat
          /\ settler.rank \in Nat /\ settler.players \in Nat
      BY <1>0, <1>7 DEF PayWeekly, SettlerStates
    <2>2. settler.rank + 1 \in Nat
      BY <2>1
    <2>3. settler' \in SettlerStates
      BY <1>7, <1>b, <2>1, <2>2 DEF PayWeekly
    <2>4. settler'.stage \in {"pay", "mark"}
      BY <1>7 DEF PayWeekly, PayFrom
    <2>5. ComputeWeeklyReward(settler.rank, settler.pool) \in Nat
      BY <2>1, RewardIsNat
    <2>6. paid' \in [Weeklies -> Nat]
      BY <1>0, <1>7, <2>1, <2>5 DEF PayWeekly
    <2>7. weekly[settler.weekly].status = "ACTIVE"
      BY <1>7, <2>1 DEF PayWeekly, SettlerIsBacked, WeeklyAtHand
    <2>8. \A x \in Weeklies : x # settler.weekly => paid'[x] = paid[x]
      BY <1>0, <1>7 DEF PayWeekly
    <2>9. PoolsTyped'
      BY <1>7, <2>7, <2>8 DEF PayWeekly, PoolsTyped
    <2>10. QED
      BY <1>7, <2>3, <2>4, <2>6, <2>9
      DEF PayWeekly, SettlerElse, epochs, WeeklyTypeOK, WorkersTyped
  <1>8. CASE MarkWeekly
    <2>1. settler.weekly \in Weeklies
      BY <1>0, <1>8 DEF MarkWeekly, SettlerStates
    <2>2. settler' \in SettlerStates /\ settler'.stage = "reset"
      BY <1>0, <1>8 DEF MarkWeekly, SettlerStates
    <2>3. /\ weekly'[settler.weekly] = [weekly[settler.weekly] EXCEPT !.status = "SETTLED"]
          /\ \A x \in Weeklies \ {settler.weekly} : weekly'[x] = weekly[x]
          /\ weekly' \in WeeklyTables
      BY <1>0, <1>8, <2>1 DEF MarkWeekly, WeeklyTables, Statuses
    <2>4. weekly'[settler.weekly].status = "SETTLED"
          /\ weekly'[settler.weekly].epoch = weekly[settler.weekly].epoch
          /\ weekly[settler.weekly].status = "ACTIVE"
      BY <1>0, <1>8, <2>1, <2>3 DEF MarkWeekly, SettlerIsBacked, WeeklyAtHand, WeeklyTables
    <2>5. PoolsTyped'
      BY <1>8, <2>1, <2>3, <2>4 DEF MarkWeekly, PoolsTyped
    <2>6. QED
      BY <1>8, <2>2, <2>3, <2>5
      DEF MarkWeekly, SettlerElse, epochs, WeeklyTypeOK, WeeklyTables, WorkersTyped
  <1>9. CASE ResetEpoch
    <2>1. settler' \in SettlerStates /\ settler'.stage = "idle"
      BY <1>9 DEF ResetEpoch, SettlerStates, Resting
    <2>2. settled \in [Epochs -> BOOLEAN]
      BY DEF WeeklyTypeOK
    <2>3. settled' \in [Epochs -> BOOLEAN] /\ credits' \in [Epochs -> Nat]
      BY <1>0, <1>9, <2>2 DEF ResetEpoch
    <2>4. QED
      BY <1>9, <2>1, <2>3
      DEF ResetEpoch, SettlerElse, WeeklyTypeOK, WorkersTyped, PoolsTyped
  <1>10. QED
    BY <1>1, <1>2, <1>3, <1>4, <1>5, <1>6, <1>7, <1>8, <1>9 DEF SettlerStep

-----------------------------------------------------------------------------
(* Who changes what.                                                       *)

LEMMA WhoWrites ==
  ASSUME [WeeklyNext]_weeklyVars
  PROVE  /\ \/ UNCHANGED credits
            \/ TransferSlice \/ ResetEpoch
         /\ \/ UNCHANGED daily
            \/ (\E d \in Dailies : JoinDaily(d) \/ MarkDaily(d))
            \/ AgentOpensDaily \/ TransferSlice
         /\ \/ UNCHANGED weekly
            \/ (\E w \in Weeklies : JoinWeekly(w))
            \/ AgentOpensWeekly \/ MarkWeekly
         /\ \/ UNCHANGED paid
            \/ PayWeekly
         /\ \/ UNCHANGED failures
            \/ Crash
         /\ \/ UNCHANGED agent
            \/ AgentStep \/ Crash
         /\ \/ UNCHANGED settler
            \/ SettlerStep \/ (\E d \in Dailies : MarkDaily(d))
            \/ (\E w \in Weeklies : ReadWeekly(w)) \/ Crash
  <1>1. CASE \/ \E e \in Epochs : TimePasses(e)
             \/ VisitorFindsNone \/ VisitorCreates
             \/ RollFinds \/ RollSettles \/ RollCreates
    BY <1>1 DEF TimePasses, VisitorFindsNone, VisitorCreates, RollFinds, RollSettles, RollCreates,
                CreateEpoch, RollerElse, epochs, workers
  <1>2. CASE \E d \in Dailies : JoinDaily(d) \/ MarkDaily(d)
    BY <1>2 DEF JoinDaily, MarkDaily, SettlerElse, epochs, workers
  <1>3. CASE \E w \in Weeklies : JoinWeekly(w) \/ ReadWeekly(w)
    BY <1>3 DEF JoinWeekly, ReadWeekly, SettlerElse, epochs, workers
  <1>4. CASE AgentStep
    BY <1>4 DEF AgentStep, AgentTick, AgentFindsEpoch, AgentMakesEpoch, AgentOpensDaily,
                AgentCountsWeekly, AgentReadsDisplay, AgentOpensWeekly, CreateEpoch,
                AgentElse, epochs
  <1>5. CASE SettlerStep
    BY <1>5 DEF SettlerStep, ReadSlice, TransferSlice, ReadDisplay, ListEntrants, PayWeekly,
                MarkWeekly, ResetEpoch, SettlerElse, epochs
  <1>6. CASE Crash
    BY <1>6 DEF Crash, epochs
  <1>7. CASE UNCHANGED weeklyVars
    BY <1>7 DEF weeklyVars, epochs, workers
  <1>8. QED
    BY <1>1, <1>2, <1>3, <1>4, <1>5, <1>6, <1>7 DEF WeeklyNext

LEMMA TypesKept ==
  ASSUME TypesHold, SettlerIsBacked, [WeeklyNext]_weeklyVars
  PROVE  TypesHold'
  <1>1. CASE \E d \in Dailies : JoinDaily(d) \/ MarkDaily(d)
    BY <1>1, JoinKeepsTypes, SettlerStepKeepsTypes
  <1>2. CASE \E w \in Weeklies : JoinWeekly(w) \/ ReadWeekly(w)
    BY <1>2, JoinKeepsTypes, SettlerStepKeepsTypes
  <1>3. CASE UNCHANGED weeklyVars
    BY <1>3 DEF TypesHold, WeeklyTypeOK, WorkersTyped, PoolsTyped, weeklyVars, epochs, workers
  <1>4. QED
    BY <1>1, <1>2, <1>3, EpochStepKeepsTypes, AgentStepKeepsTypes, SettlerStepKeepsTypes
    DEF WeeklyNext

LEMMA DailiesKeepGrowing ==
  ASSUME TypesHold, SettlerIsBacked, [WeeklyNext]_weeklyVars
  PROVE  DailiesGrow
  <1>1. daily \in DailyTables
    BY DEF TypesHold, WeeklyTypeOK, DailyTables
  <1>2. \A d \in Dailies : daily[d].entries \in Nat
    BY <1>1, EntriesAreNat
  <1>3. CASE UNCHANGED daily
    BY <1>2, <1>3 DEF DailiesGrow
  <1>4. CASE \E d \in Dailies : JoinDaily(d)
    <2>1. PICK d \in Dailies : JoinDaily(d)
      BY <1>4
    <2>2. /\ daily'[d].entries = daily[d].entries + 1 /\ daily'[d].epoch = daily[d].epoch
          /\ daily'[d].contributed = daily[d].contributed
          /\ \A x \in Dailies \ {d} : daily'[x] = daily[x]
      BY <1>1, <2>1 DEF JoinDaily, DailyTables
    <2>3. QED
      BY <1>2, <2>2 DEF DailiesGrow
  <1>5. CASE \E d \in Dailies : MarkDaily(d)
    <2>1. PICK d \in Dailies : MarkDaily(d)
      BY <1>5
    <2>2. /\ daily'[d].entries = daily[d].entries /\ daily'[d].epoch = daily[d].epoch
          /\ daily'[d].contributed = daily[d].contributed
          /\ \A x \in Dailies \ {d} : daily'[x] = daily[x]
      BY <1>1, <2>1 DEF MarkDaily, DailyTables
    <2>3. QED
      BY <1>2, <2>2 DEF DailiesGrow
  <1>6. CASE AgentOpensDaily /\ ~UNCHANGED daily
    <2>1. PICK d \in Unused(daily) :
                 daily' = [daily EXCEPT ![d].status = "ACTIVE", ![d].epoch = agent.epoch]
      BY <1>6 DEF AgentOpensDaily
    <2>2. d \in Dailies /\ daily[d].status = "ABSENT"
      BY <1>1 DEF Unused, DailyTables
    <2>3. daily[d].entries = 0
      BY <2>2 DEF TypesHold, PoolsTyped
    <2>4. /\ daily'[d].entries = daily[d].entries
          /\ daily'[d].contributed = daily[d].contributed
          /\ \A x \in Dailies \ {d} : daily'[x] = daily[x]
      BY <1>1, <2>1, <2>2 DEF DailyTables
    <2>5. QED
      BY <1>2, <2>3, <2>4 DEF DailiesGrow
  <1>7. CASE TransferSlice
    <2> DEFINE d == settler.pool
    <2>1. d \in Dailies
      BY <1>7 DEF TransferSlice, TypesHold, WorkersTyped, SettlerStates
    <2>2. /\ daily'[d].entries = daily[d].entries /\ daily'[d].epoch = daily[d].epoch
          /\ daily'[d].contributed
          /\ \A x \in Dailies \ {d} : daily'[x] = daily[x]
      BY <1>1, <1>7, <2>1 DEF TransferSlice, DailyTables
    <2>3. QED
      BY <1>2, <2>2 DEF DailiesGrow
  <1>8. QED
    BY <1>3, <1>4, <1>5, <1>6, <1>7, WhoWrites

(* A weekly tournament that was opened keeps its epoch and its seed, and   *)
(* loses no entry.                                                         *)
WeekliesGrow ==
  \A w \in Weeklies : weekly[w].status # "ABSENT" =>
    /\ weekly[w].entries <= weekly'[w].entries
    /\ weekly'[w].epoch = weekly[w].epoch /\ weekly'[w].seed = weekly[w].seed

LEMMA WeeklyEntriesAreNat ==
  ASSUME NEW table \in WeeklyTables, NEW w \in Weeklies
  PROVE  table[w].entries \in Nat /\ table[w].seed \in Nat
  <1>1. MaxEntries \in Nat
    BY WeeklyConstantsAreNat
  <1>2. table[w].entries \in 0 .. MaxEntries /\ table[w].seed \in Nat
    BY DEF WeeklyTables
  <1>3. QED
    BY <1>1, <1>2

LEMMA WeekliesKeepGrowing ==
  ASSUME TypesHold, [WeeklyNext]_weeklyVars
  PROVE  WeekliesGrow
  <1>1. weekly \in WeeklyTables
    BY DEF TypesHold, WeeklyTypeOK, WeeklyTables
  <1>2. \A w \in Weeklies : weekly[w].entries \in Nat
    BY <1>1, WeeklyEntriesAreNat
  <1>3. CASE UNCHANGED weekly
    BY <1>2, <1>3 DEF WeekliesGrow
  <1>4. CASE \E w \in Weeklies : JoinWeekly(w)
    <2>1. PICK w \in Weeklies : JoinWeekly(w)
      BY <1>4
    <2>2. /\ weekly'[w].entries = weekly[w].entries + 1
          /\ weekly'[w].epoch = weekly[w].epoch /\ weekly'[w].seed = weekly[w].seed
          /\ \A x \in Weeklies \ {w} : weekly'[x] = weekly[x]
      BY <1>1, <2>1 DEF JoinWeekly, WeeklyTables
    <2>3. QED
      BY <1>2, <2>2 DEF WeekliesGrow
  <1>5. CASE AgentOpensWeekly /\ ~UNCHANGED weekly
    <2>1. PICK w \in Unused(weekly) :
                 weekly' = [weekly EXCEPT ![w] = [status |-> "ACTIVE", epoch |-> agent.epoch,
                                                  entries |-> 0, seed |-> agent.seed]]
      BY <1>5 DEF AgentOpensWeekly
    <2>2. w \in Weeklies /\ weekly[w].status = "ABSENT"
      BY <1>1 DEF Unused, WeeklyTables
    <2>3. \A x \in Weeklies \ {w} : weekly'[x] = weekly[x]
      BY <1>1, <2>1 DEF WeeklyTables
    <2>4. QED
      BY <1>2, <2>2, <2>3 DEF WeekliesGrow
  <1>6. CASE MarkWeekly
    <2> DEFINE w == settler.weekly
    <2>1. w \in Weeklies
      BY <1>6 DEF MarkWeekly, TypesHold, WorkersTyped, SettlerStates
    <2>2. /\ weekly'[w].entries = weekly[w].entries
          /\ weekly'[w].epoch = weekly[w].epoch /\ weekly'[w].seed = weekly[w].seed
          /\ \A x \in Weeklies \ {w} : weekly'[x] = weekly[x]
      BY <1>1, <1>6, <2>1 DEF MarkWeekly, WeeklyTables
    <2>3. QED
      BY <1>2, <2>2 DEF WeekliesGrow
  <1>7. QED
    BY <1>3, <1>4, <1>5, <1>6, WhoWrites

LEMMA BackedGrows ==
  ASSUME WeeklyTypeOK, WeeklyTypeOK', DailiesGrow, WeekliesGrow,
         NEW w \in Weeklies, weekly[w].status # "ABSENT"
  PROVE  Backed(w) \in Nat /\ Backed(w)' \in Nat /\ Backed(w) <= Backed(w)'
  <1>0. PICK e : e = weekly[w].epoch
    OBVIOUS
  <1> DEFINE n == weekly[w].entries
             nNow == weekly'[w].entries
             s == Slices(e)
             sNow == Slices(e)'
  <1>1. n \in Nat /\ nNow \in Nat /\ n <= nNow /\ weekly'[w].epoch = e
    BY <1>0, WeeklyEntriesAreNat DEF WeekliesGrow, WeeklyTypeOK, WeeklyTables
  <1>2. s \in Nat
    BY SlicesAreSplit
  <1>3. s <= sNow /\ sNow \in Nat
    BY SlicesGrow
  <1>4. Backed(w) = n * WeeklyFee + 2 * s /\ Backed(w)' = nNow * WeeklyFee + 2 * sNow
    BY <1>0, <1>1 DEF Backed, Slices
  <1> HIDE DEF n, nNow, s, sNow
  <1>5. n * WeeklyFee \in Nat /\ nNow * WeeklyFee \in Nat /\ n * WeeklyFee <= nNow * WeeklyFee
    BY <1>1, WeeklyConstantsAreNat, TimesIsNat, TimesGrows
  <1>6. QED
    BY <1>2, <1>3, <1>4, <1>5

-----------------------------------------------------------------------------
(* The invariant.                                                          *)

LEMMA NewWeeklies ==
  ASSUME TypesHold, SettlerIsBacked, [WeeklyNext]_weeklyVars, NEW w \in Weeklies,
         weekly'[w].status # "ABSENT", weekly[w].status = "ABSENT"
  PROVE  /\ AgentOpensWeekly
         /\ weekly'[w] = [status |-> "ACTIVE", epoch |-> agent.epoch,
                          entries |-> 0, seed |-> agent.seed]
  <1>1. weekly \in WeeklyTables
    BY DEF TypesHold, WeeklyTypeOK, WeeklyTables
  <1>2. ASSUME NEW x \in Weeklies, JoinWeekly(x) PROVE FALSE
    <2>1. weekly'[w].status = weekly[w].status
      BY <1>1, <1>2 DEF JoinWeekly, WeeklyTables
    <2>2. QED
      BY <2>1
  <1>3. ASSUME MarkWeekly PROVE FALSE
    <2>1. w # settler.weekly
      BY <1>3 DEF MarkWeekly, SettlerIsBacked, WeeklyAtHand
    <2>2. weekly'[w] = weekly[w]
      BY <1>1, <1>3, <2>1 DEF MarkWeekly, WeeklyTables
    <2>3. QED
      BY <2>2
  <1>4. CASE AgentOpensWeekly
    BY <1>1, <1>4 DEF AgentOpensWeekly, Unused, WeeklyTables
  <1>5. QED
    BY <1>2, <1>3, <1>4, WhoWrites

(* What the agent takes with it was handed over.                           *)
LEMMA AgentIsBacked ==
  ASSUME WeeklyInv, TypesHold, TypesHold', DailiesGrow, AgentStep, NEW e \in Epochs
  PROVE  /\ agent'.stage \in {"count weekly", "show weekly"} /\ agent'.epoch = e =>
              agent'.credits <= Handed(e)
         /\ agent'.stage = "open weekly" /\ agent'.epoch = e => agent'.seed <= Slices(e)
  <1>1. /\ credits[e] <= Handed(e)
        /\ agent.stage \in {"count weekly", "show weekly"} /\ agent.epoch = e =>
             agent.credits <= Handed(e)
    BY DEF WeeklyInv, EpochIsBacked
  <1>2. agent \in AgentStates
    BY DEF TypesHold, WorkersTyped
  <1>3. \A x : With(x).stage = "count weekly" => With(x).epoch = x /\ With(x).credits = credits[x]
    BY DEF With
  <1>4. \A x : With(x).stage \in {"open daily", "count weekly"}
    BY DEF With
  <1>5. CASE AgentTick
    BY <1>5 DEF AgentTick
  <1>6. CASE AgentFindsEpoch
    <2>1. CASE Active = {}
      BY <1>6, <2>1 DEF AgentFindsEpoch
    <2>2. CASE Active # {}
      <3>1. agent' = With(Max(Active))
        BY <1>6, <2>2 DEF AgentFindsEpoch
      <3>2. QED
        BY <1>1, <1>3, <1>4, <3>1
    <2>3. QED
      BY <2>1, <2>2
  <1>7. CASE AgentMakesEpoch
    <2>1. agent' = With(made')
      BY <1>7 DEF AgentMakesEpoch
    <2>2. QED
      BY <1>1, <1>3, <1>4, <2>1
  <1>8. CASE AgentOpensDaily
    BY <1>8 DEF AgentOpensDaily
  <1>9. CASE AgentCountsWeekly
    <2>1. \/ agent'.stage = "idle"
          \/ /\ agent'.stage = "show weekly"
             /\ agent'.epoch = agent.epoch /\ agent'.credits = agent.credits
      BY <1>2, <1>9 DEF AgentCountsWeekly, Resting, AgentStates
    <2>2. agent.stage = "count weekly"
      BY <1>9 DEF AgentCountsWeekly
    <2>3. QED
      BY <1>1, <2>1, <2>2
  <1>10. CASE AgentReadsDisplay
    <2>1. /\ agent'.stage = "open weekly" /\ agent'.epoch = agent.epoch
          /\ agent'.seed = agent.credits + Pending(agent.epoch)
          /\ agent.stage = "show weekly"
      BY <1>10 DEF AgentReadsDisplay
    <2>2. agent.credits \in Nat
      BY <1>2, <2>1 DEF AgentStates
    <2>3. ASSUME agent.epoch = e PROVE agent'.seed <= Slices(e)
      <3>1. agent'.seed = agent.credits + Pending(e) /\ agent.credits <= Handed(e)
        BY <1>1, <2>1, <2>3
      <3>2. /\ Slices(e) \in Nat /\ Pending(e) \in Nat /\ Handed(e) \in Nat
            /\ Handed(e) + Pending(e) <= Slices(e)
        BY SlicesAreSplit DEF TypesHold
      <3>3. QED
        BY <2>2, <3>1, <3>2
    <2>4. QED
      BY <2>1, <2>3
  <1>11. CASE AgentOpensWeekly
    BY <1>11 DEF AgentOpensWeekly, Resting
  <1>12. QED
    BY <1>5, <1>6, <1>7, <1>8, <1>9, <1>10, <1>11 DEF AgentStep

LEMMA AtMost ==
  \A i, j, k \in Nat : i <= j /\ j <= k => i <= k
  OBVIOUS

LEMMA EpochKept ==
  ASSUME WeeklyInv, TypesHold, TypesHold', DailiesGrow, WeekliesGrow, [WeeklyNext]_weeklyVars,
         NEW e \in Epochs
  PROVE  EpochIsBacked(e)'
  <1>1. /\ Slices(e) \in Nat /\ Handed(e) \in Nat /\ Slices(e)' \in Nat /\ Handed(e)' \in Nat
        /\ Slices(e) <= Slices(e)' /\ Handed(e) <= Handed(e)'
    BY SlicesAreSplit, SlicesGrow DEF TypesHold
  <1>2. EpochIsBacked(e) /\ SettlerIsBacked
    BY DEF WeeklyInv
  <1>3. /\ agent \in AgentStates /\ settler \in SettlerStates
        /\ agent' \in AgentStates /\ settler' \in SettlerStates
        /\ credits \in [Epochs -> Nat] /\ credits' \in [Epochs -> Nat]
    BY DEF TypesHold, WorkersTyped, WeeklyTypeOK
  <1>4. credits'[e] <= Handed(e)'
    <2>1. credits[e] \in Nat /\ credits[e] <= Handed(e)
      BY <1>2, <1>3 DEF EpochIsBacked
    <2>2. CASE UNCHANGED credits
      BY <1>1, <2>1, <2>2
    <2>3. CASE ResetEpoch
      <3>1. credits'[e] = credits[e] \/ credits'[e] = 0
        BY <1>3, <2>3 DEF ResetEpoch
      <3>2. QED
        BY <1>1, <2>1, <3>1
    <2>4. CASE TransferSlice
      <3>1. PICK d \in Dailies : d = settler.pool
        BY <1>3, <2>4 DEF TransferSlice, SettlerStates
      <3>2. settler.amount \in Nat
        BY <1>3, <2>4 DEF TransferSlice, SettlerStates
      <3>3. ~daily[d].contributed /\ settler.amount <= Slice(d)
        BY <1>2, <2>4, <3>1 DEF TransferSlice, SettlerIsBacked, DailyAtHand
      <3>4. CASE daily[d].epoch = e
        <4>1. credits'[e] = credits[e] + settler.amount
          BY <1>3, <2>4, <3>1, <3>4 DEF TransferSlice
        <4>2. Handed(e)' = Handed(e) + Slice(d)
          <5>1. daily' = [daily EXCEPT ![d].contributed = TRUE]
            BY <2>4, <3>1 DEF TransferSlice
          <5>2. QED
            BY <3>3, <3>4, <5>1, HandingOver DEF TypesHold
        <4>3. Slice(d) \in Nat
          BY SliceIsNat DEF TypesHold
        <4>4. QED
          BY <1>1, <2>1, <3>2, <3>3, <4>1, <4>2, <4>3
      <3>5. CASE daily[d].epoch # e
        <4>1. credits'[e] = credits[e]
          BY <1>3, <2>4, <3>1, <3>5 DEF TransferSlice
        <4>2. QED
          BY <1>1, <2>1, <4>1
      <3>6. QED
        BY <3>4, <3>5
    <2>5. QED
      BY <2>2, <2>3, <2>4, WhoWrites
  <1>5. agent'.stage \in {"count weekly", "show weekly"} /\ agent'.epoch = e =>
          agent'.credits <= Handed(e)'
    <2> HAVE agent'.stage \in {"count weekly", "show weekly"} /\ agent'.epoch = e
    <2>1. agent'.credits \in Nat
      BY <1>3 DEF AgentStates
    <2>2. ASSUME Crash PROVE FALSE
      BY <2>2 DEF Crash, Resting
    <2>3. agent'.credits <= Handed(e)
      <3>1. CASE UNCHANGED agent
        BY <1>2, <3>1 DEF EpochIsBacked
      <3>2. CASE AgentStep
        BY <3>2, AgentIsBacked
      <3>3. QED
        BY <2>2, <3>1, <3>2, WhoWrites
    <2>4. QED
      BY <1>1, <2>1, <2>3, AtMost, Zenon
  <1>6. agent'.stage = "open weekly" /\ agent'.epoch = e => agent'.seed <= Slices(e)'
    <2> HAVE agent'.stage = "open weekly" /\ agent'.epoch = e
    <2>1. agent'.seed \in Nat
      BY <1>3 DEF AgentStates
    <2>2. ASSUME Crash PROVE FALSE
      BY <2>2 DEF Crash, Resting
    <2>3. agent'.seed <= Slices(e)
      <3>1. CASE UNCHANGED agent
        BY <1>2, <3>1 DEF EpochIsBacked
      <3>2. CASE AgentStep
        BY <3>2, AgentIsBacked
      <3>3. QED
        BY <2>2, <3>1, <3>2, WhoWrites
    <2>4. QED
      BY <1>1, <2>1, <2>3, AtMost, Zenon
  <1>7. ASSUME NEW w \in Weeklies, weekly'[w].status # "ABSENT", weekly'[w].epoch = e
        PROVE  weekly'[w].seed <= Slices(e)'
    <2>1. weekly \in WeeklyTables /\ weekly' \in WeeklyTables
      BY DEF TypesHold, WeeklyTypeOK, WeeklyTables
    <2>2. weekly'[w].seed \in Nat
      BY <2>1, WeeklyEntriesAreNat
    <2>3. weekly'[w].seed <= Slices(e)
      <3>1. CASE weekly[w].status # "ABSENT"
        BY <1>2, <1>7, <3>1 DEF WeekliesGrow, EpochIsBacked
      <3>2. CASE weekly[w].status = "ABSENT"
        <4>1. AgentOpensWeekly /\ weekly'[w].epoch = agent.epoch /\ weekly'[w].seed = agent.seed
          BY <1>2, <1>7, <3>2, NewWeeklies
        <4>2. QED
          BY <1>2, <1>7, <4>1 DEF AgentOpensWeekly, EpochIsBacked
      <3>3. QED
        BY <3>1, <3>2
    <2>4. QED
      BY <1>1, <2>2, <2>3
  <1>8. ASSUME NEW w \in Weeklies, weekly'[w].status # "ABSENT", weekly'[w].epoch = e,
               settler'.stage = "display", settler'.weekly = w
        PROVE  /\ settler'.pool <= weekly'[w].entries * WeeklyFee + Slices(e)'
               /\ settler'.shown <= Handed(e)'
    <2>1. weekly \in WeeklyTables /\ weekly' \in WeeklyTables
      BY DEF TypesHold, WeeklyTypeOK, WeeklyTables
    <2>2. /\ weekly[w].entries \in Nat /\ weekly'[w].entries \in Nat /\ weekly[w].seed \in Nat
      BY <2>1, WeeklyEntriesAreNat
    <2>3. settler'.pool \in Nat /\ settler'.shown \in Nat
      BY <1>3, <1>8 DEF SettlerStates
    <2>4. ASSUME Crash \/ SettlerStep \/ \E d \in Dailies : MarkDaily(d)
          PROVE  FALSE
      <3>1. settler'.stage # "display"
        <4>1. CASE Crash
          BY <4>1 DEF Crash, Resting
        <4>2. CASE \E d \in Dailies : MarkDaily(d)
          BY <4>2 DEF MarkDaily
        <4>3. CASE ReadSlice \/ TransferSlice \/ ResetEpoch
          BY <4>3 DEF ReadSlice, TransferSlice, ResetEpoch, Resting
        <4>4. CASE ReadDisplay \/ ListEntrants \/ PayWeekly
          BY <4>4 DEF ReadDisplay, ListEntrants, PayWeekly, PayFrom
        <4>5. CASE MarkWeekly
          BY <1>3, <4>5 DEF MarkWeekly, SettlerStates
        <4>6. QED
          BY <2>4, <4>1, <4>2, <4>3, <4>4, <4>5 DEF SettlerStep
      <3>2. QED
        BY <1>8, <3>1
    <2>5. /\ weekly[w].status # "ABSENT"
          /\ settler'.pool <= weekly[w].entries * WeeklyFee + Slices(e)
          /\ settler'.shown <= Handed(e)
          /\ weekly[w].epoch = e
      <3>1. CASE UNCHANGED settler
        <4>1. weekly[w].status # "ABSENT"
          BY <1>2, <1>8, <3>1 DEF SettlerIsBacked, WeeklyAtHand
        <4>2. weekly[w].epoch = e
          BY <1>8, <4>1 DEF WeekliesGrow
        <4>3. QED
          BY <1>2, <1>8, <3>1, <4>1, <4>2 DEF EpochIsBacked
      <3>2. CASE \E x \in Weeklies : ReadWeekly(x)
        <4>1. PICK x \in Weeklies : ReadWeekly(x)
          BY <3>2
        <4>2. x = w
          BY <1>8, <4>1 DEF ReadWeekly
        <4>3. /\ settler'.pool = weekly[w].seed + weekly[w].entries * WeeklyFee
              /\ settler'.shown = credits[weekly[w].epoch]
              /\ UNCHANGED weekly /\ weekly[w].status = "ACTIVE"
          BY <4>1, <4>2 DEF ReadWeekly, RewardPool
        <4>4. weekly[w].epoch = e
          BY <1>8, <4>3
        <4>5. weekly[w].seed <= Slices(e) /\ credits[e] <= Handed(e)
          BY <1>2, <4>3, <4>4 DEF EpochIsBacked
        <4>6. weekly[w].entries * WeeklyFee \in Nat
          BY <2>2, WeeklyConstantsAreNat, TimesIsNat
        <4>7. QED
          BY <1>1, <2>2, <4>3, <4>4, <4>5, <4>6
      <3>3. QED
        BY <2>4, <3>1, <3>2, WhoWrites
    <2>6. /\ weekly[w].entries <= weekly'[w].entries
      BY <2>5 DEF WeekliesGrow
    <2>7. /\ weekly[w].entries * WeeklyFee <= weekly'[w].entries * WeeklyFee
          /\ weekly[w].entries * WeeklyFee \in Nat /\ weekly'[w].entries * WeeklyFee \in Nat
      BY <2>2, <2>6, WeeklyConstantsAreNat, TimesIsNat, TimesGrows
    <2>8. QED
      BY <1>1, <2>3, <2>5, <2>7
  <1>9. QED
    BY <1>4, <1>5, <1>6, <1>7, <1>8 DEF EpochIsBacked

LEMMA DailyKept ==
  ASSUME TypesHold, TypesHold', SettlerIsBacked, DailiesGrow, [WeeklyNext]_weeklyVars,
         NEW d \in Dailies
  PROVE  DailyAtHand(d)'
  <1>1. daily \in DailyTables /\ settler \in SettlerStates /\ settler' \in SettlerStates
    BY DEF TypesHold, WorkersTyped, WeeklyTypeOK, DailyTables
  <1>2. DailyAtHand(d)
    BY DEF SettlerIsBacked
  <1> SUFFICES ASSUME settler'.stage \in {"contribute", "transfer"}, settler'.pool = d
               PROVE  /\ daily'[d].status = "SETTLED"
                      /\ settler'.stage = "transfer" =>
                           ~daily'[d].contributed /\ settler'.amount <= Slice(d)'
    BY DEF DailyAtHand
  <1>3. ASSUME Crash \/ TransferSlice \/ ReadDisplay \/ ListEntrants \/ PayWeekly \/ MarkWeekly
               \/ ResetEpoch \/ \E w \in Weeklies : ReadWeekly(w)
        PROVE  FALSE
    <2>1. settler'.stage \notin {"contribute", "transfer"}
      <3>1. CASE Crash \/ TransferSlice \/ ResetEpoch
        BY <3>1 DEF Crash, TransferSlice, ResetEpoch, Resting
      <3>2. CASE ReadDisplay \/ ListEntrants \/ PayWeekly
        BY <3>2 DEF ReadDisplay, ListEntrants, PayWeekly, PayFrom
      <3>3. CASE MarkWeekly
        BY <1>1, <3>3 DEF MarkWeekly, SettlerStates
      <3>4. CASE \E w \in Weeklies : ReadWeekly(w)
        BY <3>4 DEF ReadWeekly
      <3>5. QED
        BY <1>3, <3>1, <3>2, <3>3, <3>4
    <2>2. QED
      BY <2>1
  <1>4. CASE \E x \in Dailies : MarkDaily(x)
    <2>1. PICK x \in Dailies : MarkDaily(x)
      BY <1>4
    <2>2. x = d /\ settler'.stage = "contribute"
      BY <2>1 DEF MarkDaily
    <2>3. daily'[d].status = "SETTLED"
      BY <1>1, <2>1, <2>2 DEF MarkDaily, DailyTables
    <2>4. QED
      BY <2>2, <2>3
  <1>5. CASE ReadSlice
    <2>1. UNCHANGED daily /\ settler.pool = d /\ settler.stage = "contribute"
          /\ ~daily[d].contributed /\ settler'.amount = Slice(d)
      BY <1>5 DEF ReadSlice, Resting
    <2>2. Slice(d)' = Slice(d) /\ Slice(d) \in Nat
      BY <2>1, SliceIsNat DEF Slice, TypesHold
    <2>3. QED
      BY <1>2, <2>1, <2>2 DEF DailyAtHand
  <1>6. CASE UNCHANGED settler
    <2>1. /\ daily[d].status = "SETTLED"
          /\ settler.stage = "transfer" => ~daily[d].contributed /\ settler.amount <= Slice(d)
      BY <1>2, <1>6 DEF DailyAtHand
    <2>2. daily'[d].status = daily[d].status /\ daily'[d].contributed = daily[d].contributed
      <3>1. ASSUME NEW x \in Dailies, MarkDaily(x) PROVE FALSE
        BY <1>6, <3>1 DEF MarkDaily
      <3>2. CASE \E x \in Dailies : JoinDaily(x)
        BY <1>1, <3>2 DEF JoinDaily, DailyTables
      <3>3. CASE AgentOpensDaily
        BY <1>1, <2>1, <3>3 DEF AgentOpensDaily, Unused, DailyTables
      <3>4. QED
        BY <1>3, <3>1, <3>2, <3>3, WhoWrites
    <2>3. Slice(d) \in Nat /\ Slice(d)' \in Nat /\ Slice(d) <= Slice(d)'
      <3>1. daily[d].entries \in Nat /\ daily'[d].entries \in Nat
        BY EntriesAreNat DEF TypesHold, WeeklyTypeOK, DailyTables
      <3>2. QED
        BY <3>1, ShareIsNat, TimesIsNat, TimesGrows DEF Slice, DailiesGrow
    <2>4. settler'.stage = "transfer" => settler'.amount <= Slice(d)'
      <3>1. HAVE settler'.stage = "transfer"
      <3>2. settler.amount \in Nat /\ settler.amount <= Slice(d) /\ settler'.amount = settler.amount
        BY <1>1, <1>6, <2>1, <3>1 DEF SettlerStates
      <3>3. QED
        BY <2>3, <3>2
    <2>5. QED
      BY <1>6, <2>1, <2>2, <2>4
  <1>7. QED
    BY <1>3, <1>4, <1>5, <1>6, WhoWrites DEF SettlerStep

LEMMA WeeklyKept ==
  ASSUME WeeklyInv, TypesHold, TypesHold', DailiesGrow, WeekliesGrow, [WeeklyNext]_weeklyVars,
         NEW w \in Weeklies
  PROVE  WeeklyAtHand(w)'
  <1> DEFINE Busy == {"display", "list", "pay", "mark", "reset"}
  <1>1. weekly \in WeeklyTables /\ settler \in SettlerStates /\ settler' \in SettlerStates
    BY DEF TypesHold, WorkersTyped, WeeklyTypeOK, WeeklyTables
  <1>2. SettlerIsBacked /\ WeeklyAtHand(w)
    BY DEF WeeklyInv, SettlerIsBacked
  <1> SUFFICES ASSUME settler'.stage \in Busy, settler'.weekly = w
               PROVE  /\ weekly'[w].status = IF settler'.stage = "reset" THEN "SETTLED"
                                             ELSE "ACTIVE"
                      /\ settler'.stage \in {"list", "pay"} => settler'.pool <= Backed(w)'
                      /\ settler'.stage = "pay" => settler'.rank >= 1
    BY DEF WeeklyAtHand
  <1>3. ASSUME Crash \/ ReadSlice \/ TransferSlice \/ ResetEpoch \/ \E d \in Dailies : MarkDaily(d)
        PROVE  FALSE
    <2>1. settler'.stage \notin Busy
      <3>1. CASE Crash \/ ReadSlice \/ TransferSlice \/ ResetEpoch
        BY <3>1 DEF Crash, ReadSlice, TransferSlice, ResetEpoch, Resting
      <3>2. CASE \E d \in Dailies : MarkDaily(d)
        BY <3>2 DEF MarkDaily
      <3>3. QED
        BY <1>3, <3>1, <3>2
    <2>2. QED
      BY <2>1
  (* What is backed stays backed.                                          *)
  <1>4. ASSUME weekly[w].status # "ABSENT", NEW pool \in Nat, pool <= Backed(w)
        PROVE  pool <= Backed(w)'
    <2>1. Backed(w) \in Nat /\ Backed(w)' \in Nat /\ Backed(w) <= Backed(w)'
      BY <1>4, BackedGrows DEF TypesHold
    <2>2. QED
      BY <1>4, <2>1, AtMost, Zenon
  <1>5. CASE UNCHANGED settler
    <2>1. weekly[w].status = IF settler.stage = "reset" THEN "SETTLED" ELSE "ACTIVE"
      BY <1>2, <1>5 DEF WeeklyAtHand
    <2>2. weekly'[w].status = weekly[w].status
      <3>1. ASSUME MarkWeekly PROVE FALSE
        <4>1. settler.stage = "mark" /\ settler'.stage = "reset"
          BY <1>1, <3>1 DEF MarkWeekly, SettlerStates
        <4>2. QED
          BY <1>5, <4>1
      <3>2. CASE \E x \in Weeklies : JoinWeekly(x)
        BY <1>1, <3>2 DEF JoinWeekly, WeeklyTables
      <3>3. CASE AgentOpensWeekly
        BY <1>1, <2>1, <3>3 DEF AgentOpensWeekly, Unused, WeeklyTables
      <3>4. QED
        BY <3>1, <3>2, <3>3, WhoWrites
    <2>3. settler'.stage \in {"list", "pay"} => settler'.pool <= Backed(w)'
      <3>1. HAVE settler'.stage \in {"list", "pay"}
      <3>2. settler.pool \in Nat /\ settler.pool <= Backed(w) /\ settler'.pool = settler.pool
        BY <1>1, <1>2, <1>5, <3>1 DEF WeeklyAtHand, SettlerStates
      <3>3. QED
        BY <1>4, <2>1, <3>2
    <2>4. QED
      BY <1>2, <1>5, <2>1, <2>2, <2>3 DEF WeeklyAtHand
  <1>6. CASE \E x \in Weeklies : ReadWeekly(x)
    <2>1. PICK x \in Weeklies : ReadWeekly(x)
      BY <1>6
    <2>2. x = w /\ settler'.stage = "display" /\ UNCHANGED weekly /\ weekly[x].status = "ACTIVE"
      BY <2>1 DEF ReadWeekly
    <2>3. QED
      BY <2>2
  <1>7. CASE ReadDisplay
    <2>1. /\ settler.stage = "display" /\ settler.weekly = w /\ settler'.stage = "list"
          /\ UNCHANGED weekly
          /\ settler'.pool = settler.pool + settler.shown + Pending(weekly[w].epoch)
      BY <1>7 DEF ReadDisplay
    <2>2. weekly[w].status = "ACTIVE"
      BY <1>2, <2>1 DEF WeeklyAtHand
    <2>3. PICK e \in Epochs : e = weekly[w].epoch
      BY <2>2 DEF TypesHold, PoolsTyped
    <2>4. /\ settler.pool <= weekly[w].entries * WeeklyFee + Slices(e)
          /\ settler.shown <= Handed(e)
      BY <2>1, <2>2, <2>3 DEF WeeklyInv, EpochIsBacked
    <2>5. /\ Slices(e) \in Nat /\ Pending(e) \in Nat /\ Handed(e) \in Nat
          /\ Handed(e) + Pending(e) <= Slices(e)
      BY SlicesAreSplit DEF TypesHold
    <2>6. settler.pool \in Nat /\ settler.shown \in Nat
      BY <1>1, <2>1 DEF SettlerStates
    <2>7. PICK n \in Nat : n = weekly[w].entries * WeeklyFee
      BY <1>1, WeeklyEntriesAreNat, WeeklyConstantsAreNat, TimesIsNat
    <2>8. Backed(w) = n + 2 * Slices(e)
      BY <2>3, <2>7 DEF Backed
    <2>9. settler'.pool = settler.pool + settler.shown + Pending(e)
      BY <2>1, <2>3
    <2>10. settler'.pool \in Nat /\ settler'.pool <= Backed(w)
      BY <2>4, <2>5, <2>6, <2>7, <2>8, <2>9
    <2>11. QED
      BY <1>4, <2>1, <2>2, <2>10
  <1>8. CASE ListEntrants
    <2>1. /\ settler.stage = "list" /\ settler.weekly = w /\ UNCHANGED weekly
          /\ \/ settler'.stage = "mark"
             \/ /\ settler'.stage = "pay"
                /\ settler'.pool = settler.pool /\ settler'.rank = 1
      BY <1>8 DEF ListEntrants, PayFrom
    <2>2. weekly[w].status = "ACTIVE" /\ settler.pool <= Backed(w)
      BY <1>2, <2>1 DEF WeeklyAtHand
    <2>3. settler.pool \in Nat
      BY <1>1, <2>1 DEF SettlerStates
    <2>4. QED
      BY <1>4, <2>1, <2>2, <2>3
  <1>9. CASE PayWeekly
    <2>1. /\ settler.stage = "pay" /\ settler.weekly = w /\ UNCHANGED weekly
          /\ \/ settler'.stage = "mark"
             \/ /\ settler'.stage = "pay" /\ settler'.pool = settler.pool
                /\ settler'.rank = settler.rank + 1
      BY <1>9 DEF PayWeekly, PayFrom
    <2>2. weekly[w].status = "ACTIVE" /\ settler.pool <= Backed(w) /\ settler.rank >= 1
      BY <1>2, <2>1 DEF WeeklyAtHand
    <2>3. settler.pool \in Nat /\ settler.rank \in Nat
      BY <1>1, <2>1 DEF SettlerStates
    <2>4. settler.rank + 1 >= 1
      BY <2>2, <2>3
    <2>5. QED
      BY <1>4, <2>1, <2>2, <2>3, <2>4
  <1>10. CASE MarkWeekly
    <2>1. settler'.stage = "reset" /\ settler.weekly = w
      BY <1>1, <1>10 DEF MarkWeekly, SettlerStates
    <2>2. weekly'[w].status = "SETTLED"
      BY <1>1, <1>10, <2>1 DEF MarkWeekly, WeeklyTables
    <2>3. QED
      BY <2>1, <2>2
  <1>11. QED
    BY <1>3, <1>5, <1>6, <1>7, <1>8, <1>9, <1>10, WhoWrites DEF SettlerStep

(* The prizes of the ranks before a rank, one rank after the other.        *)
LEMMA NextPrize ==
  ASSUME NEW pool \in Nat, NEW rank \in Nat, rank >= 1
  PROVE  /\ PaidBefore(rank, pool) \in Nat /\ PaidBefore(rank, pool) <= pool
         /\ PaidBefore(rank + 1, pool) = PaidBefore(rank, pool) + ComputeWeeklyReward(rank, pool)
  <1> DEFINE a == Podium(1, pool)
             b == Podium(2, pool)
             c == Podium(3, pool)
             r == RunnerUp(pool)
  <1>1. a \in Nat /\ b \in Nat /\ c \in Nat
    BY DEF Podium, WeeklyShare
  <1>2. r \in Nat /\ a + b + c + 7 * r <= pool
    BY WeeklyPrizesFitPool DEF PodiumTotal, RunnerUpSlots
  <1>3. pool = 0 => a = 0 /\ b = 0 /\ c = 0 /\ r = 0
    BY <1>1, <1>2
  <1>4. ComputeWeeklyReward(rank, pool) =
          IF rank = 1 THEN a ELSE IF rank = 2 THEN b ELSE IF rank = 3 THEN c
          ELSE IF rank \in 4 .. 10 THEN r ELSE 0
    <2>1. CASE pool = 0
      <3>1. ComputeWeeklyReward(rank, pool) = 0
        BY <2>1 DEF ComputeWeeklyReward
      <3>2. QED
        BY <1>3, <2>1, <3>1
    <2>2. CASE pool > 0
      <3>1. CASE rank \in 1 .. 3
        <4>1. ComputeWeeklyReward(rank, pool) = Podium(rank, pool)
          BY <2>2, <3>1 DEF ComputeWeeklyReward
        <4>2. rank = 1 \/ rank = 2 \/ rank = 3
          BY <3>1
        <4>3. QED
          BY <4>1, <4>2
      <3>2. CASE rank \in 4 .. 10
        <4>1. ComputeWeeklyReward(rank, pool) = r
          BY <2>2, <3>2 DEF ComputeWeeklyReward
        <4>2. QED
          BY <3>2, <4>1
      <3>3. CASE rank > 10
        <4>1. ComputeWeeklyReward(rank, pool) = 0
          BY <2>2, <3>3 DEF ComputeWeeklyReward
        <4>2. QED
          BY <3>3, <4>1
      <3>4. QED
        BY <3>1, <3>2, <3>3
    <2>3. QED
      BY <2>1, <2>2
  <1>5. \A n \in Nat : PaidBefore(n, pool) =
          (IF n > 1 THEN a ELSE 0) + (IF n > 2 THEN b ELSE 0)
          + (IF n > 3 THEN c ELSE 0) + SlotsBefore(n) * r
    BY DEF PaidBefore
  <1> HIDE DEF a, b, c, r
  <1>6. CASE rank <= 3
    <2>1. SlotsBefore(rank) = 0 /\ SlotsBefore(rank + 1) = 0
      BY <1>6 DEF SlotsBefore
    <2>2. rank = 1 \/ rank = 2 \/ rank = 3
      BY <1>6
    <2>3. 0 * r = 0
      BY <1>2
    <2>4. QED
      BY <1>1, <1>2, <1>4, <1>5, <2>1, <2>2, <2>3
  <1>7. CASE rank \in 4 .. 10
    <2>1. SlotsBefore(rank) = rank - 4 /\ SlotsBefore(rank + 1) = rank - 3
      BY <1>7 DEF SlotsBefore, RunnerUpSlots
    <2>2. /\ (rank - 3) * r = (rank - 4) * r + r
          /\ (rank - 4) * r \in Nat /\ (rank - 4) * r <= 7 * r
      <3>1. rank = 4 \/ rank = 5 \/ rank = 6 \/ rank = 7 \/ rank = 8 \/ rank = 9 \/ rank = 10
        BY <1>7
      <3>2. QED
        BY <1>2, <3>1
    <2>3. /\ PaidBefore(rank, pool) = a + b + c + (rank - 4) * r
          /\ PaidBefore(rank + 1, pool) = a + b + c + (rank - 3) * r
      BY <1>5, <1>7, <2>1
    <2>4. ComputeWeeklyReward(rank, pool) = r
      BY <1>4, <1>7
    <2>5. PICK m \in Nat : m = (rank - 4) * r
      BY <2>2
    <2>6. QED
      BY <1>1, <1>2, <2>2, <2>3, <2>4, <2>5
  <1>8. CASE rank > 10
    <2>1. SlotsBefore(rank) = 7 /\ SlotsBefore(rank + 1) = 7
      BY <1>8 DEF SlotsBefore, RunnerUpSlots
    <2>2. /\ PaidBefore(rank, pool) = a + b + c + 7 * r
          /\ PaidBefore(rank + 1, pool) = a + b + c + 7 * r
      BY <1>5, <1>8, <2>1
    <2>3. ComputeWeeklyReward(rank, pool) = 0
      BY <1>4, <1>8
    <2>4. QED
      BY <1>1, <1>2, <2>2, <2>3
  <1>9. QED
    BY <1>6, <1>7, <1>8

LEMMA BackedIsNat ==
  ASSUME WeeklyTypeOK, NEW w \in Weeklies
  PROVE  Backed(w) \in Nat
  <1>1. weekly[w].entries \in Nat /\ Slices(weekly[w].epoch) \in Nat
    BY WeeklyEntriesAreNat, SlicesAreSplit DEF WeeklyTypeOK, WeeklyTables
  <1>2. weekly[w].entries * WeeklyFee \in Nat
    BY <1>1, WeeklyConstantsAreNat, TimesIsNat
  <1>3. QED
    BY <1>1, <1>2 DEF Backed

LEMMA BackedStaysNat ==
  ASSUME WeeklyTypeOK, WeeklyTypeOK', DailiesGrow, NEW w \in Weeklies
  PROVE  Backed(w) \in Nat /\ Backed(w)' \in Nat
  <1>1. PICK e : e = weekly'[w].epoch
    OBVIOUS
  <1>2. weekly[w].entries \in Nat /\ weekly'[w].entries \in Nat
    BY WeeklyEntriesAreNat DEF WeeklyTypeOK, WeeklyTables
  <1>3. Slices(weekly[w].epoch) \in Nat /\ Slices(e)' \in Nat
    BY SlicesAreSplit, SlicesGrow
  <1>4. /\ Backed(w) = weekly[w].entries * WeeklyFee + 2 * Slices(weekly[w].epoch)
        /\ Backed(w)' = weekly'[w].entries * WeeklyFee + 2 * Slices(e)'
    BY <1>1 DEF Backed, Slices
  <1>5. weekly[w].entries * WeeklyFee \in Nat /\ weekly'[w].entries * WeeklyFee \in Nat
    BY <1>2, WeeklyConstantsAreNat, TimesIsNat
  <1>6. QED
    BY <1>3, <1>4, <1>5

(* A bound on what was paid holds as what backs it grows, and one more     *)
(* failure allows one more payment of it all.                              *)
LEMMA BoundGrows ==
  ASSUME NEW p \in Nat, NEW f \in Nat, NEW b \in Nat, NEW u \in Nat, NEW c \in Nat, NEW v \in Nat,
         p <= f * b + u, b <= c, u <= v
  PROVE  p <= f * c + v
  <1>1. f * b \in Nat /\ f * c \in Nat /\ f * b <= f * c
    <2>1. f * b = b * f /\ f * c = c * f
      OBVIOUS
    <2>2. QED
      BY <2>1, TimesIsNat, TimesGrows
  <1>2. PICK i \in Nat : i = f * b
    BY <1>1
  <1>3. PICK j \in Nat : j = f * c
    BY <1>1
  <1>4. QED
    BY <1>1, <1>2, <1>3

LEMMA OneMoreFailure ==
  ASSUME NEW p \in Nat, NEW f \in Nat, NEW b \in Nat, NEW u \in Nat, p <= f * b + u, u <= b
  PROVE  p <= (f + 1) * b
  <1>1. (f + 1) * b = f * b + b /\ f * b \in Nat
    BY TimesIsNat
  <1>2. PICK i \in Nat : i = f * b
    BY <1>1
  <1>3. QED
    BY <1>1, <1>2

(* What is under way is a part of what is backed.                          *)
LEMMA UnderWayIsBacked ==
  ASSUME WeeklyTypeOK, settler \in SettlerStates, NEW w \in Weeklies, WeeklyAtHand(w),
         Backed(w) \in Nat
  PROVE  UnderWay(w) \in Nat /\ UnderWay(w) <= Backed(w)
  <1>1. CASE settler.stage = "pay" /\ settler.weekly = w
    <2>1. settler.pool \in Nat /\ settler.rank \in Nat
      BY <1>1 DEF SettlerStates
    <2>2. settler.pool <= Backed(w) /\ settler.rank >= 1
      BY <1>1 DEF WeeklyAtHand
    <2>3. /\ PaidBefore(settler.rank, settler.pool) \in Nat
          /\ PaidBefore(settler.rank, settler.pool) <= settler.pool
      BY <2>1, <2>2, NextPrize
    <2>4. PaidBefore(settler.rank, settler.pool) <= Backed(w)
      BY <2>1, <2>2, <2>3, AtMost, Zenon
    <2>5. QED
      BY <1>1, <2>3, <2>4 DEF UnderWay
  <1>2. CASE settler.stage = "mark" /\ settler.weekly = w
    BY <1>2 DEF UnderWay
  <1>3. CASE ~(settler.stage \in {"pay", "mark"} /\ settler.weekly = w)
    BY <1>3 DEF UnderWay
  <1>4. QED
    BY <1>1, <1>2, <1>3

LEMMA PaymentKept ==
  ASSUME WeeklyInv, TypesHold, TypesHold', DailiesGrow, WeekliesGrow, [WeeklyNext]_weeklyVars,
         NEW w \in Weeklies, WeeklyAtHand(w)', UnderWay(w)' \in Nat
  PROVE  PaymentIsBacked(w)'
  <1>1. /\ weekly \in WeeklyTables /\ weekly' \in WeeklyTables
        /\ settler \in SettlerStates /\ settler' \in SettlerStates
        /\ paid \in [Weeklies -> Nat] /\ paid' \in [Weeklies -> Nat]
    BY DEF TypesHold, WorkersTyped, WeeklyTypeOK, WeeklyTables
  <1>2. failures \in Nat /\ failures' \in Nat
    <2>1. failures \in 0 .. MaxFailures /\ failures' \in 0 .. MaxFailures
      BY DEF TypesHold, WeeklyTypeOK
    <2>2. QED
      BY <2>1, WeeklyConstantsAreNat
  <1>3. SettlerIsBacked /\ WeeklyAtHand(w) /\ PaymentIsBacked(w)
    BY DEF WeeklyInv, SettlerIsBacked
  <1>4. Backed(w) \in Nat /\ Backed(w)' \in Nat
    BY BackedStaysNat DEF TypesHold
  <1>5. weekly[w].status # "ABSENT" => Backed(w) <= Backed(w)'
    BY BackedGrows DEF TypesHold
  <1>6. UnderWay(w) \in Nat /\ UnderWay(w) <= Backed(w)
    BY <1>1, <1>3, <1>4, UnderWayIsBacked DEF TypesHold
  <1>7. paid[w] \in Nat /\ paid'[w] \in Nat
    BY <1>1
  <1>8. failures * Backed(w) \in Nat /\ failures' * Backed(w)' \in Nat
    BY <1>2, <1>4, TimesIsNat
  <1>9. paid'[w] = paid[w] \/ (PayWeekly /\ settler.weekly = w)
    <2>1. CASE PayWeekly /\ settler.weekly # w
      BY <1>1, <2>1 DEF PayWeekly
    <2>2. CASE UNCHANGED paid
      BY <2>2
    <2>3. QED
      BY <2>1, <2>2, WhoWrites
  <1>10. CASE weekly[w].status = "ABSENT"
    <2>1. paid[w] = 0
      BY <1>10 DEF TypesHold, PoolsTyped
    <2>2. ~(PayWeekly /\ settler.weekly = w)
      BY <1>3, <1>10 DEF PayWeekly, WeeklyAtHand
    <2>3. paid'[w] = 0
      BY <1>9, <2>1, <2>2
    <2>4. QED
      BY <1>4, <1>8, <2>3 DEF PaymentIsBacked
  <1>11. CASE Crash
    <2>1. /\ UNCHANGED <<weekly, paid, daily>> /\ failures' = failures + 1
          /\ UnderWay(w)' = 0
      BY <1>11 DEF Crash, UnderWay, Resting
    <2>2. Backed(w)' = Backed(w)
      BY <2>1 DEF Backed, Slices, Slice
    <2>3. weekly[w].status = "ACTIVE" => paid[w] <= (failures + 1) * Backed(w)
      BY <1>2, <1>3, <1>4, <1>6, <1>7, OneMoreFailure DEF PaymentIsBacked
    <2>4. weekly[w].status = "SETTLED" => paid[w] <= (failures + 1) * Backed(w)
      BY <1>2, <1>3, <1>4, <1>7, OneMoreFailure DEF PaymentIsBacked
    <2>5. PICK b \in Nat : b = (failures + 1) * Backed(w)
      BY <1>8, <2>1, <2>2
    <2>6. failures' * Backed(w)' = b
      BY <2>1, <2>2, <2>5
    <2>7. /\ weekly'[w].status = "ACTIVE" => paid'[w] <= b + UnderWay(w)'
          /\ weekly'[w].status = "SETTLED" => paid'[w] <= b + Backed(w)'
      BY <1>4, <1>7, <2>1, <2>2, <2>3, <2>4, <2>5
    <2>8. QED
      BY <2>6, <2>7 DEF PaymentIsBacked
  <1>12. CASE PayWeekly /\ settler.weekly = w
    <2> DEFINE pool == settler.pool
               rank == settler.rank
    <2>1. settler.stage = "pay" /\ pool \in Nat /\ rank \in Nat
      BY <1>1, <1>12 DEF PayWeekly, SettlerStates
    <2>2. weekly[w].status = "ACTIVE" /\ pool <= Backed(w) /\ rank >= 1
      BY <1>3, <1>12, <2>1 DEF WeeklyAtHand
    <2>3. /\ UNCHANGED <<weekly, daily, failures>>
          /\ paid'[w] = paid[w] + ComputeWeeklyReward(rank, pool)
      BY <1>1, <1>12 DEF PayWeekly, SettlerElse
    <2>4. Backed(w)' = Backed(w)
      BY <2>3 DEF Backed, Slices, Slice
    <2>5. UnderWay(w) = PaidBefore(rank, pool)
      BY <1>12, <2>1 DEF UnderWay
    <2>6. \/ settler' = [stage |-> "mark", weekly |-> w]
          \/ settler' = [stage |-> "pay", weekly |-> w, pool |-> pool, rank |-> rank + 1,
                         players |-> settler.players]
      BY <1>12 DEF PayWeekly, PayFrom
    <2>7. UnderWay(w)' = Backed(w) \/ UnderWay(w)' = PaidBefore(rank + 1, pool)
      <3>1. CASE settler' = [stage |-> "mark", weekly |-> w]
        BY <2>4, <3>1 DEF UnderWay
      <3>2. CASE settler' = [stage |-> "pay", weekly |-> w, pool |-> pool, rank |-> rank + 1,
                             players |-> settler.players]
        BY <3>2 DEF UnderWay
      <3>3. QED
        BY <2>6, <3>1, <3>2
    <2> HIDE DEF pool, rank
    <2>8. /\ PaidBefore(rank + 1, pool) = PaidBefore(rank, pool) + ComputeWeeklyReward(rank, pool)
          /\ PaidBefore(rank + 1, pool) <= pool
          /\ PaidBefore(rank, pool) \in Nat /\ ComputeWeeklyReward(rank, pool) \in Nat
      <3>1. rank + 1 \in Nat /\ rank + 1 >= 1
        BY <2>1
      <3>2. QED
        BY <2>1, <2>2, <3>1, NextPrize, RewardIsNat
    <2>9. paid[w] <= failures * Backed(w) + PaidBefore(rank, pool)
      BY <1>3, <2>2, <2>5 DEF PaymentIsBacked
    <2>10. PICK b \in Nat : b = failures * Backed(w)
      BY <1>8
    <2>11. paid'[w] <= b + PaidBefore(rank + 1, pool)
      BY <1>7, <2>3, <2>8, <2>9, <2>10
    <2>12. PaidBefore(rank + 1, pool) \in Nat /\ PaidBefore(rank + 1, pool) <= Backed(w)
      BY <1>4, <2>1, <2>2, <2>8
    <2>13. paid'[w] <= b + UnderWay(w)'
      BY <1>4, <1>7, <2>7, <2>10, <2>11, <2>12
    <2>14. weekly'[w].status = "ACTIVE" /\ failures' * Backed(w)' = b
      BY <2>2, <2>3, <2>4, <2>10
    <2>15. QED
      BY <2>13, <2>14 DEF PaymentIsBacked
  <1>13. CASE MarkWeekly /\ settler.weekly = w
    <2>1. settler.stage = "mark" /\ UNCHANGED <<paid, failures>>
      BY <1>13 DEF MarkWeekly, SettlerElse
    <2>2. UnderWay(w) = Backed(w) /\ weekly[w].status = "ACTIVE"
      BY <1>3, <1>13, <2>1 DEF UnderWay, WeeklyAtHand
    <2>3. weekly'[w].status = "SETTLED"
      BY <1>1, <1>13 DEF MarkWeekly, WeeklyTables
    <2>4. paid[w] <= failures * Backed(w) + Backed(w)
      BY <1>3, <2>2 DEF PaymentIsBacked
    <2>5. paid[w] <= failures * Backed(w)' + Backed(w)'
      BY <1>2, <1>4, <1>5, <1>7, <2>2, <2>4, BoundGrows
    <2>6. QED
      BY <2>1, <2>3, <2>5 DEF PaymentIsBacked
  <1>14. CASE /\ weekly[w].status # "ABSENT" /\ ~Crash
              /\ ~(PayWeekly /\ settler.weekly = w) /\ ~(MarkWeekly /\ settler.weekly = w)
    <2>1. failures' = failures /\ paid'[w] = paid[w]
      BY <1>9, <1>14, WhoWrites
    <2>2. weekly'[w].status = weekly[w].status
      <3>1. CASE \E x \in Weeklies : JoinWeekly(x)
        BY <1>1, <3>1 DEF JoinWeekly, WeeklyTables
      <3>2. CASE AgentOpensWeekly
        BY <1>1, <1>14, <3>2 DEF AgentOpensWeekly, Unused, WeeklyTables
      <3>3. CASE MarkWeekly
        BY <1>1, <1>14, <3>3 DEF MarkWeekly, WeeklyTables
      <3>4. QED
        BY <3>1, <3>2, <3>3, WhoWrites
    <2>3. UnderWay(w) <= UnderWay(w)'
      <3>1. CASE UNCHANGED settler
        <4>1. CASE settler.stage = "pay" /\ settler.weekly = w
          <5>1. UnderWay(w)' = UnderWay(w)
            BY <3>1, <4>1 DEF UnderWay
          <5>2. QED
            BY <1>6, <5>1
        <4>2. CASE settler.stage = "mark" /\ settler.weekly = w
          <5>1. UnderWay(w)' = Backed(w)' /\ UnderWay(w) = Backed(w)
            BY <3>1, <4>2 DEF UnderWay
          <5>2. QED
            BY <1>5, <1>14, <5>1
        <4>3. CASE ~(settler.stage \in {"pay", "mark"} /\ settler.weekly = w)
          <5>1. UnderWay(w) = 0
            BY <4>3 DEF UnderWay
          <5>2. QED
            BY <5>1
        <4>4. QED
          BY <4>1, <4>2, <4>3
      <3>2. CASE SettlerStep \/ (\E d \in Dailies : MarkDaily(d))
                 \/ (\E x \in Weeklies : ReadWeekly(x))
        <4>1. ~(settler.stage \in {"pay", "mark"} /\ settler.weekly = w)
          BY <1>14, <3>2 DEF SettlerStep, ReadSlice, TransferSlice, ReadDisplay, ListEntrants,
                             PayWeekly, MarkWeekly, ResetEpoch, MarkDaily, ReadWeekly
        <4>2. UnderWay(w) = 0
          BY <4>1 DEF UnderWay
        <4>3. QED
          BY <4>2
      <3>3. QED
        BY <1>14, <3>1, <3>2, WhoWrites
    <2>4. Backed(w) <= Backed(w)'
      BY <1>5, <1>14
    <2>5. weekly[w].status = "ACTIVE" => paid[w] <= failures * Backed(w)' + UnderWay(w)'
      BY <1>2, <1>3, <1>4, <1>6, <1>7, <2>3, <2>4, BoundGrows DEF PaymentIsBacked
    <2>6. weekly[w].status = "SETTLED" => paid[w] <= failures * Backed(w)' + Backed(w)'
      BY <1>2, <1>3, <1>4, <1>7, <2>4, BoundGrows DEF PaymentIsBacked
    <2>7. QED
      BY <2>1, <2>2, <2>5, <2>6 DEF PaymentIsBacked
  <1>15. QED
    BY <1>10, <1>11, <1>12, <1>13, <1>14

LEMMA UnderWayStaysNat ==
  ASSUME settler' \in SettlerStates, NEW w \in Weeklies, WeeklyAtHand(w)', Backed(w)' \in Nat
  PROVE  UnderWay(w)' \in Nat
  <1>1. CASE settler'.stage = "pay" /\ settler'.weekly = w
    <2>1. settler'.pool \in Nat /\ settler'.rank \in Nat
      BY <1>1 DEF SettlerStates
    <2>2. settler'.rank >= 1
      BY <1>1 DEF WeeklyAtHand
    <2>3. PaidBefore(settler'.rank, settler'.pool) \in Nat
      BY <2>1, <2>2, NextPrize
    <2>4. UnderWay(w)' = PaidBefore(settler'.rank, settler'.pool)
      BY <1>1 DEF UnderWay
    <2>5. QED
      BY <2>3, <2>4
  <1>2. CASE settler'.stage = "mark" /\ settler'.weekly = w
    BY <1>2 DEF UnderWay
  <1>3. CASE ~(settler'.stage \in {"pay", "mark"} /\ settler'.weekly = w)
    BY <1>3 DEF UnderWay
  <1>4. QED
    BY <1>1, <1>2, <1>3

LEMMA WeeklyInitHolds ==
  ASSUME WeeklyInit
  PROVE  WeeklyInv
  <1>1. WeeklyTypeOK
    <2>1. made \in 0 .. MaxEpochs /\ visitors \in 0 .. MaxVisitors /\ failures \in 0 .. MaxFailures
      BY WeeklyConstantsAreNat DEF WeeklyInit
    <2>2. 0 \in 0 .. MaxEpochs /\ 0 \in 0 .. MaxEntries
      BY WeeklyConstantsAreNat
    <2>3. /\ age \in [Epochs -> Ages] /\ settled \in [Epochs -> BOOLEAN]
          /\ credits \in [Epochs -> Nat] /\ paid \in [Weeklies -> Nat]
      BY DEF WeeklyInit, Ages
    <2>4. /\ daily \in [Dailies -> [status : Statuses, epoch : 0 .. MaxEpochs,
                                    entries : 0 .. MaxEntries, contributed : BOOLEAN]]
          /\ weekly \in [Weeklies -> [status : Statuses, epoch : 0 .. MaxEpochs,
                                      entries : 0 .. MaxEntries, seed : Nat]]
      BY <2>2 DEF WeeklyInit, Statuses
    <2>5. agent.stage = "idle" /\ roller.stage = "idle" /\ settler.stage = "idle"
      BY DEF WeeklyInit, Resting
    <2>6. QED
      BY <2>1, <2>3, <2>4, <2>5 DEF WeeklyTypeOK
  <1>2. WorkersTyped
    BY DEF WeeklyInit, Resting, WorkersTyped, AgentStates, RollerStates, SettlerStates
  <1>3. PoolsTyped
    BY DEF WeeklyInit, PoolsTyped
  <1>4. ASSUME NEW e \in Epochs PROVE EpochIsBacked(e)
    <2>1. Handed(e) \in Nat
      BY <1>1, SlicesAreSplit
    <2>2. credits[e] = 0 /\ agent.stage = "idle"
      BY DEF WeeklyInit, Resting
    <2>3. \A w \in Weeklies : weekly[w].status = "ABSENT"
      BY DEF WeeklyInit
    <2>4. QED
      BY <2>1, <2>2, <2>3 DEF EpochIsBacked
  <1>5. SettlerIsBacked
    BY DEF WeeklyInit, Resting, SettlerIsBacked, DailyAtHand, WeeklyAtHand
  <1>6. ASSUME NEW w \in Weeklies PROVE PaymentIsBacked(w)
    BY DEF WeeklyInit, PaymentIsBacked
  <1>7. QED
    BY <1>1, <1>2, <1>3, <1>4, <1>5, <1>6 DEF WeeklyInv

LEMMA WeeklyStepHolds ==
  ASSUME WeeklyInv, [WeeklyNext]_weeklyVars
  PROVE  WeeklyInv'
  <1>1. TypesHold /\ SettlerIsBacked
    BY DEF WeeklyInv, TypesHold
  <1>2. TypesHold'
    BY <1>1, TypesKept
  <1>3. DailiesGrow /\ WeekliesGrow
    BY <1>1, DailiesKeepGrowing, WeekliesKeepGrowing
  <1>4. \A e \in Epochs : EpochIsBacked(e)'
    BY <1>1, <1>2, <1>3, EpochKept
  <1>5. \A d \in Dailies : DailyAtHand(d)'
    BY <1>1, <1>2, <1>3, DailyKept
  <1>6. \A w \in Weeklies : WeeklyAtHand(w)'
    BY <1>1, <1>2, <1>3, WeeklyKept
  <1>7. ASSUME NEW w \in Weeklies PROVE PaymentIsBacked(w)'
    <2>1. WeeklyAtHand(w)'
      BY <1>6
    <2>2. UnderWay(w)' \in Nat
      BY <1>1, <1>2, <1>3, <2>1, BackedStaysNat, UnderWayStaysNat DEF TypesHold, WorkersTyped
    <2>3. QED
      BY <1>1, <1>2, <1>3, <2>1, <2>2, PaymentKept
  <1>8. QED
    BY <1>2, <1>4, <1>5, <1>6, <1>7 DEF WeeklyInv, TypesHold, SettlerIsBacked

(* The workers' records are well formed, and all they have read of the     *)
(* epochs is backed (workers/agent.ts, workers/settlement.ts).             *)
THEOREM WeeklySafety == WeeklySpec => []WeeklyInv
  <1>1. WeeklyInit => WeeklyInv
    BY WeeklyInitHolds
  <1>2. WeeklyInv /\ [WeeklyNext]_weeklyVars => WeeklyInv'
    BY WeeklyStepHolds
  <1>3. QED
    BY <1>1, <1>2, PTL DEF WeeklySpec

(* A weekly tournament pays from its entries and its epoch's slices, those *)
(* twice at most, and what it paid in all is that once, and once more for  *)
(* each death of the process (settleWeeklyTournament).                     *)
THEOREM WeeklyJackpotIsBacked == WeeklySpec => []JackpotIsBacked
  <1>1. ASSUME WeeklyInv PROVE JackpotIsBacked
    <2>1. WeeklyTypeOK /\ TypesHold /\ settler \in SettlerStates
      BY <1>1 DEF WeeklyInv, TypesHold, WorkersTyped
    <2>2. ASSUME settler.stage \in {"list", "pay"} PROVE settler.pool <= Backed(settler.weekly)
      <3>1. PICK w \in Weeklies : w = settler.weekly
        BY <2>1, <2>2 DEF SettlerStates
      <3>2. WeeklyAtHand(w)
        BY <1>1 DEF WeeklyInv, SettlerIsBacked
      <3>3. QED
        BY <2>2, <3>1, <3>2 DEF WeeklyAtHand
    <2>3. ASSUME NEW w \in Weeklies PROVE paid[w] <= (1 + failures) * Backed(w)
      <3>1. WeeklyAtHand(w) /\ PaymentIsBacked(w)
        BY <1>1 DEF WeeklyInv, SettlerIsBacked
      <3>2. Backed(w) \in Nat
        BY <2>1, BackedIsNat
      <3>3. UnderWay(w) \in Nat /\ UnderWay(w) <= Backed(w)
        BY <2>1, <3>1, <3>2, UnderWayIsBacked
      <3>4. failures \in Nat
        <4>1. failures \in 0 .. MaxFailures
          BY <2>1 DEF WeeklyTypeOK
        <4>2. QED
          BY <4>1, WeeklyConstantsAreNat
      <3>5. paid[w] \in Nat /\ weekly[w].status \in {"ABSENT", "ACTIVE", "SETTLED"}
        BY <2>1 DEF WeeklyTypeOK, Statuses
      <3>6. 1 + failures = failures + 1
        BY <3>4
      <3>7. CASE weekly[w].status = "ABSENT"
        <4>1. paid[w] = 0
          BY <2>1, <3>7 DEF TypesHold, PoolsTyped
        <4>2. (failures + 1) * Backed(w) \in Nat
          BY <3>2, <3>4, TimesIsNat
        <4>3. QED
          BY <3>6, <4>1, <4>2
      <3>8. CASE weekly[w].status = "ACTIVE"
        BY <3>1, <3>2, <3>3, <3>4, <3>5, <3>6, <3>8, OneMoreFailure DEF PaymentIsBacked
      <3>9. CASE weekly[w].status = "SETTLED"
        BY <3>1, <3>2, <3>4, <3>5, <3>6, <3>9, OneMoreFailure DEF PaymentIsBacked
      <3>10. QED
        BY <3>5, <3>7, <3>8, <3>9
    <2>4. QED
      BY <2>1, <2>2, <2>3 DEF JackpotIsBacked
  <1>2. QED
    BY <1>1, WeeklySafety, PTL
=============================================================================
