-------------------------- MODULE ScoreSubmission --------------------------
(***************************************************************************)
(* POST /scores/submit and GET /scores/nonce (apps/backend/src/routes/     *)
(* scores.ts), for the wallet of one player: nonces belong to a wallet and *)
(* the other rows to one of its seats, so players do not interfere.        *)
(*                                                                         *)
(* The nonce and the seat are checked before the transaction and not again *)
(* in it.  The transaction (READ COMMITTED) has three steps: its first two *)
(* writes, which lock the nonce and the attempt row; the read of the       *)
(* attempts, which sees what others committed and what itself wrote; and   *)
(* the aggregates, written last and committed.                             *)
(***************************************************************************)
EXTENDS AntiCheat, Sequences, FiniteSets

CONSTANTS
  Seats,            \* TournamentParticipant rows of the player
  Nonces,           \* ScoreNonce rows that may be issued to the wallet
  Slots,            \* submissions the server may be handling at one time
  Runs              \* what a finished attempt may report

ASSUME RunsConstants == Runs \subseteq [matches : Nat, durationMs : Nat]
ASSUME FiniteSlots == IsFiniteSet(Slots)

VARIABLES
  nonce,            \* ScoreNonce: issued, used, expired
  attempts,         \* RunAttempt rows of each seat, by attemptIndex
  submitted,        \* SubmittedScore of each seat
  participant,      \* the aggregates on TournamentParticipant
  flags,            \* ModerationFlag rows about each seat's runs
  sub,              \* the submissions in flight
  accepted,         \* history: scores accepted with each nonce
  overtaken         \* history: the last commit for a seat was based on attempts
                    \* another one changed after they were read

tables == <<nonce, attempts, submitted, participant, flags>>
history == <<accepted, overtaken>>
scoreVars == <<nonce, attempts, submitted, participant, flags, sub, accepted, overtaken>>

Indexes  == 1 .. MaxAttempts
NoRun    == [status |-> "none"]
NoScore  == [status |-> "none"]
NoSub    == [stage |-> "idle"]
NoPlay   == [totalScore |-> 0, attemptsUsed |-> 0, completed |-> FALSE]
InTransaction == {"written", "read"}

StatusOf(run, i) == IF Flagged(run.matches, run.durationMs, i) THEN "FLAGGED" ELSE "VALIDATED"
Row(run, i) == [matches |-> run.matches, status |-> StatusOf(run, i)]
Rows == {NoRun} \cup {Row(run, i) : run \in Runs, i \in Indexes}

Scores   == [Indexes -> Nat]
Checking == [stage : {"participant", "begin", "written"}, nonce : Nonces, seat : Seats,
             index : Indexes, run : Runs]
Reading  == [stage : {"read"}, nonce : Nonces, seat : Seats, index : Indexes, run : Runs,
             view : [Indexes -> Rows], overtaken : BOOLEAN]

ScoreTypeOK ==
  /\ nonce \in [Nonces -> [issued : BOOLEAN, used : BOOLEAN, expired : BOOLEAN]]
  /\ attempts \in [Seats -> [Indexes -> Rows]]
  /\ submitted \in [Seats -> {NoScore} \cup [totalScore : Nat, attempt : Scores,
                                            status : {"FLAGGED", "VALIDATED", "PENDING"}]]
  /\ participant \in [Seats -> [totalScore : Nat, attemptsUsed : 0 .. MaxAttempts,
                                completed : BOOLEAN]]
  /\ flags \in [Seats -> Nat]
  /\ sub \in [Slots -> {NoSub} \cup Checking \cup Reading]
  /\ accepted \in [Nonces -> Nat]
  /\ overtaken \in [Seats -> BOOLEAN]

ScoreInit ==
  /\ nonce = [n \in Nonces |-> [issued |-> FALSE, used |-> FALSE, expired |-> FALSE]]
  /\ attempts = [p \in Seats |-> [i \in Indexes |-> NoRun]]
  /\ submitted = [p \in Seats |-> NoScore]
  /\ participant = [p \in Seats |-> NoPlay]
  /\ flags = [p \in Seats |-> 0]
  /\ sub = [s \in Slots |-> NoSub]
  /\ accepted = [n \in Nonces |-> 0]
  /\ overtaken = [p \in Seats |-> FALSE]

-----------------------------------------------------------------------------
(* Nonces.                                                                 *)

IssueNonce(n) ==
  /\ ~nonce[n].issued
  /\ nonce' = [nonce EXCEPT ![n].issued = TRUE]
  /\ UNCHANGED <<attempts, submitted, participant, flags, sub, history>>

NonceExpires(n) ==
  /\ nonce[n].issued
  /\ ~nonce[n].expired
  /\ nonce' = [nonce EXCEPT ![n].expired = TRUE]
  /\ UNCHANGED <<attempts, submitted, participant, flags, sub, history>>

-----------------------------------------------------------------------------
(* The checks before the transaction.                                      *)

(* Mutation: a used nonce is accepted.                                     *)
NonceUnexpired(n) == nonce[n].issued /\ ~nonce[n].expired

NonceValid(n) == nonce[n].issued /\ ~nonce[n].used /\ ~nonce[n].expired

ReadNonce(s, n, p, i, run) ==
  /\ sub[s] = NoSub
  /\ NonceValid(n)
  /\ sub' = [sub EXCEPT ![s] =
       [stage |-> "participant", nonce |-> n, seat |-> p, index |-> i, run |-> run]]
  /\ UNCHANGED <<tables, history>>

Completed(p) == participant[p].completed \/ participant[p].attemptsUsed >= MaxAttempts

ReadParticipant(s) ==
  /\ sub[s].stage = "participant"
  /\ sub' = [sub EXCEPT ![s] = IF Completed(sub[s].seat) THEN NoSub ELSE [@ EXCEPT !.stage = "begin"]]
  /\ UNCHANGED <<tables, history>>

-----------------------------------------------------------------------------
(* The transaction.                                                        *)

(* The row locks two transactions may compete for.                         *)
Blocks(t, s) ==
  /\ sub[t].stage \in InTransaction
  /\ \/ sub[t].nonce = sub[s].nonce
     \/ sub[t].seat = sub[s].seat /\ sub[t].index = sub[s].index

WriteAttempt(s) ==
  /\ sub[s].stage = "begin"
  /\ \A t \in Slots \ {s} : ~Blocks(t, s)
  /\ sub' = [sub EXCEPT ![s].stage = "written"]
  /\ UNCHANGED <<tables, history>>

(* Mutation: the attempts are read before the own row is written.          *)
CommittedView(s) == attempts[sub[s].seat]

(* The committed rows, and the row the transaction itself has written.     *)
View(s) ==
  [attempts[sub[s].seat] EXCEPT ![sub[s].index] = Row(sub[s].run, sub[s].index)]

ReadAttempts(s) ==
  /\ sub[s].stage = "written"
  /\ sub' = [sub EXCEPT ![s] =
       [stage |-> "read", nonce |-> @.nonce, seat |-> @.seat, index |-> @.index, run |-> @.run,
        view |-> View(s), overtaken |-> FALSE]]
  /\ UNCHANGED <<tables, history>>

Present(rows) == {i \in Indexes : rows[i] # NoRun}
Score(rows)   == [i \in Indexes |-> IF rows[i] = NoRun THEN 0 ELSE rows[i].matches]
Total(rows)   == Score(rows)[1] + Score(rows)[2] + Score(rows)[3]

(* Mutation: off by one.                                                   *)
AllButOneIn(rows) == Cardinality(Present(rows)) >= MaxAttempts - 1

AllIn(rows)   == Cardinality(Present(rows)) >= MaxAttempts
AnyFlagged(rows) == \E i \in Indexes : rows[i].status = "FLAGGED"

AggregateStatus(rows) ==
  CASE AnyFlagged(rows) -> "FLAGGED"
    [] ~AnyFlagged(rows) /\ AllIn(rows) -> "VALIDATED"
    [] OTHER -> "PENDING"

SubmittedFrom(rows) ==
  [totalScore |-> Total(rows), attempt |-> Score(rows), status |-> AggregateStatus(rows)]

ParticipantFrom(rows) ==
  [totalScore |-> Total(rows), attemptsUsed |-> Cardinality(Present(rows)), completed |-> AllIn(rows)]

NewFlags(s) == IF StatusOf(sub[s].run, sub[s].index) = "FLAGGED" THEN 1 ELSE 0

CommitScore(s) ==
  LET me == sub[s]
      p  == me.seat
  IN  /\ me.stage = "read"
      /\ nonce' = [nonce EXCEPT ![me.nonce].used = TRUE]
      /\ attempts' = [attempts EXCEPT ![p][me.index] = Row(me.run, me.index)]
      /\ submitted' = [submitted EXCEPT ![p] = SubmittedFrom(me.view)]
      /\ participant' = [participant EXCEPT ![p] = ParticipantFrom(me.view)]
      /\ flags' = [flags EXCEPT ![p] = @ + NewFlags(s)]
      /\ sub' = [t \in Slots |->
           IF t = s THEN NoSub
           ELSE IF sub[t].stage = "read" /\ sub[t].seat = p THEN [sub[t] EXCEPT !.overtaken = TRUE]
           ELSE sub[t]]
      /\ accepted' = [accepted EXCEPT ![me.nonce] = @ + 1]
      /\ overtaken' = [overtaken EXCEPT ![p] = me.overtaken]

(* The request fails: a bad signature, a lost connection, a process that   *)
(* dies.  An open transaction is rolled back.                              *)
Fail(s) ==
  /\ sub[s] # NoSub
  /\ sub' = [sub EXCEPT ![s] = NoSub]
  /\ UNCHANGED <<tables, history>>

ScoreNext ==
  \/ \E n \in Nonces : IssueNonce(n) \/ NonceExpires(n)
  \/ \E s \in Slots :
       \/ \E n \in Nonces, p \in Seats, i \in Indexes, run \in Runs : ReadNonce(s, n, p, i, run)
       \/ ReadParticipant(s) \/ WriteAttempt(s) \/ ReadAttempts(s) \/ CommitScore(s) \/ Fail(s)

ScoreSpec == ScoreInit /\ [][ScoreNext]_scoreVars

-----------------------------------------------------------------------------
(* Safety.                                                                 *)

(* The score a settlement ranks by and the score the leaderboards show are *)
(* one: the two tables agree, and the total is that of the three parts.    *)
TablesAgree ==
  \A p \in Seats : submitted[p] # NoScore =>
    /\ submitted[p].totalScore = participant[p].totalScore
    /\ submitted[p].totalScore =
         submitted[p].attempt[1] + submitted[p].attempt[2] + submitted[p].attempt[3]
    /\ participant[p].completed <=> participant[p].attemptsUsed = MaxAttempts

(* The aggregates are those of the stored attempts, unless the last one to *)
(* write them was overtaken between its read and its commit.               *)
Faithful(p) ==
  IF Present(attempts[p]) = {} THEN submitted[p] = NoScore /\ participant[p] = NoPlay
  ELSE submitted[p] = SubmittedFrom(attempts[p]) /\ participant[p] = ParticipantFrom(attempts[p])

FaithfulUnlessOvertaken == \A p \in Seats : ~overtaken[p] => Faithful(p)

(* A used nonce admits nobody new: only submissions that were all past the *)
(* check can share one, so never more than the server handles at a time.   *)
ReplaysBounded == \A n \in Nonces : accepted[n] <= Cardinality(Slots)

(* Every flagged run in the tables was reported to the moderators.         *)
FlaggedRunsReported ==
  \A p \in Seats : Cardinality({i \in Indexes : attempts[p][i].status = "FLAGGED"}) <= flags[p]

-----------------------------------------------------------------------------
(* What the documentation says, and the code does not do.                  *)

(* "Tournament aggregate = sum of attempts 1-3" (docs/api.md:44), once no  *)
(* transaction is open.                                                    *)
AggregateIsSumOfAttempts ==
  (\A s \in Slots : sub[s].stage \notin InTransaction) =>
    \A p \in Seats : participant[p].totalScore = Total(attempts[p])

(* "Pool already completed" (apps/backend/src/routes/scores.ts:82): a seat *)
(* that is completed takes no further score.                               *)
CompletionIsFinal ==
  [][\A p \in Seats : participant[p].completed => participant'[p] = participant[p]]_scoreVars
=============================================================================
