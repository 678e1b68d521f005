------------------------------ MODULE PoolJoin ------------------------------
(***************************************************************************)
(* POST /tournaments/join (apps/backend/src/routes/tournaments.ts) over    *)
(* the tables it reads and writes: users, the credit ledger, tournaments,  *)
(* participants and the platform treasury.                                 *)
(*                                                                         *)
(* The handler awaits four reads, each outside the transaction, and then   *)
(* one Postgres transaction (READ COMMITTED).  Every read is an action of  *)
(* its own, so other requests and the workers run between them.  The       *)
(* transaction is one action: its first write locks the user row (or, when *)
(* nothing is charged, the tournament row) until commit, its second one    *)
(* the tournament row, and it decides only on rows it has locked.          *)
(***************************************************************************)
EXTENDS Economy, Sequences, FiniteSets, Functions

CONSTANTS
  Users,            \* wallets with an account
  Pools,            \* rows of the tournament table, created or still to come
  Requests,         \* join requests the server may be handling at one time
  Kind,             \* Tournament.type
  Fee,              \* Tournament.entryFeeCredits
  MaxPlayers,       \* Tournament.maxPlayers
  SeedPrize,        \* prizePoolCredits a tournament is created with
  SeedReward,       \* rewardPoolCredits a tournament is created with
  OpeningBalance    \* User.creditBalance before the first join

ASSUME PoolConstants ==
  /\ Kind \in [Pools -> {"DAILY", "WEEKLY_JACKPOT", "PRACTICE", "LIVE"}]
  /\ Fee \in [Pools -> Nat]
  /\ MaxPlayers \in [Pools -> Nat \ {0}]
  /\ SeedPrize \in [Pools -> Nat]
  /\ SeedReward \in [Pools -> Nat]
  /\ OpeningBalance \in [Users -> Nat]
ASSUME FiniteRequests == IsFiniteSet(Requests)
ASSUME FiniteTables == IsFiniteSet(Users) /\ IsFiniteSet(Pools)

VARIABLES
  balance,          \* User.creditBalance
  ledger,           \* CreditLedgerEntry rows of each user, oldest first
  status,           \* Tournament.status, "ABSENT" before the row is created
  playerCount,      \* Tournament.playerCount
  rewardPool,       \* Tournament.rewardPoolCredits
  prizePool,        \* Tournament.prizePoolCredits
  jackpotSlice,     \* Tournament.jackpotContributionCredits
  treasury,         \* PlatformTreasury.balance
  roster,           \* TournamentParticipant rows of each pool, by joinedAt
  req               \* the join requests in flight

pools == <<status, playerCount, rewardPool, prizePool, jackpotSlice, roster>>
credits == <<balance, ledger, treasury>>
vars == <<balance, ledger, status, playerCount, rewardPool, prizePool,
          jackpotSlice, treasury, roster, req>>

Joinable == {"OPEN", "LIVE"}
Statuses == {"ABSENT", "OPEN", "LIVE", "CLOSED", "SETTLED"}
Stages   == {"idle", "user", "qualify", "existing", "commit"}
Idle     == [stage |-> "idle"]
InFlight == [stage : Stages \ {"idle"}, user : Users, pool : Pools]
Entries  == [type : {"ENTRY_FEE", "REWARD"}, amount : Int, balanceAfter : Int, pool : Pools]

Charged(p) == Kind[p] # "PRACTICE" /\ Fee[p] > 0
EntryPrice(p) == IF Charged(p) THEN Fee[p] ELSE 0
Seated(p)  == Range(roster[p])
Pending(p) == {r \in Requests : req[r].stage # "idle" /\ req[r].pool = p}

TypeOK ==
  /\ balance \in [Users -> Int]
  /\ ledger \in [Users -> Seq(Entries)]
  /\ status \in [Pools -> Statuses]
  /\ playerCount \in [Pools -> Nat]
  /\ rewardPool \in [Pools -> Nat]
  /\ prizePool \in [Pools -> Nat]
  /\ jackpotSlice \in [Pools -> Nat]
  /\ treasury \in Nat
  /\ roster \in [Pools -> Seq(Users)]
  /\ req \in [Requests -> InFlight \cup {Idle}]

Init ==
  /\ balance = OpeningBalance
  /\ ledger = [u \in Users |-> <<>>]
  /\ status = [p \in Pools |-> "ABSENT"]
  /\ playerCount = [p \in Pools |-> 0]
  /\ rewardPool = SeedReward
  /\ prizePool = SeedPrize
  /\ jackpotSlice = [p \in Pools |-> 0]
  /\ treasury = 0
  /\ roster = [p \in Pools |-> <<>>]
  /\ req = [r \in Requests |-> Idle]

-----------------------------------------------------------------------------
(* The reads before the transaction.  A refusal ends the request.          *)

Advance(r, stage) == req' = [req EXCEPT ![r].stage = stage]

Respond(r) == req' = [req EXCEPT ![r] = Idle]

(* Mutation: no capacity check.                                            *)
HasRoomUnchecked(p) == TRUE

HasRoom(p) == playerCount[p] < MaxPlayers[p]

(* A request arrives and its first query returns: a tournament that is not *)
(* joinable or is full is refused at once, which leaves the slot idle.     *)
ReadTournament(r, u, p) ==
  /\ req[r] = Idle
  /\ status[p] \in Joinable
  /\ HasRoom(p)
  /\ req' = [req EXCEPT ![r] = [stage |-> "user", user |-> u, pool |-> p]]
  /\ UNCHANGED <<pools, credits>>

ReadUser(r) ==
  LET u == req[r].user
      p == req[r].pool
  IN  /\ req[r].stage = "user"
      /\ IF Kind[p] # "PRACTICE" /\ balance[u] < Fee[p]
           THEN Respond(r)
           ELSE Advance(r, IF Kind[p] = "WEEKLY_JACKPOT" THEN "qualify" ELSE "existing")
      /\ UNCHANGED <<pools, credits>>

(* Whether the user qualifies for the weekly jackpot depends on tables this *)
(* module does not hold: both answers are possible.                        *)
CheckQualification(r) ==
  /\ req[r].stage = "qualify"
  /\ Respond(r) \/ Advance(r, "existing")
  /\ UNCHANGED <<pools, credits>>

(* A user who already has a seat is answered without a transaction.        *)
FindExisting(r) ==
  /\ req[r].stage = "existing"
  /\ IF req[r].user \in Seated(req[r].pool) THEN Respond(r) ELSE Advance(r, "commit")
  /\ UNCHANGED <<pools, credits>>

-----------------------------------------------------------------------------
(* The transaction.                                                        *)

(* Mutation: the debit has no WHERE.                                       *)
DebitUnguarded(u, p) == TRUE

(* WHERE creditBalance >= fee of the guarded debit.                        *)
DebitMatches(u, p) == Charged(p) => balance[u] >= Fee[p]

(* Mutation: no unique index.                                              *)
SeatFreeUnchecked(u, p) == TRUE

(* @@unique([tournamentId, userId]) on TournamentParticipant.              *)
SeatFree(u, p) == u \notin Seated(p)

(* Mutation: the ledger row holds the balance from before the debit.       *)
DebitRecordingOldBalance(u, p) ==
  IF Charged(p)
    THEN /\ balance' = [balance EXCEPT ![u] = @ - Fee[p]]
         /\ ledger' = [ledger EXCEPT ![u] = Append(@,
              [type |-> "ENTRY_FEE", amount |-> -Fee[p], balanceAfter |-> balance[u], pool |-> p])]
    ELSE UNCHANGED <<balance, ledger>>

Debit(u, p) ==
  IF Charged(p)
    THEN LET after == balance[u] - Fee[p]
         IN  /\ balance' = [balance EXCEPT ![u] = after]
             /\ ledger' = [ledger EXCEPT ![u] = Append(@,
                  [type |-> "ENTRY_FEE", amount |-> -Fee[p], balanceAfter |-> after, pool |-> p])]
    ELSE UNCHANGED <<balance, ledger>>

(* What one entry adds to the pool's rewards, prize, jackpot slice and to  *)
(* the treasury: only a daily fee is split.                                *)
Share(p) ==
  LET s == SplitDailyEntryFee(Fee[p])
  IN  CASE ~Charged(p) ->
             [reward |-> 0, prize |-> 0, jackpot |-> 0, treasury |-> 0]
        [] Charged(p) /\ Kind[p] = "DAILY" ->
             [reward |-> s.rewards, prize |-> s.rewards,
              jackpot |-> s.weeklyJackpot, treasury |-> s.treasury]
        [] Charged(p) /\ Kind[p] = "WEEKLY_JACKPOT" ->
             [reward |-> Fee[p], prize |-> Fee[p], jackpot |-> 0, treasury |-> 0]
        [] OTHER ->
             [reward |-> 0, prize |-> Fee[p], jackpot |-> 0, treasury |-> 0]

(* Mutation: the prize pool is forgotten.                                  *)
FundPoolWithoutPrize(p) ==
  /\ rewardPool' = [rewardPool EXCEPT ![p] = @ + Share(p).reward]
  /\ jackpotSlice' = [jackpotSlice EXCEPT ![p] = @ + Share(p).jackpot]
  /\ treasury' = treasury + Share(p).treasury
  /\ UNCHANGED prizePool

FundPool(p) ==
  /\ rewardPool' = [rewardPool EXCEPT ![p] = @ + Share(p).reward]
  /\ prizePool' = [prizePool EXCEPT ![p] = @ + Share(p).prize]
  /\ jackpotSlice' = [jackpotSlice EXCEPT ![p] = @ + Share(p).jackpot]
  /\ treasury' = treasury + Share(p).treasury

(* A daily pool whose last seat is taken closes, whatever its status is.   *)
Fills(p, players) == Kind[p] = "DAILY" /\ players >= MaxPlayers[p]

Transaction(u, p) ==
  /\ DebitMatches(u, p)
  /\ SeatFree(u, p)
  /\ Debit(u, p)
  /\ FundPool(p)
  /\ playerCount' = [playerCount EXCEPT ![p] = @ + 1]
  /\ status' = IF Fills(p, playerCount[p] + 1) THEN [status EXCEPT ![p] = "CLOSED"] ELSE status
  /\ roster' = [roster EXCEPT ![p] = Append(@, u)]

CommitJoin(r) ==
  /\ req[r].stage = "commit"
  /\ Transaction(req[r].user, req[r].pool)
  /\ Respond(r)

(* INSUFFICIENT_CREDITS: the debit matched no row, all is rolled back.     *)
RollBackDebit(r) ==
  /\ req[r].stage = "commit"
  /\ ~DebitMatches(req[r].user, req[r].pool)
  /\ Respond(r)
  /\ UNCHANGED <<pools, credits>>

(* The unique index refuses a second seat.  The rolled-back error is       *)
(* rethrown from an async handler that Express 4 does not await, so it     *)
(* ends the process (Node 20) and every request with it.                   *)
DuplicateSeat(r) ==
  /\ req[r].stage = "commit"
  /\ DebitMatches(req[r].user, req[r].pool)
  /\ ~SeatFree(req[r].user, req[r].pool)
  /\ req' = [q \in Requests |-> Idle]
  /\ UNCHANGED <<pools, credits>>

(* The process is killed or restarted: nothing of a request survives.      *)
Crash ==
  /\ req # [r \in Requests |-> Idle]
  /\ req' = [r \in Requests |-> Idle]
  /\ UNCHANGED <<pools, credits>>

HandlerStep(r) ==
  \/ \E u \in Users, p \in Pools : ReadTournament(r, u, p)
  \/ ReadUser(r)
  \/ CheckQualification(r)
  \/ FindExisting(r)
  \/ CommitJoin(r)
  \/ RollBackDebit(r)

ProcessDies == Crash \/ \E r \in Requests : DuplicateSeat(r)

JoinStep == ProcessDies \/ \E r \in Requests : HandlerStep(r)

-----------------------------------------------------------------------------
(* The workers change only the status of a pool here; when they do so is   *)
(* the subject of DailyPool, so any moment is allowed.                     *)

SetStatus(p, s) ==
  /\ status' = [status EXCEPT ![p] = s]
  /\ UNCHANGED <<playerCount, rewardPool, prizePool, jackpotSlice, roster, credits, req>>

CreatePool(p) == status[p] = "ABSENT" /\ SetStatus(p, "OPEN")
AgentCloses(p) == status[p] = "OPEN" /\ SetStatus(p, "CLOSED")
WorkerSettles(p) == status[p] \notin {"ABSENT", "SETTLED"} /\ SetStatus(p, "SETTLED")

Next ==
  \/ JoinStep
  \/ \E p \in Pools : CreatePool(p) \/ AgentCloses(p) \/ WorkerSettles(p)

Spec == Init /\ [][Next]_vars

-----------------------------------------------------------------------------
(* Safety.                                                                 *)

(* A user pays for a seat exactly once, and nobody pays without getting    *)
(* the seat, however many of the user's requests race or crash: the        *)
(* entry-fee rows of the ledger and the participant rows agree.            *)
OneChargePerSeat ==
  /\ \A p \in Pools : IsInjective(roster[p])
  /\ \A u \in Users :
       /\ \A i, j \in DOMAIN ledger[u] : i # j => ledger[u][i].pool # ledger[u][j].pool
       /\ \A p \in Pools : (Charged(p) /\ u \in Seated(p)) <=>
                              \E i \in DOMAIN ledger[u] : ledger[u][i].pool = p

(* Racing joins of several pools never overdraw an account: only the       *)
(* debit's own condition protects it, the balance check reads stale data.  *)
NoOverdraft == \A u \in Users : balance[u] >= 0

(* The ledger replays to the balance: every row's balanceAfter is the      *)
(* previous one plus its amount, and the last one is the user's balance.   *)
BalanceBefore(u, i) == IF i = 1 THEN OpeningBalance[u] ELSE ledger[u][i - 1].balanceAfter

LedgerReplays ==
  \A u \in Users :
    /\ \A i \in DOMAIN ledger[u] :
         ledger[u][i].balanceAfter = BalanceBefore(u, i) + ledger[u][i].amount
    /\ balance[u] = BalanceBefore(u, Len(ledger[u]) + 1)

(* The counters of a pool are those its participant rows explain: as many  *)
(* players as rows, and one share of the fee per row in every pot.         *)
PoolBooksMatchSeats ==
  \A p \in Pools :
    /\ playerCount[p] = Len(roster[p])
    /\ rewardPool[p] = SeedReward[p] + Len(roster[p]) * Share(p).reward
    /\ prizePool[p] = SeedPrize[p] + Len(roster[p]) * Share(p).prize
    /\ jackpotSlice[p] = Len(roster[p]) * Share(p).jackpot

(* The capacity check runs outside the transaction, so a pool may overfill, *)
(* but never by more seats than there are other requests in flight.        *)
OverfillBounded ==
  \A p \in Pools :
    playerCount[p] + Cardinality(Pending(p)) <= MaxPlayers[p] - 1 + Cardinality(Requests)

(* A daily pool that is full takes no further request: it is not joinable. *)
FullDailyIsClosed ==
  \A p \in Pools :
    Kind[p] = "DAILY" /\ playerCount[p] >= MaxPlayers[p] => status[p] \notin Joinable

(* Credits that left the users are in a pot: the reward pools of daily     *)
(* pools with their jackpot slices and the treasury, the prize pools of    *)
(* the others.                                                             *)
PotOf(p) ==
  IF Kind[p] = "DAILY" THEN rewardPool[p] - SeedReward[p] + jackpotSlice[p]
                       ELSE prizePool[p] - SeedPrize[p]
House == treasury + SumFunction([p \in Pools |-> PotOf(p)])

CreditsConserved == SumFunction(balance) + House = SumFunction(OpeningBalance)

(* What the whole handler promises, as one step: EntryGate.                *)
PriceList == [p \in Pools |-> EntryPrice(p)]
SeatPairs == {s \in Pools \X Users : s[2] \in Seated(s[1])}

Gate == INSTANCE EntryGate WITH Price <- PriceList, seats <- SeatPairs, house <- House

ImplementsEntryGate == Gate!Spec

(* "Players per pool | 10" (docs/ECONOMY.md:15): no pool seats more than   *)
(* maxPlayers.  The code lets requests that read the pool before it filled *)
(* take seats after.                                                       *)
CapacityRespected == \A p \in Pools : playerCount[p] <= MaxPlayers[p]
=============================================================================
