----------------------------- MODULE DailyPool -----------------------------
(***************************************************************************)
(* The life of the daily pools: players join (PoolJoin) and finish their   *)
(* attempts, the tournament agent opens and recycles pools, and the        *)
(* settlement worker pays and closes them (workers/agent.ts,               *)
(* workers/settlement.ts, services/economy.ts).                            *)
(*                                                                         *)
(* The workers run on timers in the process that serves the joins and hold *)
(* no lock: every await is a point where the others run, and a process     *)
(* that dies loses what the workers were doing, not what they wrote.       *)
(***************************************************************************)
EXTENDS PoolJoin

CONSTANTS
  Settlers,         \* settlement ticks that may run at one time
  Scores,           \* total scores a player may reach
  MaxFailures,      \* bound: how often a tick fails or the process is killed
  MaxOvertaken      \* bound: how often a completed player is un-completed

(* The pools of this module are of Kind "DAILY" (MCDailyPool); what is      *)
(* proved of it does not depend on that.                                   *)
ASSUME DailyConstants ==
  /\ IsFiniteSet(Settlers)
  /\ Scores \subseteq Nat \ {0}
  /\ MaxFailures \in Nat
  /\ MaxOvertaken \in Nat

VARIABLES
  results,          \* TournamentParticipant.totalScore, and completedAt as a flag
  rank,             \* TournamentParticipant.rank, 0 before it is set
  age,              \* how old the tournament is
  contributed,      \* Tournament.jackpotContributedAt, as a flag
  jackpot,          \* WeeklyJackpotPool.dailyContributionCredits
  completions,      \* UserQualification.dailyCompletions
  settler,          \* the settlement ticks
  agent,            \* the agent's tick
  spawns,           \* spawnDailyPoolIfNeeded calls nobody waits for
  failures,         \* history: how often the process died or a tick failed
  reopened,         \* history: how often a settled pool left SETTLED
  undone            \* history: the players of each pool who were done before

daily == <<results, rank, age, contributed, jackpot, completions,
           settler, agent, spawns, failures, reopened, undone>>
dailyVars == <<vars, daily>>
play == <<results, undone>>
(* What the joins write and the workers' own steps do not.                 *)
seating == <<playerCount, rewardPool, prizePool, jackpotSlice, treasury, roster, req>>

Ages       == {"fresh", "stale", "expired"}    \* up to 2 h, up to 24 h, after
Active     == {"OPEN", "LIVE", "CLOSED"}
NotPlayed  == [score |-> 0, done |-> FALSE]
Resting    == [stage |-> "idle"]
NoSpawns   == [counting |-> 0, creating |-> 0]
PayStages  == {"rank", "credit", "record", "qualify", "complete"}

DailyTypeOK ==
  /\ TypeOK
  /\ results \in [Pools -> [Users -> [score : Scores \cup {0}, done : BOOLEAN]]]
  /\ rank \in [Pools -> [Users -> 0 .. Cardinality(Users)]]
  /\ age \in [Pools -> Ages]
  /\ contributed \in [Pools -> BOOLEAN]
  /\ jackpot \in Nat
  /\ completions \in [Users -> Nat]
  /\ \A s \in Settlers : settler[s].stage \in
       PayStages \cup {"idle", "read", "empty", "mark", "contribute", "transfer"}
  /\ agent.stage \in {"idle", "spawn", "create", "find", "close", "respawn", "recreate"}
  /\ spawns \in [counting : Nat, creating : Nat]
  /\ failures \in Nat
  /\ reopened \in [Pools -> Nat]
  /\ undone \subseteq Pools \X Users

DailyInit ==
  /\ Init
  /\ results = [p \in Pools |-> [u \in Users |-> NotPlayed]]
  /\ rank = [p \in Pools |-> [u \in Users |-> 0]]
  /\ age = [p \in Pools |-> "fresh"]
  /\ contributed = [p \in Pools |-> FALSE]
  /\ jackpot = 0
  /\ completions = [u \in Users |-> 0]
  /\ settler = [s \in Settlers |-> Resting]
  /\ agent = Resting
  /\ spawns = NoSpawns
  /\ failures = 0
  /\ reopened = [p \in Pools |-> 0]
  /\ undone = {}

-----------------------------------------------------------------------------
(* The players and the clock.                                              *)

WriteStatus(p, s) == status' = [status EXCEPT ![p] = s]
CountReopened == reopened' =
  [p \in Pools |-> reopened[p] + IF status[p] = "SETTLED" /\ status'[p] # "SETTLED" THEN 1 ELSE 0]

PlayerJoins ==
  /\ \E r \in Requests : HandlerStep(r)
  /\ CountReopened
  /\ UNCHANGED <<play, rank, age, contributed, jackpot, completions,
                 settler, agent, spawns, failures>>

(* A submitted attempt replaces the aggregates of the participant row.  The *)
(* status of the pool is not looked at, only whether the player is done.   *)
SubmitScore(u, p) ==
  /\ u \in Seated(p)
  /\ ~results[p][u].done
  /\ \E score \in Scores, done \in BOOLEAN :
       results' = [results EXCEPT ![p][u] = [score |-> score, done |-> done]]
  /\ UNCHANGED <<vars, rank, age, contributed, jackpot, completions,
                 settler, agent, spawns, failures, reopened, undone>>

(* A submission overtaken by the one that completed the attempts writes    *)
(* what it read before (CompletionIsFinal).                                *)
SubmitOvertaken(u, p) ==
  /\ results[p][u].done
  /\ Cardinality(undone) < MaxOvertaken
  /\ \E score \in Scores :
       results' = [results EXCEPT ![p][u] = [score |-> score, done |-> FALSE]]
  /\ undone' = undone \cup {<<p, u>>}
  /\ UNCHANGED <<vars, rank, age, contributed, jackpot, completions,
                 settler, agent, spawns, failures, reopened>>

TimePasses(p) ==
  /\ status[p] # "ABSENT"
  /\ age[p] # "expired"
  /\ age' = [age EXCEPT ![p] = IF @ = "fresh" THEN "stale" ELSE "expired"]
  /\ UNCHANGED <<vars, play, rank, contributed, jackpot, completions,
                 settler, agent, spawns, failures, reopened>>

-----------------------------------------------------------------------------
(* spawnDailyPoolIfNeeded: it counts the active daily pools, then awaits   *)
(* the season, the epoch and a title before it creates one.                *)

(* Mutation: settled pools count as active.                                *)
NoneExists == \A p \in Pools : status[p] = "ABSENT"

NoneActive == \A p \in Pools : status[p] \notin Active

(* Pools bounds the rows there may be: when none is left, none is created. *)
Create ==
  /\ \/ \E p \in Pools : status[p] = "ABSENT" /\ WriteStatus(p, "OPEN")
     \/ (\A p \in Pools : status[p] # "ABSENT") /\ UNCHANGED status
  /\ UNCHANGED <<seating, balance, ledger>>

SpawnCounts ==
  /\ spawns.counting > 0
  /\ spawns' = [counting |-> spawns.counting - 1,
                creating |-> spawns.creating + IF NoneActive THEN 1 ELSE 0]
  /\ UNCHANGED <<vars, play, rank, age, contributed, jackpot, completions,
                 settler, agent, failures, reopened>>

SpawnCreates ==
  /\ spawns.creating > 0
  /\ Create
  /\ spawns' = [spawns EXCEPT !.creating = @ - 1]
  /\ UNCHANGED <<play, rank, age, contributed, jackpot, completions,
                 settler, agent, failures, reopened>>

-----------------------------------------------------------------------------
(* runTournamentAgentTick.                                                 *)

AgentRests == <<play, rank, age, contributed, jackpot, completions, settler, spawns, failures>>
AgentGoes(stage) == agent' = [stage |-> stage]

AgentTick ==
  /\ agent.stage = "idle"
  /\ AgentGoes("spawn")
  /\ UNCHANGED <<vars, AgentRests, reopened>>

AgentCounts ==
  /\ \/ /\ agent.stage = "spawn"
        /\ AgentGoes(IF NoneActive THEN "create" ELSE "find")
     \/ /\ agent.stage = "respawn"
        /\ AgentGoes(IF NoneActive THEN "recreate" ELSE "idle")
  /\ UNCHANGED <<vars, AgentRests, reopened>>

AgentCreates ==
  /\ \/ agent.stage = "create" /\ AgentGoes("find")
     \/ agent.stage = "recreate" /\ AgentGoes("idle")
  /\ Create
  /\ UNCHANGED <<AgentRests, reopened>>

Stale(p) == status[p] = "OPEN" /\ playerCount[p] = 0 /\ age[p] # "fresh"

AgentFinds ==
  /\ agent.stage = "find"
  /\ \/ \E p \in Pools : Stale(p) /\ agent' = [stage |-> "close", pool |-> p]
     \/ (\A p \in Pools : ~Stale(p)) /\ AgentGoes("idle")
  /\ UNCHANGED <<vars, AgentRests, reopened>>

(* The update names the pool by id only: whatever became of it since.      *)
AgentRecycles ==
  /\ agent.stage = "close"
  /\ WriteStatus(agent.pool, "CLOSED")
  /\ CountReopened
  /\ AgentGoes("respawn")
  /\ UNCHANGED <<seating, balance, ledger, AgentRests>>

AgentStep == AgentTick \/ AgentCounts \/ AgentCreates \/ AgentFinds \/ AgentRecycles

-----------------------------------------------------------------------------
(* settleDailyTournament.                                                  *)

SettlerRests == <<rank, contributed, jackpot, completions>>
SettlerGoes(s, next) == settler' = [settler EXCEPT ![s] = next]
GameRests == <<play, age, agent, failures, reopened>>

(* Mutation: a settled pool is settled again.                              *)
StartSettleAnyPool(s, p) ==
  /\ settler[s].stage = "idle"
  /\ status[p] # "ABSENT"
  /\ SettlerGoes(s, [stage |-> "read", pool |-> p, joinable |-> status[p] \in Joinable,
       full |-> status[p] = "CLOSED" \/ playerCount[p] >= MaxPlayers[p]])
  /\ UNCHANGED <<vars, SettlerRests, GameRests, spawns>>

(* The tick visits every active pool and reads it again; a settled one     *)
(* returns at once, which changes nothing.                                 *)
StartSettle(s, p) ==
  /\ settler[s].stage = "idle"
  /\ status[p] \in Active
  /\ SettlerGoes(s, [stage |-> "read", pool |-> p, joinable |-> status[p] \in Joinable,
       full |-> status[p] = "CLOSED" \/ playerCount[p] >= MaxPlayers[p]])
  /\ UNCHANGED <<vars, SettlerRests, GameRests, spawns>>

(* orderBy: [{ totalScore: "desc" }, { joinedAt: "asc" }].                  *)
(* The roster is in commit order, which is that of joinedAt except among   *)
(* joins that race, where either may be first.                             *)
Beats(p, i, j) ==
  LET a == results[p][roster[p][i]].score
      b == results[p][roster[p][j]].score
  IN  a > b \/ (a = b /\ i < j)

Standings(p) ==
  LET n == Len(roster[p])
      Place(i) == 1 + Cardinality({j \in 1 .. n : Beats(p, j, i)})
      At(k) == roster[p][CHOOSE i \in 1 .. n : Place(i) = k]
  IN  [k \in 1 .. n |-> [user |-> At(k), done |-> results[p][At(k)].done]]

(* Mutation: some instead of every.                                        *)
SomeDone(list) == \E k \in DOMAIN list : list[k].done

AllDone(list) == \A k \in DOMAIN list : list[k].done

(* Mutation: a pool that does not fill is never due.                       *)
DueWhenFull(full, list, expired) == full /\ AllDone(list)

(* poolFull || expired, and allDone || expired.                            *)
Due(full, list, expired) == (full \/ expired) /\ (AllDone(list) \/ expired)

(* The participants are read after the tournament, and the rest of the     *)
(* settlement works on these two copies.                                   *)
ReadParticipants(s) ==
  LET me == settler[s]
      p  == me.pool
      list == Standings(p)
  IN  /\ me.stage = "read"
      /\ SettlerGoes(s,
           IF list = <<>>
             THEN IF me.joinable THEN Resting ELSE [stage |-> "empty", pool |-> p]
             ELSE IF Due(me.full, list, age[p] = "expired")
               THEN [stage |-> "rank", pool |-> p, list |-> list, next |-> 1]
               ELSE Resting)
      /\ UNCHANGED <<vars, SettlerRests, GameRests, spawns>>

SettleEmpty(s) ==
  /\ settler[s].stage = "empty"
  /\ WriteStatus(settler[s].pool, "SETTLED")
  /\ SettlerGoes(s, Resting)
  /\ spawns' = [spawns EXCEPT !.counting = @ + 1]
  /\ UNCHANGED <<seating, balance, ledger, SettlerRests, GameRests>>

(* One turn of the loop over the participants.                             *)
Winner(s) == settler[s].list[settler[s].next]
Reward(s) == ComputeDailyReward(settler[s].next)
PayStage(s, stage) == SettlerGoes(s, [settler[s] EXCEPT !.stage = stage])
(* Mutation: the loop ends one player early.                               *)
NextWinnerButLast(s) ==
  SettlerGoes(s, IF settler[s].next + 1 >= Len(settler[s].list)
                   THEN [stage |-> "mark", pool |-> settler[s].pool]
                   ELSE [stage |-> "rank", pool |-> settler[s].pool,
                         list |-> settler[s].list, next |-> settler[s].next + 1])

NextWinner(s) ==
  SettlerGoes(s, IF settler[s].next = Len(settler[s].list)
                   THEN [stage |-> "mark", pool |-> settler[s].pool]
                   ELSE [stage |-> "rank", pool |-> settler[s].pool,
                         list |-> settler[s].list, next |-> settler[s].next + 1])

RankWinner(s) ==
  /\ settler[s].stage = "rank"
  /\ rank' = [rank EXCEPT ![settler[s].pool][Winner(s).user] = settler[s].next]
  /\ PayStage(s, IF Reward(s) > 0 THEN "credit" ELSE "qualify")
  /\ UNCHANGED <<vars, contributed, jackpot, completions, GameRests, spawns>>

(* creditReward increments the balance and, in a second statement, writes  *)
(* the ledger row with the balance the first one returned.                 *)
CreditWinner(s) ==
  LET u == Winner(s).user
      after == balance[u] + Reward(s)
  IN  /\ settler[s].stage = "credit"
      /\ balance' = [balance EXCEPT ![u] = after]
      /\ SettlerGoes(s, [stage |-> "record", pool |-> settler[s].pool, list |-> settler[s].list,
                         next |-> settler[s].next, after |-> after])
      /\ UNCHANGED <<status, seating, ledger, SettlerRests, GameRests, spawns>>

(* Mutation: the reward has no ledger row.                                 *)
RecordNothing(s) ==
  LET me == settler[s]
  IN  /\ me.stage = "record"
      /\ SettlerGoes(s, [stage |-> "qualify", pool |-> me.pool, list |-> me.list, next |-> me.next])
      /\ UNCHANGED <<vars, SettlerRests, GameRests, spawns>>

RecordReward(s) ==
  LET me == settler[s]
  IN  /\ me.stage = "record"
      /\ ledger' = [ledger EXCEPT ![Winner(s).user] = Append(@,
           [type |-> "REWARD", amount |-> Reward(s), balanceAfter |-> me.after, pool |-> me.pool])]
      /\ SettlerGoes(s, [stage |-> "qualify", pool |-> me.pool, list |-> me.list, next |-> me.next])
      /\ UNCHANGED <<status, seating, balance, SettlerRests, GameRests, spawns>>

(* incrementDailyQualification reads the counter and writes it back.       *)
ReadQualification(s) ==
  LET me == settler[s]
  IN  /\ me.stage = "qualify"
      /\ IF Winner(s).done
           THEN SettlerGoes(s, [stage |-> "complete", pool |-> me.pool, list |-> me.list,
                                next |-> me.next, count |-> completions[Winner(s).user]])
           ELSE NextWinner(s)
      /\ UNCHANGED <<vars, SettlerRests, GameRests, spawns>>

WriteQualification(s) ==
  /\ settler[s].stage = "complete"
  /\ completions' = [completions EXCEPT ![Winner(s).user] = settler[s].count + 1]
  /\ NextWinner(s)
  /\ UNCHANGED <<vars, rank, contributed, jackpot, GameRests, spawns>>

MarkSettled(s) ==
  /\ settler[s].stage = "mark"
  /\ WriteStatus(settler[s].pool, "SETTLED")
  /\ SettlerGoes(s, [stage |-> "contribute", pool |-> settler[s].pool])
  /\ UNCHANGED <<seating, balance, ledger, SettlerRests, GameRests, spawns>>

(* contributeTournamentJackpotToEpoch: the flag and the amount are read    *)
(* before the transaction that moves the amount and sets the flag.         *)
ReadSlice(s) ==
  LET p == settler[s].pool
  IN  /\ settler[s].stage = "contribute"
      /\ IF contributed[p] \/ jackpotSlice[p] <= 0
           THEN /\ SettlerGoes(s, Resting)
                /\ spawns' = [spawns EXCEPT !.counting = @ + 1]
           ELSE /\ SettlerGoes(s, [stage |-> "transfer", pool |-> p, amount |-> jackpotSlice[p]])
                /\ UNCHANGED spawns
      /\ UNCHANGED <<vars, SettlerRests, GameRests>>

TransferSlice(s) ==
  /\ settler[s].stage = "transfer"
  /\ jackpot' = jackpot + settler[s].amount
  /\ contributed' = [contributed EXCEPT ![settler[s].pool] = TRUE]
  /\ SettlerGoes(s, Resting)
  /\ spawns' = [spawns EXCEPT !.counting = @ + 1]
  /\ UNCHANGED <<vars, rank, completions, GameRests>>

SettlerStep(s) ==
  \/ ReadParticipants(s) \/ SettleEmpty(s)
  \/ RankWinner(s) \/ CreditWinner(s) \/ RecordReward(s)
  \/ ReadQualification(s) \/ WriteQualification(s)
  \/ MarkSettled(s) \/ ReadSlice(s) \/ TransferSlice(s)

-----------------------------------------------------------------------------
(* The process dies with its workers: from outside, or of a seat that is   *)
(* taken twice, which may look like any other death here (DuplicateSeat of *)
(* PoolJoin does to the requests what Kill does).                          *)
Forget ==
  /\ settler' = [s \in Settlers |-> Resting]
  /\ agent' = Resting
  /\ spawns' = NoSpawns
  /\ failures' = failures + 1
  /\ UNCHANGED <<play, rank, age, contributed, jackpot, completions, reopened>>

(* A query of a tick fails: the error is logged and the tick abandoned.    *)
TickFails ==
  /\ failures < MaxFailures
  /\ \/ \E s \in Settlers : settler[s] # Resting /\ SettlerGoes(s, Resting) /\ UNCHANGED agent
     \/ agent # Resting /\ agent' = Resting /\ UNCHANGED settler
  /\ failures' = failures + 1
  /\ UNCHANGED <<vars, play, rank, age, contributed, jackpot, completions, spawns, reopened>>

Kill ==
  /\ failures < MaxFailures
  /\ req' = [r \in Requests |-> Idle]
  /\ UNCHANGED <<pools, credits>>
  /\ Forget

DailyNext ==
  \/ PlayerJoins
  \/ \E u \in Users, p \in Pools : SubmitScore(u, p) \/ SubmitOvertaken(u, p)
  \/ \E p \in Pools : TimePasses(p)
  \/ SpawnCounts \/ SpawnCreates
  \/ AgentStep
  \/ \E s \in Settlers : (\E p \in Pools : StartSettle(s, p)) \/ SettlerStep(s)
  \/ Kill \/ TickFails

DailySpec == DailyInit /\ [][DailyNext]_dailyVars

(* The timers fire for ever, the awaited queries return, and every tick of *)
(* the settlement worker visits every active pool; a pool gets old.        *)
(* Players owe nothing.                                                    *)
Fairness ==
  /\ WF_dailyVars(AgentStep)
  /\ WF_dailyVars(SpawnCounts) /\ WF_dailyVars(SpawnCreates)
  /\ \A p \in Pools : WF_dailyVars(TimePasses(p))
  /\ \A s \in Settlers :
       /\ WF_dailyVars(SettlerStep(s))
       /\ \A p \in Pools : SF_dailyVars(StartSettle(s, p))

FairDailySpec == DailySpec /\ Fairness

-----------------------------------------------------------------------------
(* What was paid out.                                                      *)
RewardRows(u, p) == {i \in DOMAIN ledger[u] : ledger[u][i].type = "REWARD" /\ ledger[u][i].pool = p}
Amounts(u) == [i \in DOMAIN ledger[u] |-> ledger[u][i].amount]
PaidTo(u, p) == SumFunctionOnSet(Amounts(u), RewardRows(u, p))
Settling(p) == {s \in Settlers : settler[s].stage # "idle" /\ settler[s].pool = p}

(* A settlement that runs twice pays twice.  One that is not interrupted   *)
(* runs once; only a tick that fails or a process that dies in the middle, *)
(* or a settled pool that left SETTLED, makes it run again, once each time. *)
Repeats(p) == failures + reopened[p]
Finished(u, p) == results[p][u].done \/ <<p, u>> \in undone

PaidOncePerRun ==
  \A u \in Users :
    /\ \A p \in Pools : Cardinality(RewardRows(u, p)) <= 1 + Repeats(p)
    /\ completions[u] <=
         SumFunction([p \in Pools |-> IF Finished(u, p) THEN 1 + Repeats(p) ELSE 0])

(* A settlement nothing disturbed paid exactly the reward table: ranks are *)
(* 1, 2, ..., each ranked player has the one reward of the rank, and a     *)
(* player without rank none.  Those without rank are the last to sit down: *)
(* they came after the participants were read.                             *)
SettledExactly ==
  /\ DailyTypeOK
  /\ \A p \in Pools : status[p] = "SETTLED" /\ Repeats(p) = 0 =>
       LET ranked == {u \in Users : rank[p][u] > 0}
       IN  /\ ranked = {roster[p][i] : i \in 1 .. Cardinality(ranked)}
           /\ {rank[p][u] : u \in ranked} = 1 .. Cardinality(ranked)
           /\ \A u \in ranked : PaidTo(u, p) = ComputeDailyReward(rank[p][u])
           /\ \A u \in Users \ ranked : RewardRows(u, p) = {}

(* Nobody wins while others still play: a reward was paid only to a player *)
(* who finished, or from a pool whose time was over.  And no two players   *)
(* of a settled pool hold the same rank, even after repeated settlements   *)
(* with a longer list of players.                                          *)
RewardsAreEarned ==
  \A p \in Pools :
    /\ \A u \in Users : RewardRows(u, p) # {} =>
         u \in Seated(p) /\ (Finished(u, p) \/ age[p] = "expired")
    /\ status[p] = "SETTLED" =>
         \A u, v \in Users : u # v /\ rank[p][u] > 0 => rank[p][u] # rank[p][v]

(* Debits and rewards that interleave lose no update: as long as nothing   *)
(* failed, a balance is the opening balance plus the ledger plus the       *)
(* rewards credited whose row is not written yet.  And the weekly jackpot  *)
(* receives every pool's slice at most once: never more than the entries   *)
(* of the contributing pools paid in.                                      *)
Unrecorded(s, u) ==
  IF settler[s].stage = "record" /\ Winner(s).user = u THEN Reward(s) ELSE 0

LedgersAgree ==
  /\ failures = 0 =>
       \A u \in Users :
         balance[u] = OpeningBalance[u] + SumFunction(Amounts(u))
                      + SumFunction([s \in Settlers |-> Unrecorded(s, u)])
  /\ jackpot <= SumFunction([p \in Pools |-> IF contributed[p] THEN jackpotSlice[p] ELSE 0])

(* A pool whose time is over is settled and stays so, whatever late joins, *)
(* recycling and deaths of the process disturb it.                         *)
ExpiredPoolsSettle == \A p \in Pools : (age[p] = "expired") ~> [](status[p] = "SETTLED")

(* The arcade never stays without a daily pool.                            *)
DailyReturns ==
  LET over == \A p \in Pools : status[p] \in {"ABSENT", "SETTLED"}
  IN  (over /\ \E p \in Pools : status[p] = "ABSENT") ~> ~over

-----------------------------------------------------------------------------
(* What the documentation says, and the code does not do.                  *)

(* "Daily pools must reach capacity (or expire) before settling - a single *)
(* player finishing early must not close the pool" (settlement.ts:119): a  *)
(* pool the agent recycled under a player does.                            *)
SettlesOnlyFullOrExpired ==
  \A s \in Settlers : settler[s].stage \in PayStages =>
    LET p == settler[s].pool
    IN  playerCount[p] >= MaxPlayers[p] \/ age[p] = "expired"

(* "| 1st | 50 |" (docs/ECONOMY.md:31): the table is what a rank earns.     *)
(* Two settlement ticks that overlap pay it twice.                         *)
PaysTheTable ==
  \A p \in Pools, u \in Users :
    rank[p][u] > 0 => PaidTo(u, p) <= ComputeDailyReward(rank[p][u])

(* "10% of each settled daily pool (credited when rewards are distributed)" *)
(* (docs/ECONOMY.md:47): a settled pool that no settlement works on has    *)
(* handed over its slice.                                                  *)
SettledSliceIsInJackpot ==
  \A p \in Pools :
    status[p] = "SETTLED" /\ Settling(p) = {} /\ jackpotSlice[p] > 0 => contributed[p]
=============================================================================
