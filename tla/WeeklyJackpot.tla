---------------------------- MODULE WeeklyJackpot ----------------------------
(***************************************************************************)
(* The weekly jackpot: its epochs, the slices the daily pools hand over,   *)
(* the weekly tournament the agent opens in an epoch's last day, and its   *)
(* settlement (services/economy.ts, workers/jackpotEpoch.ts,               *)
(* workers/agent.ts, workers/settlement.ts).                               *)
(*                                                                         *)
(* Epochs are created by whoever finds none: the routes, the broadcasts    *)
(* and the agent through getActiveWeeklyEpoch, and the worker that rolls   *)
(* them.  Find and create are two awaits everywhere.                       *)
(***************************************************************************)
EXTENDS Economy, FiniteSets, FiniteSetsExt, Functions

CONSTANTS
  MaxEpochs,     \* bound: the epochs that are ever created
  Dailies,       \* the daily pools that are ever opened
  Weeklies,      \* the weekly tournaments that are ever opened
  DailyFee,      \* DAILY_ENTRY_FEE
  WeeklyFee,     \* WEEKLY_ENTRY_FEE
  MaxEntries,    \* bound: the players of a pool
  MaxVisitors,   \* bound: requests that create an epoch at one time
  MaxFailures    \* bound: how often the process dies

ASSUME WeeklyConstants ==
  /\ {MaxEpochs, DailyFee, WeeklyFee, MaxEntries, MaxVisitors, MaxFailures} \subseteq Nat
  /\ MaxEpochs > 0
  /\ IsFiniteSet(Dailies)

Epochs == 1 .. MaxEpochs

VARIABLES
  made,        \* how many epochs there are; later ones end later
  age,         \* of each epoch: "early", "late" (24 h are left) or "over"
  settled,     \* WeeklyJackpotPool.settled
  credits,     \* WeeklyJackpotPool.dailyContributionCredits
  daily,       \* the daily pools
  weekly,      \* the weekly tournaments
  paid,        \* history: what each weekly tournament paid out
  agent, roller, settler,   \* where the workers stand
  visitors,    \* requests that found no epoch and have not created one yet
  failures

epochs == <<made, age, settled, credits>>
workers == <<agent, roller, settler>>
weeklyVars == <<epochs, daily, weekly, paid, workers, visitors, failures>>

Ages     == {"early", "late", "over"}
Statuses == {"ABSENT", "ACTIVE", "SETTLED"}    \* ACTIVE: OPEN, LIVE or CLOSED
Resting  == [stage |-> "idle"]

WeeklyTypeOK ==
  /\ made \in 0 .. MaxEpochs
  /\ age \in [Epochs -> Ages]
  /\ settled \in [Epochs -> BOOLEAN]
  /\ credits \in [Epochs -> Nat]
  /\ daily \in [Dailies -> [status : Statuses, epoch : 0 .. MaxEpochs, entries : 0 .. MaxEntries,
                            contributed : BOOLEAN]]
  /\ weekly \in [Weeklies -> [status : Statuses, epoch : 0 .. MaxEpochs,
                              entries : 0 .. MaxEntries, seed : Nat]]
  /\ paid \in [Weeklies -> Nat]
  /\ agent.stage \in {"idle", "find daily", "make daily", "open daily", "find weekly",
                      "make weekly", "count weekly", "show weekly", "open weekly"}
  /\ roller.stage \in {"idle", "settle", "create"}
  /\ settler.stage \in {"idle", "contribute", "transfer", "display", "list", "pay", "mark", "reset"}
  /\ visitors \in 0 .. MaxVisitors
  /\ failures \in 0 .. MaxFailures

WeeklyInit ==
  /\ made = 0
  /\ age = [e \in Epochs |-> "early"]
  /\ settled = [e \in Epochs |-> FALSE]
  /\ credits = [e \in Epochs |-> 0]
  /\ daily = [d \in Dailies |->
                [status |-> "ABSENT", epoch |-> 0, entries |-> 0, contributed |-> FALSE]]
  /\ weekly = [w \in Weeklies |-> [status |-> "ABSENT", epoch |-> 0, entries |-> 0, seed |-> 0]]
  /\ paid = [w \in Weeklies |-> 0]
  /\ agent = Resting /\ roller = Resting /\ settler = Resting
  /\ visitors = 0
  /\ failures = 0

Slice(d) == daily[d].entries * SplitDailyEntryFee(DailyFee).weeklyJackpot
Slices(e) ==
  SumFunctionOnSet([d \in Dailies |-> IF daily[d].epoch = e THEN Slice(d) ELSE 0], Dailies)

(* The slices of the active daily pools that are not handed over yet.      *)
Waits(d, e) == daily[d].epoch = e /\ daily[d].status = "ACTIVE" /\ ~daily[d].contributed
Pending(e) ==
  SumFunctionOnSet([d \in Dailies |-> IF Waits(d, e) THEN Slice(d) ELSE 0], Dailies)

RewardPool(w) == weekly[w].seed + weekly[w].entries * WeeklyFee

-----------------------------------------------------------------------------
(* Epochs.                                                                 *)

Active == {e \in 1 .. made : ~settled[e] /\ age[e] # "over"}
Expired == {e \in 1 .. made : ~settled[e] /\ age[e] = "over"}

CreateEpoch == made < MaxEpochs /\ made' = made + 1 /\ UNCHANGED <<age, settled, credits>>

(* An epoch that began earlier is never younger.                           *)
TimePasses(e) ==
  /\ e <= made
  /\ age[e] # "over"
  /\ \A f \in 1 .. e - 1 : age[f] = "over" \/ age[f] # age[e]
  /\ age' = [age EXCEPT ![e] = IF @ = "early" THEN "late" ELSE "over"]
  /\ UNCHANGED <<made, settled, credits, daily, weekly, paid, workers, visitors, failures>>

(* A request or a broadcast calls getActiveWeeklyEpoch.                    *)
VisitorFindsNone ==
  /\ Active = {}
  /\ visitors < MaxVisitors
  /\ visitors' = visitors + 1
  /\ UNCHANGED <<epochs, daily, weekly, paid, workers, failures>>

VisitorCreates ==
  /\ visitors > 0
  /\ CreateEpoch
  /\ visitors' = visitors - 1
  /\ UNCHANGED <<daily, weekly, paid, workers, failures>>

(* rollWeeklyEpochIfNeeded.                                                *)
RollerElse == <<daily, weekly, paid, agent, settler, visitors, failures>>

RollFinds ==
  /\ roller.stage = "idle"
  /\ Expired # {}
  /\ roller' = [stage |-> "settle", epoch |-> Max(Expired)]
  /\ UNCHANGED <<epochs, RollerElse>>

RollSettles ==
  /\ roller.stage = "settle"
  /\ settled' = [settled EXCEPT ![roller.epoch] = TRUE]
  /\ roller' = [stage |-> "create"]
  /\ UNCHANGED <<made, age, credits, RollerElse>>

RollCreates ==
  /\ roller.stage = "create"
  /\ CreateEpoch
  /\ roller' = Resting
  /\ UNCHANGED RollerElse

-----------------------------------------------------------------------------
(* Players.  A join that was checked before a pool was settled commits     *)
(* after it.                                                               *)
JoinDaily(d) ==
  /\ daily[d].status # "ABSENT"
  /\ daily[d].entries < MaxEntries
  /\ daily' = [daily EXCEPT ![d].entries = @ + 1]
  /\ UNCHANGED <<epochs, weekly, paid, workers, visitors, failures>>

JoinWeekly(w) ==
  /\ weekly[w].status # "ABSENT"
  /\ weekly[w].entries < MaxEntries
  /\ weekly' = [weekly EXCEPT ![w].entries = @ + 1]
  /\ UNCHANGED <<epochs, daily, paid, workers, visitors, failures>>

-----------------------------------------------------------------------------
(* runTournamentAgentTick: spawnDailyPoolIfNeeded, then                    *)
(* spawnWeeklyPoolIfNeeded.                                                *)
AgentElse == <<paid, roller, settler, visitors, failures>>

AgentTick ==
  /\ agent.stage = "idle"
  /\ agent' = [stage |-> IF \A d \in Dailies : daily[d].status # "ACTIVE"
                           THEN "find daily" ELSE "find weekly"]
  /\ UNCHANGED <<epochs, daily, weekly, AgentElse>>

(* The epoch row the agent goes on with, with the credits it had.          *)
With(e) ==
  IF agent.stage \in {"find daily", "make daily"}
    THEN [stage |-> "open daily", epoch |-> e]
    ELSE [stage |-> "count weekly", epoch |-> e, credits |-> credits[e]]

(* Mutation: the agent leaves it to others to make an epoch.               *)
AgentFindsEpochOnly ==
  /\ agent.stage \in {"find daily", "find weekly"}
  /\ agent' = IF Active # {} THEN With(Max(Active)) ELSE Resting
  /\ UNCHANGED <<epochs, daily, weekly, AgentElse>>

AgentFindsEpoch ==
  /\ agent.stage \in {"find daily", "find weekly"}
  /\ agent' = IF Active # {} THEN With(Max(Active))
              ELSE [stage |-> IF agent.stage = "find daily" THEN "make daily" ELSE "make weekly"]
  /\ UNCHANGED <<epochs, daily, weekly, AgentElse>>

AgentMakesEpoch ==
  /\ agent.stage \in {"make daily", "make weekly"}
  /\ CreateEpoch
  /\ agent' = With(made')
  /\ UNCHANGED <<daily, weekly, AgentElse>>

Unused(pool) == {x \in DOMAIN pool : pool[x].status = "ABSENT"}

(* Dailies and Weeklies bound the pools: when none is left, none is        *)
(* opened.                                                                 *)
AgentOpensDaily ==
  /\ agent.stage = "open daily"
  /\ \/ \E d \in Unused(daily) :
          daily' = [daily EXCEPT ![d].status = "ACTIVE", ![d].epoch = agent.epoch]
     \/ Unused(daily) = {} /\ UNCHANGED daily
  /\ agent' = [stage |-> "find weekly"]
  /\ UNCHANGED <<epochs, weekly, AgentElse>>

(* endsAt is the epoch's.                                                  *)
WeeklyIsOver(w) == age[weekly[w].epoch] = "over"

AgentCountsWeekly ==
  /\ agent.stage = "count weekly"
  /\ agent' = IF age[agent.epoch] = "early"
                 \/ \E w \in Weeklies : weekly[w].status = "ACTIVE" /\ weekly[w].epoch = agent.epoch
                THEN Resting
                ELSE [agent EXCEPT !.stage = "show weekly"]
  /\ UNCHANGED <<epochs, daily, weekly, AgentElse>>

AgentReadsDisplay ==
  /\ agent.stage = "show weekly"
  /\ agent' = [stage |-> "open weekly", epoch |-> agent.epoch,
               seed |-> agent.credits + Pending(agent.epoch)]
  /\ UNCHANGED <<epochs, daily, weekly, AgentElse>>

AgentOpensWeekly ==
  /\ agent.stage = "open weekly"
  /\ \/ \E w \in Unused(weekly) :
          weekly' = [weekly EXCEPT ![w] = [status |-> "ACTIVE", epoch |-> agent.epoch,
                                           entries |-> 0, seed |-> agent.seed]]
     \/ Unused(weekly) = {} /\ UNCHANGED weekly
  /\ agent' = Resting
  /\ UNCHANGED <<epochs, daily, AgentElse>>

AgentStep ==
  \/ AgentTick \/ AgentFindsEpoch \/ AgentMakesEpoch \/ AgentOpensDaily
  \/ AgentCountsWeekly \/ AgentReadsDisplay \/ AgentOpensWeekly

-----------------------------------------------------------------------------
(* runSettlementTick: the daily pools in short (DailyPool has them in      *)
(* full), the weekly tournaments step by step.                             *)
SettlerElse == <<agent, roller, visitors, failures>>

MarkDaily(d) ==
  /\ settler.stage = "idle"
  /\ daily[d].status = "ACTIVE"
  /\ daily' = [daily EXCEPT ![d].status = "SETTLED"]
  /\ settler' = [stage |-> "contribute", pool |-> d]
  /\ UNCHANGED <<epochs, weekly, paid, SettlerElse>>

ReadSlice ==
  /\ settler.stage = "contribute"
  /\ LET d == settler.pool
     IN  settler' = IF daily[d].contributed \/ Slice(d) = 0 THEN Resting
                    ELSE [stage |-> "transfer", pool |-> d, amount |-> Slice(d)]
  /\ UNCHANGED <<epochs, daily, weekly, paid, SettlerElse>>

(* To the epoch the pool was opened in, whatever became of that.           *)
TransferSlice ==
  /\ settler.stage = "transfer"
  /\ LET d == settler.pool
     IN  /\ credits' = [credits EXCEPT ![daily[d].epoch] = @ + settler.amount]
         /\ daily' = [daily EXCEPT ![d].contributed = TRUE]
  /\ settler' = Resting
  /\ UNCHANGED <<made, age, settled, weekly, paid, SettlerElse>>

(* settleWeeklyTournament: the row of the tournament with that of its      *)
(* epoch, then the slices that are pending.                                *)
ReadWeekly(w) ==
  /\ settler.stage = "idle"
  /\ weekly[w].status = "ACTIVE"
  /\ WeeklyIsOver(w)
  /\ settler' = [stage |-> "display", weekly |-> w, pool |-> RewardPool(w),
                 shown |-> credits[weekly[w].epoch]]
  /\ UNCHANGED <<epochs, daily, weekly, paid, SettlerElse>>

(* Mutation: the pending slices include those handed over since the epoch  *)
(* was read.                                                               *)
ReadDisplayOfAll ==
  /\ settler.stage = "display"
  /\ LET w == settler.weekly
     IN  settler' = [stage |-> "list", weekly |-> w,
                     pool |-> settler.pool + settler.shown + Slices(weekly[w].epoch)]
  /\ UNCHANGED <<epochs, daily, weekly, paid, SettlerElse>>

ReadDisplay ==
  /\ settler.stage = "display"
  /\ LET w == settler.weekly
     IN  settler' = [stage |-> "list", weekly |-> w,
                     pool |-> settler.pool + settler.shown + Pending(weekly[w].epoch)]
  /\ UNCHANGED <<epochs, daily, weekly, paid, SettlerElse>>

PayFrom(w, pool, rank, players) ==
  settler' = IF rank > players THEN [stage |-> "mark", weekly |-> w]
             ELSE [stage |-> "pay", weekly |-> w, pool |-> pool, rank |-> rank, players |-> players]

(* Mutation: as in a daily pool, nobody to pay means nothing to settle.    *)
ListEntrantsIfAny ==
  /\ settler.stage = "list"
  /\ IF weekly[settler.weekly].entries = 0 THEN settler' = Resting
     ELSE PayFrom(settler.weekly, settler.pool, 1, weekly[settler.weekly].entries)
  /\ UNCHANGED <<epochs, daily, weekly, paid, SettlerElse>>

ListEntrants ==
  /\ settler.stage = "list"
  /\ PayFrom(settler.weekly, settler.pool, 1, weekly[settler.weekly].entries)
  /\ UNCHANGED <<epochs, daily, weekly, paid, SettlerElse>>

PayWeekly ==
  /\ settler.stage = "pay"
  /\ paid' = [paid EXCEPT ![settler.weekly] = @ + ComputeWeeklyReward(settler.rank, settler.pool)]
  /\ PayFrom(settler.weekly, settler.pool, settler.rank + 1, settler.players)
  /\ UNCHANGED <<epochs, daily, weekly, SettlerElse>>

MarkWeekly ==
  /\ settler.stage = "mark"
  /\ weekly' = [weekly EXCEPT ![settler.weekly].status = "SETTLED"]
  /\ settler' = [settler EXCEPT !.stage = "reset"]
  /\ UNCHANGED <<epochs, daily, paid, SettlerElse>>

ResetEpoch ==
  /\ settler.stage = "reset"
  /\ LET e == weekly[settler.weekly].epoch
     IN  /\ settled' = [settled EXCEPT ![e] = TRUE]
         /\ credits' = [credits EXCEPT ![e] = 0]
  /\ settler' = Resting
  /\ UNCHANGED <<made, age, daily, weekly, paid, SettlerElse>>

SettlerStep ==
  \/ ReadSlice \/ TransferSlice
  \/ ReadDisplay \/ ListEntrants \/ PayWeekly \/ MarkWeekly \/ ResetEpoch

Crash ==
  /\ failures < MaxFailures
  /\ failures' = failures + 1
  /\ agent' = Resting /\ roller' = Resting /\ settler' = Resting
  /\ visitors' = 0
  /\ UNCHANGED <<epochs, daily, weekly, paid>>

WeeklyNext ==
  \/ \E e \in Epochs : TimePasses(e)
  \/ VisitorFindsNone \/ VisitorCreates
  \/ RollFinds \/ RollSettles \/ RollCreates
  \/ \E d \in Dailies : JoinDaily(d) \/ MarkDaily(d)
  \/ \E w \in Weeklies : JoinWeekly(w) \/ ReadWeekly(w)
  \/ AgentStep \/ SettlerStep
  \/ Crash

(* The workers' timers fire for ever, and a tick of the settlement visits  *)
(* every tournament that is due.                                           *)
WeeklySpec ==
  /\ WeeklyInit /\ [][WeeklyNext]_weeklyVars
  /\ WF_weeklyVars(AgentStep) /\ WF_weeklyVars(SettlerStep)
  /\ WF_weeklyVars(RollFinds) /\ WF_weeklyVars(RollSettles) /\ WF_weeklyVars(RollCreates)
  /\ \A w \in Weeklies : SF_weeklyVars(ReadWeekly(w))

-----------------------------------------------------------------------------
(* Properties.                                                             *)

(* What a weekly tournament pays from is backed: the entries it took, and  *)
(* the epoch's slices, once as the seed of its reward pool and once as the *)
(* jackpot displayed at its end.  A slice that moves from its pool to the  *)
(* epoch while the two are read is not counted twice.                      *)
Backed(w) == weekly[w].entries * WeeklyFee + 2 * Slices(weekly[w].epoch)

JackpotIsBacked ==
  /\ WeeklyTypeOK
  /\ settler.stage \in {"list", "pay"} => settler.pool <= Backed(settler.weekly)
  /\ \A w \in Weeklies : paid[w] <= (1 + failures) * Backed(w)

(* A weekly tournament whose time is over is settled, across deaths of the *)
(* process.                                                                *)
WeekliesSettle ==
  \A w \in Weeklies :
    (weekly[w].status = "ACTIVE" /\ WeeklyIsOver(w)) ~> (weekly[w].status = "SETTLED")

(* The jackpot goes on: while the bound allows another epoch, there is an  *)
(* active one again.                                                       *)
EpochsReturn == (Active = {} /\ made < MaxEpochs) ~> (Active # {} \/ made = MaxEpochs)

(* "| Funding | **10% of each settled daily pool** (credited when rewards  *)
(* are distributed)" (docs/ECONOMY.md:47): the pool whose shares are paid  *)
(* is what the entries and the epoch's daily pools collected.              *)
PaysFromWhatWasCollected ==
  settler.stage = "pay" =>
    settler.pool <= weekly[settler.weekly].entries * WeeklyFee
                    + Slices(weekly[settler.weekly].epoch)
=============================================================================
