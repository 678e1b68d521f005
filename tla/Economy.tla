------------------------------ MODULE Economy ------------------------------
(***************************************************************************)
(* The fee split and the reward tables of packages/shared/src/economy.ts.  *)
(* Credits are integers in the code (Prisma Int columns), Math.floor of a  *)
(* division of naturals is \div.                                           *)
(***************************************************************************)
EXTENDS Integers

(* Here and in the other modules, "Mutation" marks a variant of the        *)
(* definition after it with a plausible bug: no specification uses it, and *)
(* a run repeated with it in place must find its property violated.        *)

(* Percentages of DAILY_FEE_SPLIT; the weekly jackpot takes what is left.  *)
RewardsPercent  == 70
TreasuryPercent == 20

(* Mutation: the jackpot share is floored too.                             *)
SplitWithThreeFloors(fee) ==
  [rewards |-> (fee * 70) \div 100, treasury |-> (fee * 20) \div 100,
   weeklyJackpot |-> (fee * 10) \div 100]

SplitDailyEntryFee(fee) ==
  LET rewards  == (fee * RewardsPercent) \div 100
      treasury == (fee * TreasuryPercent) \div 100
  IN  [rewards |-> rewards, treasury |-> treasury,
       weeklyJackpot |-> fee - rewards - treasury]

(* DAILY_REWARD_TABLE: a rank outside the table earns nothing.             *)
DailyRewardTable == <<50, 35, 20, 15, 15, 2, 2, 2, 2, 2>>

ComputeDailyReward(rank) ==
  IF rank \in DOMAIN DailyRewardTable THEN DailyRewardTable[rank] ELSE 0

(* WEEKLY_REWARD_SHARES: the share, in percent, of each of the first three. *)
WeeklyShare(rank) ==
  CASE rank = 1 -> 35 [] rank = 2 -> 20 [] rank = 3 -> 12

Podium(rank, pool) == (pool * WeeklyShare(rank)) \div 100

PodiumTotal(pool) == Podium(1, pool) + Podium(2, pool) + Podium(3, pool)

(* Ranks 4 to 10 share the remainder in seven equal slots.                 *)
RunnerUpSlots == 7

RunnerUp(pool) ==
  LET remainder == pool - PodiumTotal(pool)
  IN  (IF remainder > 0 THEN remainder ELSE 0) \div RunnerUpSlots

ComputeWeeklyReward(rank, pool) ==
  CASE pool <= 0 \/ rank < 1 -> 0
    [] pool > 0 /\ rank \in 1 .. 3 -> Podium(rank, pool)
    [] pool > 0 /\ rank \in 4 .. 10 -> RunnerUp(pool)
    [] OTHER -> 0

(* What a pool full of paying players holds for its winners.               *)
FullDailyRewardPool(fee, players) == SplitDailyEntryFee(fee).rewards * players
=============================================================================
