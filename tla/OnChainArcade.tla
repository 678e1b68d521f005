---------------------------- MODULE OnChainArcade ----------------------------
(***************************************************************************)
(* The contracts with their users, the tournament escrow and the reward    *)
(* claims (TournamentPool.sol, RewardDistributor.sol), and the backend's   *)
(* indexer, which polls the hook's events into daily metrics               *)
(* (workers/hookIndexer.ts).  The indexer keeps the last block it has seen *)
(* in memory only, and a poll begins every 30 s whether the last one has   *)
(* ended or not.                                                           *)
(***************************************************************************)
EXTENDS ArcadeContracts, Sequences, Functions

CONSTANTS
  EntryFee, MaxPlayers,    \* of the tournament the owner creates
  DeployBlock,             \* HOOK_DEPLOY_BLOCK, the first block, or 0 when it is not set
  MaxBlocks, MaxDays,      \* bounds: the length of the chain, the days
  Polls,                   \* bound: polls that may be under way together
  MaxRestarts,             \* bound: restarts of the backend
  MaxOverlaps              \* bound: polls that begin while another is under way

ASSUME ArcadeConstants ==
  /\ {EntryFee, MaxPlayers, MaxBlocks, MaxDays, MaxRestarts, MaxOverlaps} \subseteq Nat
  /\ DeployBlock \in {0, 1}
  /\ MaxBlocks > 0 /\ MaxDays > 0
  /\ IsFiniteSet(Accounts) /\ IsFiniteSet(Polls)

VARIABLES
  pool,        \* TournamentPool.tournaments of the one tournament
  joined,      \* TournamentPool.joined
  root,        \* RewardDistributor.merkleRoot, as the list it commits to
  claimed,     \* RewardDistributor.claimed
  rewards,     \* history: what claims minted
  blocks,      \* the SwapRouted events of each block, what they sum up to
  today,
  metrics,     \* HookMetricsDaily, a row a day
  lastIndexed, \* lastIndexedBlock
  poll,        \* pollOnce, where each call of it stands
  restarts,
  brought,     \* history: what the upserts of each day brought
  overlaps     \* history: polls that began while another was under way

escrow == <<pool, joined, root, claimed, rewards>>
indexer == <<today, metrics, lastIndexed, poll, restarts, brought, overlaps>>
arcadeVars == <<contracts, escrow, blocks, indexer>>

Fields == {"swaps", "treasury", "jackpot", "ecosystem"}
Counts == [Fields -> Nat]
NoEvents == [field \in Fields |-> 0]
Plus(a, b) == [field \in Fields |-> a[field] + b[field]]
EventsIn(from, to) ==
  [field \in Fields |-> SumFunctionOnSet([n \in DOMAIN blocks |-> blocks[n][field]], from .. to)]
Resting == [stage |-> "idle"]

ArcadeTypeOK ==
  /\ ContractsTypeOK
  /\ pool \in [state : {"none", "open", "closed", "settled"}, time : {"before", "in", "after"},
               prizePool : Nat, playerCount : 0 .. MaxPlayers]
  /\ joined \subseteq Accounts /\ claimed \subseteq Accounts
  /\ root \in Roots
  /\ rewards \in [Accounts -> Nat]
  /\ blocks \in Seq(Counts) /\ Len(blocks) <= MaxBlocks
  /\ today \in 1 .. MaxDays
  /\ metrics \in [1 .. MaxDays -> Counts]
  /\ lastIndexed \in 0 .. MaxBlocks
  /\ DOMAIN poll = Polls
  /\ \A p \in Polls : poll[p].stage \in {"idle", "fetch", "read", "write", "move"}
  /\ restarts \in 0 .. MaxRestarts
  /\ brought \in [1 .. MaxDays -> Counts]
  /\ overlaps \in 0 .. MaxOverlaps

(* The deployment mines the first block.                                   *)
ArcadeInit ==
  /\ ContractsInit
  /\ pool = [state |-> "none", time |-> "before", prizePool |-> 0, playerCount |-> 0]
  /\ joined = {} /\ claimed = {}
  /\ root \in {r \in Roots : \A a \in Accounts : r[a] = 0}
  /\ rewards = [a \in Accounts |-> 0]
  /\ blocks = <<NoEvents>>
  /\ today = 1
  /\ metrics = [d \in 1 .. MaxDays |-> NoEvents]
  /\ lastIndexed = 0
  /\ poll = [p \in Polls |-> Resting]
  /\ restarts = 0
  /\ brought = [d \in 1 .. MaxDays |-> NoEvents]
  /\ overlaps = 0

-----------------------------------------------------------------------------
(* TournamentPool.                                                         *)
EscrowOnly == <<swapping, root, claimed, rewards, blocks, indexer>>

CreateTournament ==
  /\ pool.state = "none"
  /\ pool' = [pool EXCEPT !.state = "open"]
  /\ UNCHANGED <<ledger, joined, EscrowOnly>>

PoolTimePasses ==
  /\ pool.state # "none" /\ pool.time # "after"
  /\ pool' = [pool EXCEPT !.time = IF @ = "before" THEN "in" ELSE "after"]
  /\ UNCHANGED <<ledger, joined, EscrowOnly>>

MayJoin(u) ==
  /\ pool.state = "open" /\ pool.time = "in"
  /\ pool.playerCount < MaxPlayers
  /\ u \notin joined

Join(u) ==
  /\ MayJoin(u)
  /\ IF EntryFee > 0 THEN BurnCredits(u, EntryFee) ELSE UNCHANGED ledger
  /\ joined' = joined \cup {u}
  /\ pool' = [pool EXCEPT !.prizePool = @ + EntryFee, !.playerCount = @ + 1]
  /\ UNCHANGED EscrowOnly

Close ==
  /\ pool.state = "open"
  /\ pool' = [pool EXCEPT !.state = "closed"]
  /\ UNCHANGED <<ledger, joined, EscrowOnly>>

Settle ==
  /\ pool.state \in {"open", "closed"}
  /\ pool' = [pool EXCEPT !.state = "settled"]
  /\ UNCHANGED <<ledger, joined, EscrowOnly>>

(* RewardDistributor.                                                      *)
SetMerkleRoot(r) ==
  /\ root' = r
  /\ UNCHANGED <<contracts, pool, joined, claimed, rewards, blocks, indexer>>

Claim(a) ==
  /\ a \notin claimed
  /\ claimed' = claimed \cup {a}
  /\ MintCredits(a, root[a])
  /\ rewards' = [rewards EXCEPT ![a] = @ + root[a]]
  /\ UNCHANGED <<swapping, pool, joined, root, blocks, indexer>>

-----------------------------------------------------------------------------
(* A swap, in the last block.                                              *)
Event(fee) == [field \in Fields |-> IF field = "swaps" THEN 1 ELSE SwapRouted(fee)[field]]

Swap(u, okbIn) ==
  /\ SwapForCredits(u, okbIn)
  /\ blocks' = IF hook' = hook THEN blocks
               ELSE [blocks EXCEPT ![Len(blocks)] = Plus(@, Event(HookFee(Spent(okbIn))))]
  /\ UNCHANGED <<escrow, indexer>>

Administer ==
  /\ \/ \E p \in Prices : SetOkbUsdPrice(p)
     \/ \E s \in Splits : SetSplit(s)
     \/ \E a \in Amounts \cup {0} : ChangeLiquidity(a)
  /\ UNCHANGED <<escrow, blocks, indexer>>

NextBlock ==
  /\ Len(blocks) < MaxBlocks
  /\ blocks' = Append(blocks, NoEvents)
  /\ UNCHANGED <<contracts, escrow, indexer>>

-----------------------------------------------------------------------------
(* pollOnce.  What a call holds of its own: the blocks it asked for, what  *)
(* it found in them, what it will write; beside is history: whether it     *)
(* began while another call was under way.                                 *)
Chain == <<contracts, escrow, blocks>>
Books == <<metrics, brought>>
Sees == Len(blocks) - 1      \* the last block is not mined yet

Polling(p) == poll[p].stage # "idle"
SomePolling == \E p \in Polls : Polling(p)

DayPasses ==
  /\ today < MaxDays
  /\ today' = today + 1
  /\ UNCHANGED <<Chain, Books, lastIndexed, poll, restarts, overlaps>>

Start(latest) == IF DeployBlock > 0 THEN DeployBlock - 1 ELSE latest - 1

(* The number of the latest block may be an old answer: lastIndexedBlock   *)
(* is read when it arrives.                                                *)
Poll(p) ==
  /\ ~Polling(p)
  /\ \E latest \in 1 .. Sees :
       /\ lastIndexed' = IF lastIndexed = 0 THEN Start(latest) ELSE lastIndexed
       /\ IF latest <= lastIndexed' THEN UNCHANGED <<poll, overlaps>>
          ELSE /\ SomePolling => overlaps < MaxOverlaps
               /\ overlaps' = IF SomePolling THEN overlaps + 1 ELSE overlaps
               /\ poll' = [poll EXCEPT ![p] = [stage |-> "fetch", beside |-> SomePolling,
                                               from |-> lastIndexed' + 1, to |-> latest]]
  /\ UNCHANGED <<Chain, today, Books, restarts>>

Moving(call) == [stage |-> "move", beside |-> call.beside, from |-> call.from, to |-> call.to]

FetchLogs(p) ==
  /\ poll[p].stage = "fetch"
  /\ LET call  == poll[p]
         found == EventsIn(call.from, call.to)
     IN  poll' = [poll EXCEPT ![p] =
                    IF found["swaps"] = 0 THEN Moving(call)
                    ELSE [stage |-> "read", beside |-> call.beside, from |-> call.from,
                          to |-> call.to, found |-> found]]
  /\ UNCHANGED <<Chain, today, Books, lastIndexed, restarts, overlaps>>

ReadMetrics(p) ==
  /\ poll[p].stage = "read"
  /\ LET call == poll[p]
     IN  poll' = [poll EXCEPT ![p] =
                    [stage |-> "write", beside |-> call.beside, from |-> call.from,
                     to |-> call.to, found |-> call.found,
                     day |-> today, sum |-> Plus(metrics[today], call.found)]]
  /\ UNCHANGED <<Chain, today, Books, lastIndexed, restarts, overlaps>>

WriteMetrics(p) ==
  /\ poll[p].stage = "write"
  /\ LET call == poll[p]
     IN  /\ metrics' = [metrics EXCEPT ![call.day] = call.sum]
         /\ brought' = [brought EXCEPT ![call.day] = Plus(@, call.found)]
         /\ poll' = [poll EXCEPT ![p] = Moving(call)]
  /\ UNCHANGED <<Chain, today, lastIndexed, restarts, overlaps>>

(* Mutation: the block the poll began with is remembered.                  *)
MoveShort(p) ==
  /\ poll[p].stage = "move"
  /\ lastIndexed' = poll[p].to - 1
  /\ poll' = [poll EXCEPT ![p] = Resting]
  /\ UNCHANGED <<Chain, today, Books, restarts, overlaps>>

Move(p) ==
  /\ poll[p].stage = "move"
  /\ lastIndexed' = poll[p].to
  /\ poll' = [poll EXCEPT ![p] = Resting]
  /\ UNCHANGED <<Chain, today, Books, restarts, overlaps>>

(* A call of the poll fails: the cursor stays where it is.                 *)
PollFails(p) ==
  /\ poll[p].stage \in {"fetch", "read", "write"}
  /\ poll' = [poll EXCEPT ![p] = Resting]
  /\ UNCHANGED <<Chain, today, Books, lastIndexed, restarts, overlaps>>

Restart ==
  /\ restarts < MaxRestarts
  /\ restarts' = restarts + 1
  /\ lastIndexed' = 0
  /\ poll' = [p \in Polls |-> Resting]
  /\ UNCHANGED <<Chain, today, Books, overlaps>>

ArcadeNext ==
  \/ \E u \in Accounts : Join(u) \/ Claim(u) \/ \E a \in Amounts : Swap(u, a)
  \/ CreateTournament \/ PoolTimePasses \/ Close \/ Settle
  \/ \E r \in Roots : SetMerkleRoot(r)
  \/ Administer \/ NextBlock \/ DayPasses
  \/ \E p \in Polls : \/ Poll(p) \/ FetchLogs(p) \/ ReadMetrics(p) \/ WriteMetrics(p)
                      \/ Move(p) \/ PollFails(p)
  \/ Restart

ArcadeSpec == ArcadeInit /\ [][ArcadeNext]_arcadeVars

-----------------------------------------------------------------------------
(* Properties.                                                             *)

(* Credits appear only by swaps and claims and disappear only in           *)
(* tournaments: what all accounts hold, the manager's totals, the prize    *)
(* pool and the claims agree, and an account is paid one claim, from one   *)
(* list.                                                                   *)
CreditsAccounted ==
  /\ ArcadeTypeOK
  /\ SumFunction(credits) = minted - burned
  /\ burned = pool.prizePool /\ pool.prizePool = EntryFee * Cardinality(joined)
  /\ \A a \in Accounts : rewards[a] # 0 => \E r \in Roots : rewards[a] = r[a]

(* The fee that leaves the pool arrives in the vault to the last token,    *)
(* whatever the floors and the split, and the events tell the same sums.   *)
HookBooksAgree ==
  LET events == EventsIn(1, Len(blocks))
  IN  /\ quote = hook.routed
      /\ events["swaps"] = hook.swaps
      /\ events["jackpot"] = hook.jackpot /\ events["ecosystem"] = hook.ecosystem
      /\ events["treasury"] = hook.routed - hook.jackpot - hook.ecosystem

Indexed(field) == SumFunction([d \in 1 .. MaxDays |-> metrics[d][field]])

(* While no poll begins before the last one has ended, the metrics miss no *)
(* event of a block that was indexed, though polls fail, days pass and the *)
(* backend restarts.  However polls overlap, move the cursor back and      *)
(* overwrite each other's rows, a restart or an overlap counts every event *)
(* once more at most.                                                      *)
MetricsFollowTheChain ==
  DeployBlock > 0 => \A field \in Fields :
    LET known == EventsIn(1, lastIndexed)[field]
        all   == EventsIn(1, Len(blocks))[field]
    IN  /\ overlaps = 0 => known <= Indexed(field)
        /\ Indexed(field) <= (1 + restarts + overlaps) * all
=============================================================================
