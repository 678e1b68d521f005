# FRX Arcade in TLA+

This directory specifies FRX Arcade: how it moves credits, seats and scores on
the server, how the browser plays, signs in, swaps and shows, and what its
contracts keep. TLC checks the modules on small instances; TLAPS proves for
every size what matters most of the joins, the daily pools and their settlement,
the scores, the deposits and withdrawals, both versions of the game with the
play page, the wallet, the weekly jackpot, and the contracts with the indexer of
their events. Paths below are relative to the repository's root.

## 1. The system

| Component | State it keeps | Operations | Talks to |
|---|---|---|---|
| Fee split and reward tables (`packages/shared/src/economy.ts`) | none | `splitDailyEntryFee`, `computeDailyReward`, `computeWeeklyReward` | called by join and settlement |
| Tournament join (`apps/backend/src/routes/tournaments.ts`) | users, credit ledger, tournaments, participants, platform treasury | `POST /tournaments/join` | shares its tables with the agent, the settlement and the scores |
| Tournament agent (`workers/agent.ts`) | tournaments | a timer tick that spawns, recycles and spawns again, daily and weekly | shares the tournaments; awaited by nobody |
| Settlement (`workers/settlement.ts`, `services/economy.ts`) | ranks, rewards, qualification, jackpot pool | a timer tick over all active pools | calls the agent's spawn without waiting for it |
| Weekly jackpot and epochs (`workers/jackpotEpoch.ts`, `services/economy.ts`) | epochs, weekly tournaments | the epoch roll, `getActiveWeeklyEpoch` in every request that shows it, weekly settlement | fed by daily settlements |
| Score submission (`routes/scores.ts`, `services/antiCheat.ts`) | nonces, attempts, submitted scores, participant aggregates, moderation flags | `GET /scores/nonce`, `POST /scores/submit` | settlement ranks by the aggregates |
| Credits (`routes/credits.ts`, `services/swapVerify.ts`, `okbPayout.ts`, `okbPrice.ts`, `priceSync.ts`) and the deposit dialog | balances, deposits, withdrawals, a cached price | deposit, withdraw, payout, price sync | the contracts, by RPC |
| Contracts (`packages/contracts/src`) | credits, pool, claims, vault, the hook's counters | swap, hook fee split, join, claim, withdraw | the indexer reads their events |
| Hook indexer (`workers/hookIndexer.ts`) | the last block read (in memory), daily metrics | a timer tick over block ranges | the chain |
| Sign-in (`routes/auth.ts`, `lib/hooks/useWalletAuth.ts`) | nonces; in the browser session, cached challenge, linked wallet | challenge, verify, sign out | the wallet |
| Wallet lock (`apps/web/lib/wagmi/okxAuth.ts`) | a chain of promises | connect, read accounts, sign, switch chain, send | the extension, which takes one request at a time |
| Tile Rush, React (`components/tile-rush/TileRushGame.tsx`) and the play page (`app/play/page.tsx`) | board, tray, timer, phase; attempt and submission | tap, shuffle, tick, match clear, end of run, retry, submit | score submission |
| Tile Rush, Phaser (`packages/game-engine`) | the same, in a scene with sprites and tweens | tap, landing, match clear, shuffle, tick, reload of the session | the component that hosts it |
| Realtime (`apps/backend/src/socket`, `lib/hooks/useSocket.ts`) and the views | rooms, sockets, query caches | broadcast loops, snapshots, pushes, polls | every page |
| Onboarding (`lib/hooks/usePoolOnboarding.ts`, `app/dashboard`, the gate of `app/play`) | what the page has loaded | find a pool, check credits, join, go to the game | join, balance, participations |
| Admin routes, other pages | none of their own | reads, a flag, one insert, layout | |

One Node process serves all requests and runs all workers on `setInterval`
timers. No lock protects anything there: every `await` is a point where every
other request and worker may run. What is atomic is a single SQL statement, or a
Prisma transaction as far as Postgres' READ COMMITTED makes it so. Express 4
does not await async handlers, so an error rethrown from one is an unhandled
rejection that ends the process, workers included. In the browser a handler is a
closure over the last render: what a timer or an answer sets is seen after the
next one only. The hard behaviours follow from that:

- a check (capacity, balance, nonce, known hash, status, seat) is made on a row
  that has changed when the write happens;
- the agent, the settlement and the joins all write `Tournament.status`, each
  by the tournament's id and unconditionally;
- the settlement pays a list of players in a loop that is not a transaction, so
  a crash leaves some of them paid and the tournament unsettled;
- two transactions on one seat do not see each other's attempts;
- an answer that is lost leaves the client and the server of two minds: a
  deposit, a payout, a join, a score, a sign-in;
- a callback outlives what it was made for: a popup the sign-out, a timer the
  render, a tween the session, a broadcast the data it read;
- everything that must eventually happen depends on timers.

What makes each component correct:

| Component | Correct when |
|---|---|
| Join | a seat is charged exactly once and nobody pays without one; ledger, balances and pool counters agree; the capacity holds up to the requests in flight |
| Agent | only empty pools are recycled; there is always a daily pool and an epoch again |
| Settlement | each player gets the reward of one rank once; the slice reaches the jackpot once; every pool that is over is settled, whatever disturbs it |
| Weekly jackpot | what is paid is backed by entries and slices |
| Scores | the two tables agree and are those of the attempts; a nonce is not reused; a completed seat stays completed |
| Credits | balances are what the ledger says; a swap is credited once; a withdrawal is paid or refunded; a deposit is refused for a reason |
| Contracts, indexer | credits, totals and prize pool agree; fees arrive whole; each event reaches the metrics once |
| Sign-in, wallet | signing out is final; a session is not ended by somebody else's state; a nonce signs in once; the lock is passed on |
| Tile Rush, play page | tiles are conserved, a run ends and is reported once with the score it shows; what the server has was played; a retry follows a saved attempt |
| Realtime, onboarding | what is shown follows what changed; who paid gets to play |

## 2. Modules

| Module | Models | Built on |
|---|---|---|
| `Economy` | the fee split and the reward tables, as operators | |
| `EntryGate` | abstract: a user who can pay enters a pool once, the price moves to the house, in one step | |
| `PoolJoin` | `POST /tournaments/join` over its tables, with racing requests and a process that dies | `Economy`; implements `EntryGate` |
| `DailyPool` | a daily pool's life: joins, scores, the agent's tick, the settlement's tick, crashes | `PoolJoin` |
| `WeeklyJackpot` | epochs, weekly tournaments, the slices that feed them and the settlement that pays | `Economy` |
| `AntiCheat` | the rules a submitted run is held against, as operators | |
| `ScoreSubmission` | `POST /scores/submit` and the nonces, with concurrent transactions | `AntiCheat` |
| `ArcadeContracts` | swap router, hook, credit manager and vault, one action per transaction | |
| `OnChainArcade` | the tournament pool and the claims on the chain, and the indexer that reads its events | `ArcadeContracts` |
| `CreditBridge` | deposits and withdrawals between the dialog, the backend and the chain, and the price | `ArcadeContracts` |
| `Layout`, `TileBoard` | where the tiles lie and which lies on which; tray, triples, stuck trays, as operators | |
| `TileRush` | the React game: taps, timers, renders and effects | `TileBoard` |
| `PlayPage` | the page around it: starting, submitting, retrying, polling, reloading | `TileRush` |
| `TileRushScene` | the Phaser scene and the component that hosts it | `TileBoard` |
| `WalletLock` | the promise chain wallet requests queue in | |
| `WalletSession` | connecting, signing in and out, in several components | `WalletLock` |
| `LiveViews` | broadcast loops, sockets, rooms and query caches of one view | |
| `Onboarding` | one tab of a player who finds, joins and plays a pool | `LiveViews` |
| `EconomyProofs` | theorems about the split and the prizes, lemmas about sums | `Economy` |
| `PoolJoinProofs` | theorems about `PoolJoin` and about the `DailyPool` that extends it | `DailyPool`, `EconomyProofs` |
| `ServerProofs` | theorems about two parts of the server that share no state | `ScoreSubmission`, `WeeklyJackpot`, `EconomyProofs` |
| `ContractProofs` | theorems about the two systems around the contracts | `CreditBridge`, `OnChainArcade`, `EconomyProofs` |
| `WalletSessionProofs` | theorems about the wallet | `WalletSession` |
| `TileBoardProofs` | lemmas about the tray | `TileBoard` |
| `PlayPageProofs`, `TileRushSceneProofs` | theorems about the two games | the games, `TileBoardProofs` |
| `MC...` | the constants of the runs | |

**PoolJoin.** `balance`, `ledger`, `treasury` are `User.creditBalance`, the
`CreditLedgerEntry` rows and `PlatformTreasury.balance`; `status`,
`playerCount`, `rewardPool`, `prizePool`, `jackpotSlice` are the columns of a
`Tournament`; `roster` its participants by `joinedAt`. `req` holds the
handler's local state: which await it stands at. The four reads are one action
each, as other requests run between them. The transaction is one action
(`CommitJoin`): its first write takes the row lock all competitors need, and it
decides on locked rows only. `RollBackDebit` is the guarded debit that matches
no row. `DuplicateSeat` is the unique index refusing a second row: the error is
rethrown and ends the process, so all requests are lost. The kind and the price
of a pool are constants because no code changes them. A refused request leaves
the slot idle: that is a step that changes nothing and is not listed.

**DailyPool** adds the workers. The agent's tick and each settlement tick have a
stage, one per await, and the copies they read. `spawns` counts the
`spawnDailyPoolIfNeeded` calls the settlement starts without waiting. `age`
abstracts the clock to what the code compares: over two hours old (recyclable)
and over 24 hours old (expired). `SubmitScore` is here only what the settlement
reads of it; `SubmitOvertaken` is what `ScoreSubmission` shows can happen, a
completed player who is un-completed. The pools are of the kind `DAILY`, which
`MCDailyPool` assumes and no proof needs. `Kill` is a process that dies, of a
duplicate seat or from outside; `TickFails` a query of a tick that fails.
`failures`, `reopened` and `undone` are history variables.

**WeeklyJackpot** keeps per epoch its status and age, per weekly tournament the
epoch it was opened for and what it collected, per daily pool its slice. The
epoch roll, a visitor's `getActiveWeeklyEpoch`, the agent and the settlement
each have a stage per await. A seed of a tournament's reward pool is the jackpot
displayed when the agent read it. A settlement reads the row, the slices that
are pending and the entrants at three awaits, and pays rank by rank by the table
of `Economy`. Who is qualified is part of `PoolJoin`.

**ScoreSubmission** follows one player, as nonces belong to a wallet. The
transaction has three steps: its first writes lock the nonce row and the
attempt's row (`Blocks`); the read of all attempts sees what is committed and
its own row; the aggregates follow and commit. Signatures are abstracted to
`Fail`.

**ArcadeContracts, OnChainArcade, CreditBridge.** A transaction is one action
and a revert is a guard. Uniswap's pool is external: it takes what its liquidity
allows, one for one, the rest of the OKB stays in the router as in the code. The
hook's fee and its split are computed in integers, as in Solidity.
`CreditBridge` adds the backend: one action per await of a deposit or a
withdrawal, with the dialog of one player, who may close it, edit the amount
while the swap is under way, or post again. A payout that is submitted is in
`payouts` until it is mined or reverts; the backend may not hear of it. The
credits are priced by `okbPrice` (a cache with two feeds), set on the router by
`priceSync`, whose minute worker waits for no earlier run (`syncing` are the
prices on their way; one may be mined after the backend that sent it has died),
and checked against the price at the end of the swap's block. A node that tells
neither the receipt nor the transaction makes the verification throw, which is
answered like a swap that does not verify (`VerifyDeposit`). The page may lose
the connection to a post that goes on (`PostIsLost`); credits that are answered
close the player's dialog whatever it shows by then (`CreditIsShown`). Any
request that asks for the price may fill the cache (`QuotePrice`, `Quotes`); one
of them is `GET /deposit/config`, which tells the dialog its rate
(`LoadConfig`). Until it answers the dialog goes by the router's own price
(`ReadRouterPrice`), and it converts nothing that its rate makes worthless.
`OnChainArcade` adds the tournament pool, the Merkle claims, the blocks and the
indexer: `lastIndexed` is in memory and lost in a restart, the metrics are in
the database by day. A poll may begin while others are under way, as the
interval waits for none: `poll` has what each call holds between its awaits (the
blocks it asked for, what it found, the sums it will write), and the number of
the latest block may be an old answer. Four variables are history: `restarts`,
`overlaps` (polls that began beside another), `beside` of a call (whether it is
one of them) and `brought` (what the upserts of a day were to add to it).
`blocks` begins with the block of the hook's deployment and keeps of each what
its `SwapRouted` events sum up to, which is all the indexer uses of them.

**Layout, TileBoard.** `Layout` builds the 216 slots as the code does: the
turtle and the gap fillers nearest to its core, the bounding box, the square
board with the tiles in its middle, the face of each tile on it (`RectNorm`),
which lies over which (`CenterUnder`, with the edges), and the throws of
`assertValidSlots`. Coordinates are integers in half units. `TileBoard` is what
both games share: the boards `buildTypeBag` can deal (`InitialBoards`, each face
a multiple of three times), the tray that groups alike tiles, and the triples.

**TileRush, PlayPage.** The state of a game is what the last render shows;
`clearing` is the match-clear timer with what it closed over, `queued` what it
has set and no render shows, `expiry` the effect on a clock at zero. A click in
such a gap sees the old state; `hasty` counts these. `PlayPage` owns the
submission, a chain of awaits (`nonce`, `sign`, `post`, `saved`), the status it
has loaded (`known`) and the server's attempts (`saved`); a post whose page was
reloaded is `afloat`. The page is composed with the game: `InGame` is a step of
the game and the page's `onRunComplete` with it.

**TileRushScene.** `flying` are the tiles between a tap and the landing of the
tween, with the run they belong to; `sprite` says of each tile which face its
sprite shows and whether it listens. `CreateGame` is the effect of the hosting
component, which makes a new game when an option changes. `hasScene` is whether
the handle it keeps has the scene: `createTileRushGame` looks the scene up right
after `new Phaser.Game` (`:532`), and whether Phaser has made it by then is up to
Phaser, which is not in the repository. A handle without one reloads and
shuffles nothing, and reports no end.

**WalletLock, WalletSession.** `chains` are the promise chains: a new one begins
when a disconnect resets it while the old one still has its requests. Each
mounted component with `useWalletAuth` has a `linked` wallet and runs the same
effects; `wagmi` is what the library knows, `permitted` what the extension
allows. `posts` are the challenge and verify calls, heard or not. A conversion
checks the session up to its first await (`Convert`, which makes a component one
of `converting`) and sends after the simulation, whatever has become of the
session (`SendTransaction`).

**LiveViews, Onboarding.** One view of one kind (the standings of a pool, the
jackpot, the feed of tournaments): the callbacks of the broadcast loop, started
by an interval (`IntervalFires`) or by a join, a contribution or a new epoch
(`BroadcastEconomyUpdates`), each with what it has read, the messages in order
per socket, the room, the poll, and the query cache with `shown`, the copy a
component keeps of it (the feed's effect copies no empty list). `Onboarding` is
the tab of one player: the list, the participations, the status, the credits it
has loaded, and the steps of `joinPool` and of the play page's gate, from the
dashboard or from the demo page, which has `joinCheapestPool`.

Definitions marked "Mutation" are variants with a plausible bug. No
specification uses them; with one in place of the definition after it, a run
finds its property violated, which shows that the property depends on that
line of the code.

## 3. Runs

| Run | Instance | What it checks, and shows |
|---|---|---|
| `join` | two users with 25 and 20 credits, two requests; a daily pool of fee 15 and two seats, a weekly of fee 10 and one, a practice pool whose fee is not charged | the ledger, balances, seats and pool counters stay exact under races and crashes; the capacity is exceeded by at most one less than the requests in flight; the handler implements `EntryGate` |
| `daily` | one pool of two seats, two players, one request, one settlement tick, one failure, one completed player un-completed | a run of the settlement pays the pool once and in full, and only players who finished or whose time was over; a pool is paid twice only after a join reopened it or a crash cut the payment |
| `daily_live` | two pools of one seat, one player, one failure, fairness | the ledger and the balances agree until a crash splits them; every pool that expired is settled for good; there is a daily pool again and again |
| `score` | one seat, three nonces, two submissions at a time, runs within the rules and too fast | the two score tables agree; the aggregates are right unless a submission was overtaken; a nonce serves at most the submissions in flight |
| `weekly` | two epochs, a daily and a weekly pool, one entry, one visitor, one failure, fairness | what a settlement pays is backed by entries and slices; weekly pools are settled; an active epoch returns |
| `credits` | one account, 10 or 40 OKB, prices 4 and 8, one swap, two requests, two payouts, three posts, one crash | balances are what the ledger says; what races can credit or overdraw is bounded; payouts are accounted for; a deposit is refused for one of four reasons |
| `page` | six tiles in one pile, two attempts, one click before a render, one reload, fairness | what the server has was played; points are those of triples; every run is reported once and ends; Retry follows a saved attempt |
| `chain` | two accounts, two splits, three reward lists, three blocks, two days, two polls that may overlap once, one restart | credits, totals, prize pool and claims agree; fees arrive whole; without an overlap the metrics miss nothing, and a restart or an overlap counts an event once more at most |
| `scene` | six tiles in two piles, two attempts, one reload of the session, a handle with the scene or without | tiles in flight included, none is lost or doubled; a tap takes the tile it shows or none; an end is reported if the handle has the scene, and never otherwise |
| `wallet` | two accounts, two components, two calls at a time, one disconnect, one nonce, two posts, one reload, fairness | a disconnect lasts; a nonce serves only requests handled at one time; a session is not ended by a component that lags behind; the lock is passed on except behind a swap |
| `wallet_swap` | the same constants with swaps that find no wagmi client, fairness | violated: the swap waits for a lock it holds itself (section 5) |
| `onboarding` | two callbacks, one change of the standings (for the feed, to an empty list), one dropped connection, one failed query, two turns of other players, fairness | a change is shown in the end; a push that was heard does not vanish; a player who paid gets to play |

Sizes on two workers: `join` 0.6 million states, `daily` 4.7, `daily_live` 0.3,
`score` 2.1, `weekly` 0.3, `credits` 4.2, `page` 2.8, `chain` 2.2, `scene` 2.2,
`wallet` 1.7, `onboarding` 0.3; each takes between half a minute and two and a
half.

**Bounds.** What the properties are about needs two of each actor at most: two
requests race for one seat, two submissions for one attempt, two callbacks for
one view, two components for one session. Two seats make the first and the
last of a list of winners differ; two pools, epochs and attempts make the one
that follows differ from the one before; three blocks are one indexed, one
being indexed and one after it. Failures, restarts, retries and reloads are
bounded because each may happen at every await; one at any await is what is
checked. Two polls that overlap once are enough for each of the two ways in which
they disturb each other, the same blocks twice and a row of the day overwritten;
the proof is for any number. Two runs have constraints. In `credits`, a player
either withdraws or swaps: the two meet only in the balance, which each changes
by an increment (`Apart`); and the pool's liquidity does not grow any more once
there is the swap (`PoolRests`), as only another swap would notice. In `chain`,
either the escrow and the claims are used or the indexer: they share no variable
but the credits; and once polls have overlapped one account swaps, at the split
of the deployment (`Apart`). `scene` leaves out the states in which a callback of
a session that was replaced lands in the next one (`NoStrays`), which is
described in section 5. Six tiles are two triples, enough for a tray that fills,
a match while another is cleared and a last match; the generated levels of
`Layout` are used by the same operators with their own sizes.

**Symmetry** is used in runs of invariants only: players and requests in
`daily`, nonces and submissions in `score`, requests in `credits`. **Deadlock**
is not checked: in every run there are states in which nothing has to happen,
since all nonces are used, all tiles are taken or a bound is reached.

**Fairness.** What is assumed, and why:

- workers: `setInterval` fires for ever and the awaited queries return, so each
  step of the agent, the settlement, the spawns and the epoch roll is weakly
  fair. A tick looks at every active pool, so starting with one is strongly
  fair: it is skipped while the pool is not due and found at a later tick.
- game: timers fire and React renders what was set (`PlayFairness`). Nobody has
  to tap, sign, submit or retry.
- wallet: a popup is answered or closed, and effects run with the render that
  made them due. Nobody has to connect or sign in.
- views: intervals fire and queries end; a poll whose answers are lost is not
  lost every time (strong fairness of `ServerAnswers`).
- onboarding: the steps of a handler that was started go on, and the dashboard's
  list is polled (the demo page's need not be). `ClickJoin` is strongly fair and
  `LeaveDemo` weakly: an assumption about a player who goes on from the demo page
  to the dashboard and keeps trying there, which is the subject of
  `PaidPlayersGetToPlay`.

## 4. Proofs

The theorems hold for every value of the constants that satisfies the
assumptions of the modules, which TLC evaluates in the runs. Beyond types and
bounds these say:

- that there are finitely many of what the invariants count or add up: requests,
  users and pools (`FiniteRequests`, `FiniteTables`), settlement ticks
  (`DailyConstants`), submissions (`FiniteSlots`), swaps (`BridgeConstants`),
  daily pools of an epoch (`WeeklyConstants`), accounts of the contracts
  (`ArcadeConstants`), tiles (`BoardConstants`), components (`SessionConstants`);
- `ArcadeConstants`: `HOOK_DEPLOY_BLOCK` is not set or is the block of the
  deployment, with which the modelled chain begins;
- `ContractConstants`: the parts of a split add up to the whole, as the hook's
  setter demands, and the one it starts with is of this kind;
- `BridgeConstants`: there is a largest withdrawal to ask for, in terms of which
  the overdraft is bounded, and a request may come;
- `BoardsAreDealt`: every face shows a multiple of three times, which
  `buildTypeBag` guarantees;
- `SessionConstants`: a component besides the modal is mounted;
- that `None` is none of the records or numbers it stands beside
  (`RunConstants`, `PageConstants`, `SceneConstants`, `BridgeConstants`).

For each specification with theorems there is an inductive invariant. TLC
checked it as an invariant of the runs' instances before it was proved; a step
lemma per action, or per kind of action, shows what the action leaves alone and
what it keeps.

**Sums.** What users hold, what a ledger adds up to and what a jackpot may hold
are sums over finite sets, and the sum of the community modules is the `CHOOSE`
of a recursive function. `EconomyProofs` shows that there is such a function
(`AddsExists`) and that it does not matter which element it takes first
(`SumTakes`), by induction over the *set* of sizes for which the claim holds
(`AllNaturals`): the library's induction theorems, which take a predicate, are
of no use to the provers. `SumChanges`, `SumSame`, `SumGrows`, `SumIsNat` and
`SumGoesOn` (a sum over `1 .. n` is the one over `1 .. i` and the rest) are what
the proofs then cite. The module also has the arithmetic about floors: the three
parts of the daily split add up to the fee, and the ten weekly prizes fit the
pool.

**Joins** (`PoolJoinProofs`). `Inv` is the conjunction of the type,
`OneChargePerSeat`, `LedgerReplays`, `PoolBooksMatchSeats`, `OverfillBounded`,
the solvency of accounts, `FullDailyIsClosed` and one strengthening,
`AbsentIsUntouched`: a pool that was not created has no seats and no money, or
creating it could contradict its counters. All actions but `CommitJoin` leave
the tables alone or write only the status. `OverfillBounded` counts the requests
at the commit as well as the seats: a request that passed the check of the
capacity holds a claim to a seat, and there are at most as many as requests.
`CreditsConserved` needs that the shares of an entry are its price, for each
kind of pool, and the sums. `ImplementsEntryGate` is the refinement: a commit is
the one step of `EntryGate` (the user can pay, has no seat and gets it, the
house receives the price), every other step a stutter. Its guard comes from
`NoOverdraft` and from the guarded debit, not from the checks made earlier,
which may be stale.

**Daily pools** (`PoolJoinProofs`). `DailyInv` is the type (`DailyTyped`, with
what each stage of a settlement has read), `ListsFit` and `SeatsInv`. `ListsFit`
says that the list a settlement works on is of the players who sat first, each
once, all of them done or the time over; that `Standings` returns such a list
is proved from the order of the scores (`BeatsIsOrder`, `PlacesDiffer`,
`PlacesAreHeld`). `DailyInv` holds for any number of ticks that overlap, and so
does `BalanceInv`: what the ledger of a user does not explain are the rewards
between the credit and its row (`BalancesFollowLedgers`).

The other theorems have the hypothesis `TicksDoNotOverlap`, since without it
they do not hold: two ticks on one pool pay it twice, and may leave two players
of one rank when somebody sat down between their reads. The code has no guard
against that (`workers/settlement.ts:238`), only an interval of three minutes,
which a tick is expected not to need. Joins, scores, the agent, spawns, deaths
and failures are not restricted. The invariant is then `SettledInv`:

- `WorkIsOpen`: a pool that is being paid is not settled; only its own
  settlement could have settled it;
- `RankInv`: the places below the current one hold their ranks, and nobody off
  the list has a rank, since lists only grow from one settlement to the next;
- `RowsInv`, `CompletionsInv`: the bounds of `PaidOncePerRun` are sharper by one
  for a player whom the settlement under way has not come to. A death or a
  reopening raises the bound by the one that the repetition may spend;
- `ExactInv`: while nothing disturbed the pool, nothing is paid before the
  settlement starts, then the places one after another (`PaidSoFar`), and at the
  end the table (`PaidAsRanked`), from which `SettledExactly` follows;
- `SliceInv`: a slice about to be handed over is not in the jackpot yet.

**Weekly jackpot** (`ServerProofs`). `JackpotIsBacked` speaks of what is paid;
`WeeklyInv` says what must have been so before. `EpochIsBacked`: what an epoch
holds, and any copy of it the agent or the settlement has read, is of slices
that were handed over (`Handed`), and a seed is of slices, handed over or not.
A slice is handed over once (`DailyAtHand`: the one about to be transferred is
not marked yet), so the pending slices read later can be added to a copy read
earlier without counting one twice: of each slice, either the copy has it or
it is pending at most. `PaymentIsBacked`: what was paid is covered by the pool
once per death, and by what the settlement under way has paid (`UnderWay`), rank
by rank; that this is never more than the pool is `WeeklyPrizesFitPool`.

**Scores** (`ServerProofs`). `ScoreInv` adds `ViewsAreCurrent` (a
transaction that was not overtaken has read what it will leave) and
`NonceIsShared` (the uses of a nonce and the submissions that passed its check
are together at most as many as slots). Without the first,
`FaithfulUnlessOvertaken` is not inductive; without the second, nothing bounds
the uses. `MoveSpeedRuleIsRedundant` is a fact about the rules: 400 ms a match
are 150 matches a minute and the other rule allows 45, so the first never
decides.

**Credits** (`ContractProofs`). `BridgeInv` says that a swap minted what it was
worth at the price of its moment (`SwapsPriced`), that a price once known is one
of the prices (`PricesKnown`), that a dialog which posted shows a mined swap of
its own player (`DialogIsOfSwap`), and that a deposit is of such a swap and has
a reason when it is refused (`DepositsAreOfSwaps`). `RefusedForAReason` alone is
not inductive: a deposit of a swap whose block has no price yet, or of another
player, could be refused for none of the reasons and get one later or never. A
node that does not answer is the fourth reason, and the only one that a retry by
hand removes: the others are there in every later post of the swap, but for an
amount that is edited back. `SwapsLast` is the lemma it rests on: nothing about
a mined swap changes but the price of its block, once. `BooksInv` is about
races: `DepositsRace` counts the posts that found a swap unknown with the
credits it has got, `WithdrawalsRace` says how much of a balance those that
passed the check may still take (all but one of them may find too little),
`PayoutsNumbered` that a new payout differs from those under way, and that what
was heard of is what was sent unless the backend died. `RestTyped` is the type
of the rest, which needs that a transaction pays only what its contract holds.
`LedgerHolds` is `BalanceIsLedger`, as sums over swaps and requests.

**Contracts and indexer** (`ContractProofs`). `ArcadeInv` is in three parts.
`LedgerAddsUp` makes `CreditsAccounted` inductive: the pool's player count is
the number of those who joined, and an account without a claim has no reward.
`HookBooksAgree` needs that the parts of a fee add up to it, for every split
(`PartsOfFee`), and that an event adds itself to its block and nothing to the
others (`EventAdds`, `NextBlockAdds`). The indexer's part is about polls
that overlap. `PollsAreCurrent` says what each poll holds between its awaits:
the blocks it asked for are mined and change no more, what it found in them is
still so, and the sums it will write are at most what the day was ever brought
and what it found; they are exactly that of the row while polls do not overlap.
Of the polls under way one began alone and *leads*, the others began beside
another and *lag*. A poll that leads counts the events between the cursor and
its last block; one that lags may count what another counts too, and may move
the cursor back, so that a later poll counts them again. Rows are overwritten,
so that sums of `metrics` may fall: the invariant is about `brought`, which only
grows and is at least what the rows have (`RowsAreBrought`). `BroughtBound` is a
potential: each restart, and each overlap that has ended, stands for all events
of the chain; a poll that lags stands for those it is done with (`AllBehind`),
since the rest it may still bring or have read again; and the poll that leads,
or the cursor, for those up to `Reached`. When a poll that lags ends, the cursor
goes where it says, and what the potential loses at `Reached` is what the ended
overlap gains. `MetricsCover` is the other side, without an overlap: the metrics
have the events up to `Reached`, which is ahead of `lastIndexed` between the
write and the cursor's move; a block without a swap may be skipped because it
has no events at all (`EventsCount`). `MetricsFollowTheChain` follows, and so
does `EventsAreCountedOnce`: without a restart or an overlap the metrics are
exact.

**Games** (`TileBoardProofs`, `PlayPageProofs`, `TileRushSceneProofs`). The
lemmas are about the tray for any tiles in any order: a tile that is put in is
one more, tiles leave by threes, the rest closes up, at most two of a face stay,
so no triple is left. `PlayInv` says of the game what a timer and an update that
is not rendered yet are going to make of tray and score (`TrayInv`), counts the
tiles (`CountInv`) and says when a run has been reported (`ReportInv`). The
exception is a click between the end of a clearing and its render, counted by
`hasty` and `again`, which scores a triple again: the theorem says that nothing
else does. `ServerInv` and `KnownInv` tie the attempts the server has to the
page: it has `1 .. Used`, each with a score that was played, and the page is
ahead by at most one. `RetryAfterSave` follows from `CompleteInv`. In the scene,
`TurnInv` says that one tile is in the air at a time and what its turn was
worked out from, `SpriteInv` that a sprite listens exactly if its tile may be
tapped, except one that was tapped and is in the air, `EndInv` that a run is
reported exactly when it is over. `TilesAccounted` is about games in which no
tile landed in another run than its own (`strays` counts these), and
`EndIsReported` about games whose session was not replaced, as they state; it
distinguishes the games whose handle has the scene from those whose handle was
given out before there was one.

**Wallet** (`WalletSessionProofs`). `WalletInv` contains `SwapsWait` (each
switch of the network in a chain is waited for by a swap that holds the lock),
`AwayInv` (after a disconnect no component but the modal's is linked) and
`NonceInv`: the tokens of a nonce and the requests about to get one are never
more than there may be requests at one time. `SessionLasts` is an action
property: the step lemmas say of every action that writes the session which
component did it and what it had linked.

Some theorems state what no run checks any more (`TypeCorrect`,
`AccountsStaySolvent`, `FullDailyStaysClosed`, `ScoreTypeCorrect`,
`BridgeTypeCorrect`, `DailyTypeCorrect`, `NoFlagIsLost`): a proof says more than
the run did.

**Only model-checked:** the liveness properties, which TLAPS cannot prove:
`ExpiredPoolsSettle`, `DailyReturns`, `WeekliesSettle`, `EpochsReturn`,
`RunsEnd`, `LockIsPassedOn` and those of the views and the onboarding. Every
invariant, action property and refinement of the runs is a theorem.

## 5. Seen while modelling

One run is violated by what the code does:

- `wallet_swap`: `sendOkxTransaction` waits for `ensureOkxXLayerChain` inside
  `withWalletLock` (`apps/web/lib/wagmi/okxAuth.ts:267`), which takes the same
  lock (`:192`). The comment at `:184` says "swaps can still use
  sendOkxTransaction".

The following are definitions of the modules that are violated when they are
put into a configuration; they say what a document promises.

| Definition | In | The document | What the code does |
|---|---|---|---|
| `CapacityRespected` | `PoolJoin` | `docs/ECONOMY.md:15`, the maximum of players | requests in flight exceed it |
| `SettlesOnlyFullOrExpired` | `DailyPool` | `workers/settlement.ts:119` | a pool the agent recycled under a player is settled though it is neither |
| `PaysTheTable` | `DailyPool`, two settlers | `docs/ECONOMY.md:31` | two ticks pay the pool twice |
| `SettledSliceIsInJackpot` | `DailyPool` | `docs/ECONOMY.md:47` | a crash after SETTLED leaves the slice behind |
| `AggregateIsSumOfAttempts` | `ScoreSubmission` | `docs/api.md:44` | an overtaken submission writes what it read |
| `CompletionIsFinal` | `ScoreSubmission` | `routes/scores.ts:82` | the same, for the completed flag |
| `PaysFromWhatWasCollected` | `WeeklyJackpot` | `docs/ECONOMY.md:47` | the jackpot is in the seed and is added again |
| `CreditedOnce` | `CreditBridge` | `routes/credits.ts:157` | posts handled at one time credit a swap each |
| `ViewsCatchUp` | `LiveViews` | (none) | a push that was read before the settlement and comes after the first poll that includes it stays |

Divergences of text:

- `docs/ECONOMY.md:82` recycles pools with zero joins; the agent closes the one
  it found empty without looking again (`workers/agent.ts:166`).
- `docs/ECONOMY.md:80` opens a pool when none is active; a closed pool that is
  not settled counts as active (`workers/agent.ts:51`).
- `docs/ECONOMY.md:27` splits a pool of 140 credits in prizes that add up to
  145.
- `docs/api.md:41` names replay protection; `README.md:136` does not say that an
  attempt may be submitted again and replaces the stored one.
- `README.md:107` describes the Phaser engine; `/play` and `/try` mount the
  React game.

What the models do because the code does it, and a reader may not expect:

- *Wallet.* A disconnect begins a new chain, so that two requests may be at the
  extension at one time. A cached challenge stays after a verification that
  failed or was lost, and the next sign-in signs a used nonce. On a fresh visit
  the first sign-in may be cleared by a component that has not heard of the
  wallet yet. A connect that is answered after a disconnect links the modal's
  component. Signing out does not revoke the token.
- *Game.* A click between the end of a match's clearing and its render scores
  the triple again. A post that comes late may overwrite a newer score. After a
  submission that failed Retry stays disabled.
- *Scene.* A shuffle and a reload leave sprites with the faces they had until
  they are drawn again, and a new session does not stop a tween: the landing of
  an old tile may reach the new tray. The component takes the scene from the
  handle when the phase changes (`PhaserTileRushClient.tsx:162`), where the
  optional chain covers a missing handle and not a missing scene: if
  `createTileRushGame.ts:532` read it before Phaser had it, the callback throws
  and the end the player sees is never reported (`EndIsReported` says which of
  the two happens). `reloadSession` and `shuffleBoard` throw as well.
- *Weekly.* The roll and a visitor may both create an epoch. A slice that is
  handed over after the epoch's weekly pool was settled is never paid.
- *Credits.* The known-hash check and the credit are awaits apart
  (`routes/credits.ts:182`-`206`). A withdrawal is debited without a condition
  (`:270`) and refunded when the answer of the node is lost, though it is paid.
  A swap in the block of a price change is refused for ever
  (`swapVerify.ts:199`-`219`), and so is one on which the hook takes no fee
  (`:189`). A node that fails while a swap is verified (`:101`-`109`) has it
  refused in the same words as a swap that is not genuine
  (`routes/credits.ts:194`). A failed deposit that is posted by hand may be
  posted again by the effect (`DepositModal.tsx:186`). What the pool does not
  take stays in the router, which has no function to take it out.
- *Chain.* `RewardDistributor.claimed` is not per list: who has claimed once
  claims never again. A restart of the indexer counts from the deployment. Polls
  of the indexer overlap when one takes longer than 30 s, as the catch-up after
  a restart may, which reads 100 blocks at a time (`hookIndexer.ts:43`): they
  count the same blocks twice, or keep the events of one of them only when both
  read the day's row before either wrote it; the cursor may go back.
- *Views.* Patches carry a `revision` the client does not look at, and callbacks
  overlap. A socket that reconnects is not in its room (`useSocket.ts:40`). A
  late push of the standings sticks (`PoolLeaderboard.tsx:34`). The feed keeps
  the pools it had when the list it fetches is empty (`useSocket.ts:69`), until a
  push says so.
- *Onboarding.* Participations are not fetched again after a join. The join
  route refuses a full pool or a low balance before it says that the seat is
  taken. The dashboard shows only the first pool that may be joined.
- *Admin.* An open tournament created there has a type no list returns.
- *Anti-cheat.* The rate is compared in floating point, which differs from the
  exact comparison for 219, 369, 393 and 438 matches; the model is exact.

## 6. Not modelled, and next

Not modelled: the admin routes (a flag and an insert that no other component
reads back), the season statistics (nothing here reads them), titles, signals
and all text, drawing and sound, the landing pages, the expiry of tokens and
cookies, and the setters of addresses and roles in the contracts. The database's
isolation is modelled as Postgres' READ COMMITTED, as far as row locks and
guarded updates go; a statement that fails is taken to have had no effect, so a
commit whose answer is lost is not modelled.

Two of the server's timers may fire before their last tick has ended. Settlement
ticks that overlap are in `DailyPool` (`Settlers`), with the theorems that do
not need `TicksDoNotOverlap`; the runs have one. Polls of the indexer that
overlap are in `OnChainArcade` (`Polls`), in the run and in the theorems: how
often an event is counted at most has a bound, and what they lose, which is up
to all that overlapping polls found, has none.

Next: a bound on what overlapping settlement ticks pay; and the expiry of
sign-in tokens.
