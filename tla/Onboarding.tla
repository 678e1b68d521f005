----------------------------- MODULE Onboarding -----------------------------
(***************************************************************************)
(* From the dashboard or the demo page into a daily pool and to the game,  *)
(* as one player's tab does it (lib/hooks/usePoolOnboarding,               *)
(* app/dashboard/page, app/demo/page, the gate of app/play/page,           *)
(* lib/tournaments, WithdrawModal).  A click starts a chain of awaited     *)
(* calls; every call may fail, and a call that failed may have been        *)
(* carried out.  What the page decides on is cached: the pools it lists,   *)
(* its own participations, the credits it shows.                           *)
(*                                                                         *)
(* The server's part of a join is PoolJoin's; here it is one step.  The    *)
(* composed specification is that of a tab that is either on these pages   *)
(* or on one of LiveViews: they share the pool, and no state of the tab.   *)
(***************************************************************************)
EXTENDS LiveViews

CONSTANTS
  Fee,           \* entryFeeCredits
  MaxCredits,    \* bound: the player's credits
  MaxFails,      \* bound: calls that fail or whose answer is lost
  MaxTurns       \* bound: links followed, deposits and withdrawals

ASSUME OnboardingConstants ==
  Fee \in Nat \ {0} /\ MaxCredits \in Nat /\ MaxFails \in Nat /\ MaxTurns \in Nat

VARIABLES
  me,            \* external: this player's participation
  balance,       \* external: User.creditBalance
  page,
  list,          \* the tournaments query: the pool's status, None before
  pools,         \* the pools the page has: liveTournaments of the dashboard
  parts,         \* the participations query of the dashboard and the demo page
  known,         \* the participation query of the play page
  store,         \* creditBalance of the session store, which is shown
  join,          \* joinPool, where it stands
  gate,          \* handleJoinFromGate, where it stands
  convert,       \* the withdrawal, where it stands
  fails, turns

tab == <<page, list, pools, parts, known, store, join, gate, convert, fails, turns>>
onboardingVars == <<liveVars, me, balance, tab>>

Participation == {"out", "in", "done"}
Amount == 0 .. MaxCredits
Idle == [at |-> "idle", seen |-> 0]
Call(stages) == {Idle} \cup [at : stages, seen : Amount]

OnboardingTypeOK ==
  /\ ViewTypeOK
  /\ me \in Participation /\ balance \in Amount
  /\ page \in {"dashboard", "demo", "play"}
  /\ list \in Statuses \cup {None} /\ pools \in Statuses \cup {None}
  /\ parts \in Participation \cup {None} /\ known \in Participation \cup {None}
  /\ store \in Amount
  /\ join \in Call({"credits", "pick", "list", "me", "balance", "join", "joined"})
  /\ gate \in Call({"balance", "join", "joined", "refetch"})
  /\ convert \in Call({"post", "paid"})
  /\ fails \in 0 .. MaxFails /\ turns \in 0 .. MaxTurns

OnboardingInit ==
  /\ ViewInit
  /\ me = "out"
  /\ balance = MaxCredits
  /\ page = "dashboard"
  /\ list = None /\ pools = None
  /\ parts = None /\ known = None
  /\ store = balance
  /\ join = Idle /\ gate = Idle /\ convert = Idle
  /\ fails = 0 /\ turns = 0

-----------------------------------------------------------------------------
(* What the dashboard and the demo page offer.                             *)

(* Mutation: only the pool that can be joined is listed.                   *)
VisibleIfJoinable == pools = "OPEN"

(* getVisibleDailyPools: a pool to join, and a full one to go on with.     *)
VisibleDailyPool == pools = "OPEN" \/ (pools = "CLOSED" /\ parts = "in")

IsJoinable(poolStatus, credit) == poolStatus = "OPEN" /\ credit >= Fee

(* The card's button: Continue, or Join pool.                              *)
Offered ==
  /\ VisibleDailyPool
  /\ \/ parts = "in"
     \/ /\ parts \in {"out", None}
        /\ IsJoinable(pools, store)

-----------------------------------------------------------------------------
(* The server.                                                             *)

(* POST /tournaments/join, as PoolJoin details it.                         *)
Admits(outcome) ==
  /\ status = "OPEN" /\ balance >= Fee
  /\ \/ /\ me = "out" /\ me' = "in"
        /\ balance' = balance - Fee
        /\ status' \in {"OPEN", "CLOSED"}
     \/ /\ me = "in"
        /\ UNCHANGED <<me, balance, status>>
  /\ outcome = balance'

Refuses == ~(status = "OPEN" /\ balance >= Fee /\ me # "done")

Other == UNCHANGED <<kind, view>>
Server == UNCHANGED <<status, me, balance>>

OthersFillPool ==
  /\ status = "OPEN" /\ status' = "CLOSED"
  /\ Other /\ UNCHANGED <<me, balance, tab>>

(* The settlement, with or without a reward for the player.                *)
Settle ==
  /\ status # "SETTLED" /\ status' = "SETTLED"
  /\ \/ balance' = balance
     \/ me # "out" /\ balance + Fee <= MaxCredits /\ balance' = balance + Fee
  /\ Other /\ UNCHANGED <<me, tab>>

-----------------------------------------------------------------------------
(* joinPool and joinCheapestPool.                                          *)

JoinGoes(stage) == join' = [join EXCEPT !.at = stage]
JoinEnds == join' = Idle
ToPlay == page' = "play" /\ JoinEnds

ClickJoin ==
  /\ page # "play" /\ join = Idle
  /\ Offered
  /\ JoinGoes("list")
  /\ Other /\ Server
  /\ UNCHANGED <<page, list, pools, parts, known, store, gate, convert, fails, turns>>

(* The demo page's button, which is there for a pool to join.              *)
ClickJoinCheapest ==
  /\ page = "demo" /\ join = Idle
  /\ IsJoinable(pools, store)
  /\ JoinGoes("credits")
  /\ Other /\ Server
  /\ UNCHANGED <<page, list, pools, parts, known, store, gate, convert, fails, turns>>

PickPool ==
  \/ /\ join.at = "credits"
     /\ join' = [at |-> "pick", seen |-> balance]
     /\ store' = balance
  \/ /\ join.at = "pick"
     /\ IF IsJoinable(status, join.seen) THEN JoinGoes("list") ELSE JoinEnds
     /\ UNCHANGED store

FindPool ==
  /\ join.at = "list"
  /\ IF status = "SETTLED" THEN JoinEnds ELSE JoinGoes("me")
  /\ UNCHANGED <<page, store>>

(* A player who is enrolled is sent to the game.                           *)
FindParticipation ==
  /\ join.at = "me"
  /\ IF me = "in" THEN ToPlay ELSE (JoinGoes("balance") /\ UNCHANGED page)
  /\ UNCHANGED store

(* Without the credits the deposit dialog opens.                           *)
CheckBalance ==
  /\ join.at = "balance"
  /\ store' = balance
  /\ IF balance < Fee THEN JoinEnds ELSE JoinGoes("join")
  /\ UNCHANGED page

PostJoin ==
  /\ join.at = "join"
  /\ \/ \E b \in Amount : Admits(b) /\ join' = [at |-> "joined", seen |-> b]
     \/ Refuses /\ JoinEnds /\ Server
  /\ UNCHANGED <<page, store>>

JoinAnswered ==
  /\ join.at = "joined"
  /\ store' = join.seen
  /\ ToPlay

JoinStep ==
  /\ \/ PickPool /\ Server /\ UNCHANGED page
     \/ (FindPool \/ FindParticipation \/ CheckBalance \/ JoinAnswered) /\ Server
     \/ PostJoin
  /\ Other
  /\ UNCHANGED <<list, pools, parts, known, gate, convert, fails, turns>>

-----------------------------------------------------------------------------
(* The gate of the play page.                                              *)

GateGoes(stage) == gate' = [gate EXCEPT !.at = stage]
GateEnds == gate' = Idle

ClickGate ==
  /\ page = "play" /\ gate = Idle
  /\ known = "out"
  /\ list \in {"OPEN", "CLOSED"} /\ store >= Fee
  /\ GateGoes("balance")
  /\ Other /\ Server
  /\ UNCHANGED <<page, list, pools, parts, known, store, join, convert, fails, turns>>

GateStep ==
  /\ \/ /\ gate.at = "balance"
        /\ store' = balance
        /\ IF balance < Fee THEN GateEnds ELSE GateGoes("join")
        /\ Server /\ UNCHANGED <<known, list>>
     \/ /\ gate.at = "join"
        /\ \/ \E b \in Amount : Admits(b) /\ gate' = [at |-> "joined", seen |-> b]
           \/ Refuses /\ GateEnds /\ Server
        /\ UNCHANGED <<known, list, store>>
     \/ /\ gate.at = "joined"
        /\ store' = gate.seen
        /\ GateGoes("refetch")
        /\ Server /\ UNCHANGED <<known, list>>
     \/ /\ gate.at = "refetch"
        /\ known' = me /\ list' = status
        /\ GateEnds
        /\ Server /\ UNCHANGED store
  /\ Other
  /\ UNCHANGED <<page, pools, parts, join, convert, fails, turns>>

(* The three attempts are played (PlayPage).                               *)
FinishAttempts ==
  /\ page = "play" /\ known = "in" /\ me = "in"
  /\ me' = "done"
  /\ Other /\ UNCHANGED <<status, balance, tab>>

-----------------------------------------------------------------------------
(* The withdrawal dialog (what the server does is CreditBridge's), the     *)
(* deposit, and a call that fails or whose answer is lost.                 *)

ClickConvert ==
  /\ convert = Idle /\ turns < MaxTurns
  /\ store >= Fee
  /\ convert' = [at |-> "post", seen |-> 0]
  /\ turns' = turns + 1
  /\ Other /\ Server
  /\ UNCHANGED <<page, list, pools, parts, known, store, join, gate, fails>>

(* onSuccess sets the store and asks for the header's balance again.       *)
ConvertStep ==
  /\ \/ /\ convert.at = "post"
        /\ IF balance >= Fee
             THEN balance' = balance - Fee /\ convert' = [at |-> "paid", seen |-> balance']
             ELSE convert' = Idle /\ UNCHANGED balance
        /\ UNCHANGED store
     \/ /\ convert.at = "paid"
        /\ store' = convert.seen
        /\ convert' = Idle
        /\ UNCHANGED balance
  /\ Other
  /\ UNCHANGED <<status, me, page, list, pools, parts, known, join, gate, fails, turns>>

Deposit ==
  /\ turns < MaxTurns /\ turns' = turns + 1
  /\ balance + Fee <= MaxCredits
  /\ balance' = balance + Fee
  /\ store' = balance'
  /\ Other
  /\ UNCHANGED <<status, me, page, list, pools, parts, known, join, gate, convert, fails>>

CallFails ==
  /\ fails < MaxFails /\ fails' = fails + 1
  /\ \/ join # Idle /\ JoinEnds /\ UNCHANGED <<gate, convert>>
     \/ gate # Idle /\ GateEnds /\ UNCHANGED <<join, convert>>
     \/ convert # Idle /\ convert' = Idle /\ UNCHANGED <<join, gate>>
  /\ Other /\ Server
  /\ UNCHANGED <<page, list, pools, parts, known, store, turns>>

-----------------------------------------------------------------------------
(* The queries.  The list is polled; the others are asked again when the   *)
(* player comes back to the tab or the page.                               *)

(* The effect of useTournamentFeedLive runs for a list that is new, and    *)
(* leaves the pools as they are when it is empty.                          *)
ListArrives ==
  /\ list # status
  /\ list' = status
  /\ \/ page # "play" /\ pools' = status
     \/ (page = "play" \/ (page = "dashboard" /\ status = "SETTLED")) /\ UNCHANGED pools
  /\ known' = IF status = "SETTLED" THEN None ELSE known
  /\ Other /\ Server
  /\ UNCHANGED <<page, parts, store, join, gate, convert, fails, turns>>

Earlier(now) ==
  CASE now = "OPEN" -> {"OPEN"}
    [] now = "CLOSED" -> {"OPEN", "CLOSED"}
    [] now = "SETTLED" -> Statuses

(* A push of the feed, perhaps a late one.                                 *)
FeedArrives ==
  /\ page = "dashboard"
  /\ pools' \in Earlier(status) \ {pools}
  /\ Other /\ Server
  /\ UNCHANGED <<page, list, parts, known, store, join, gate, convert, fails, turns>>

PartsArrive ==
  /\ page # "play"
  /\ parts # me
  /\ parts' = me
  /\ Other /\ Server
  /\ UNCHANGED <<page, list, pools, known, store, join, gate, convert, fails, turns>>

(* The query runs while the pool is in the list.  A player who has         *)
(* finished is sent back to the dashboard.                                 *)
KnownArrives ==
  /\ page = "play" /\ list \in {"OPEN", "CLOSED"}
  /\ known # me \/ me = "done"
  /\ known' = me
  /\ page' = IF me = "done" THEN "dashboard" ELSE page
  /\ Other /\ Server
  /\ UNCHANGED <<list, pools, parts, store, join, gate, convert, fails, turns>>

(* The header's balance query, when its answer is new to it.               *)
CreditsArrive ==
  /\ store # balance
  /\ store' = balance
  /\ Other /\ Server
  /\ UNCHANGED <<page, list, pools, parts, known, join, gate, convert, fails, turns>>

FollowLink ==
  /\ turns < MaxTurns /\ turns' = turns + 1
  /\ \/ page # "play" /\ page' = "play" /\ UNCHANGED pools
     \/ page # "dashboard" /\ page' = "dashboard" /\ pools' = list
     \/ page # "demo" /\ page' = "demo" /\ pools' = list
  /\ Other /\ Server
  /\ UNCHANGED <<list, parts, known, store, join, gate, convert, fails>>

(* From the demo page the player goes on to the dashboard.                 *)
LeaveDemo ==
  /\ page = "demo"
  /\ page' = "dashboard" /\ pools' = list
  /\ Other /\ Server
  /\ UNCHANGED <<list, parts, known, store, join, gate, convert, fails, turns>>

OnboardingNext ==
  /\ ~Viewing
  /\ \/ OthersFillPool \/ Settle
     \/ ClickJoin \/ ClickJoinCheapest \/ JoinStep
     \/ ClickGate \/ GateStep \/ FinishAttempts
     \/ ClickConvert \/ ConvertStep \/ Deposit \/ CallFails
     \/ ListArrives \/ FeedArrives \/ PartsArrive \/ KnownArrives \/ CreditsArrive
     \/ FollowLink \/ LeaveDemo

(* The other tab.                                                          *)
OnViews ==
  /\ ViewNext
  /\ UNCHANGED <<me, balance, tab>>

(* A call that does not fail is answered and the list is polled, though    *)
(* not on the demo page.  The last two lines are about the player: one who *)
(* comes back to the tab, goes on to the dashboard and clicks the button   *)
(* that is there.                                                          *)
OnboardingFairness ==
  /\ WF_onboardingVars(~Viewing /\ JoinStep)
  /\ WF_onboardingVars(~Viewing /\ GateStep)
  /\ WF_onboardingVars(~Viewing /\ page # "demo" /\ ListArrives)
  /\ WF_onboardingVars(~Viewing /\ PartsArrive) /\ WF_onboardingVars(~Viewing /\ KnownArrives)
  /\ WF_onboardingVars(~Viewing /\ LeaveDemo) /\ SF_onboardingVars(~Viewing /\ ClickJoin)

TabSpec ==
  /\ OnboardingInit
  /\ [][OnboardingNext \/ OnViews]_onboardingVars
  /\ OnboardingFairness
  /\ ViewFairness

-----------------------------------------------------------------------------
(* Properties.                                                             *)

(* A player who has paid and keeps trying gets to the game, though the     *)
(* answer to the join is lost, the pool is full by then or the page shows  *)
(* old pools, participations or credits; unless the pool is settled first. *)
PaidPlayersGetToPlay ==
  me = "in" ~> ((page = "play" /\ known = "in") \/ me = "done" \/ status = "SETTLED")
=============================================================================
