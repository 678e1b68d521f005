--------------------------- MODULE PoolJoinProofs ---------------------------
(***************************************************************************)
(* The invariants of PoolJoin, for any number of users, pools and racing   *)
(* requests and for any fee: types and seats, the money of an entry, the   *)
(* credits there are, and that the handlers implement EntryGate.           *)
(*                                                                         *)
(* After them, those of DailyPool, which adds the workers to the joins.    *)
(* They hold for any number of players, pools, places and failures.  Most  *)
(* need that the settlement ticks do not overlap (TicksDoNotOverlap): two  *)
(* that work on one pool pay it twice, which PaysTheTable denies.          *)
(***************************************************************************)
EXTENDS DailyPool, EconomyProofs, FiniteSetTheorems

(* A pool that has not been created has no players and no request on it.   *)
AbsentIsUntouched ==
  \A p \in Pools : status[p] = "ABSENT" => playerCount[p] = 0 /\ Pending(p) = {}

(* What the transaction alone writes.                                      *)
books == <<balance, ledger, playerCount, rewardPool, prizePool, jackpotSlice, treasury, roster>>

-----------------------------------------------------------------------------
(* Sequences: what Append does to the length, the members and injectivity. *)
LEMMA AppendFacts ==
  ASSUME NEW S, NEW s \in Seq(S), NEW x \in S
  PROVE  /\ Append(s, x) \in Seq(S)
         /\ Len(Append(s, x)) = Len(s) + 1
         /\ DOMAIN s = 1 .. Len(s)
         /\ DOMAIN Append(s, x) = 1 .. Len(s) + 1
         /\ \A i \in 1 .. Len(s) : Append(s, x)[i] = s[i]
         /\ Append(s, x)[Len(s) + 1] = x
         /\ Range(Append(s, x)) = Range(s) \cup {x}
         /\ IsInjective(s) /\ x \notin Range(s) => IsInjective(Append(s, x))
  <1>1. /\ Append(s, x) \in Seq(S)
        /\ Len(Append(s, x)) = Len(s) + 1
        /\ DOMAIN s = 1 .. Len(s)
        /\ DOMAIN Append(s, x) = 1 .. Len(s) + 1
        /\ \A i \in 1 .. Len(s) : Append(s, x)[i] = s[i]
        /\ Append(s, x)[Len(s) + 1] = x
        /\ Len(s) \in Nat
    OBVIOUS
  <1>2. Range(Append(s, x)) = Range(s) \cup {x}
    BY <1>1 DEF Range
  <1>3. IsInjective(s) /\ x \notin Range(s) => IsInjective(Append(s, x))
    BY <1>1 DEF Range, IsInjective
  <1>4. QED
    BY <1>1, <1>2, <1>3

(* The shares of one entry are natural numbers, and together they are the  *)
(* price: the money that leaves the user is the money the pots receive.    *)
LEMMA ShareIsNatural ==
  ASSUME NEW p \in Pools
  PROVE  /\ Share(p).reward \in Nat
         /\ Share(p).prize \in Nat
         /\ Share(p).jackpot \in Nat
         /\ Share(p).treasury \in Nat
         /\ Kind[p] = "DAILY" =>
              Share(p).reward + Share(p).jackpot + Share(p).treasury = EntryPrice(p)
         /\ Kind[p] # "DAILY" =>
              Share(p).prize = EntryPrice(p) /\ Share(p).treasury = 0
  <1>1. Fee[p] \in Nat
    BY PoolConstants
  <1> DEFINE s == SplitDailyEntryFee(Fee[p])
  <1>2. /\ s.rewards + s.treasury + s.weeklyJackpot = Fee[p]
        /\ s.rewards \in Nat /\ s.treasury \in Nat /\ s.weeklyJackpot \in Nat
    BY <1>1, SplitConservesFee
  <1> HIDE DEF s
  <1>3. CASE ~Charged(p)
    BY <1>3 DEF Share, EntryPrice
  <1>4. CASE Charged(p) /\ Kind[p] = "DAILY"
    <2>1. Share(p) = [reward |-> s.rewards, prize |-> s.rewards,
                      jackpot |-> s.weeklyJackpot, treasury |-> s.treasury]
      BY <1>4 DEF Share, s
    <2>2. EntryPrice(p) = Fee[p]
      BY <1>4 DEF EntryPrice
    <2>3. QED
      BY <1>2, <1>4, <2>1, <2>2
  <1>5. CASE Charged(p) /\ Kind[p] = "WEEKLY_JACKPOT"
    BY <1>1, <1>5 DEF Share, EntryPrice
  <1>6. CASE Charged(p) /\ Kind[p] \notin {"DAILY", "WEEKLY_JACKPOT"}
    BY <1>1, <1>6 DEF Share, EntryPrice
  <1>7. QED
    BY <1>3, <1>4, <1>5, <1>6

(* A request in flight carries a user and a pool.                          *)
LEMMA RequestFields ==
  ASSUME TypeOK, NEW r \in Requests, req[r].stage # "idle"
  PROVE  /\ req[r] \in InFlight
         /\ req[r].user \in Users
         /\ req[r].pool \in Pools
  BY DEF TypeOK, InFlight, Idle

(* Only CommitJoin touches the books.                                      *)
LEMMA OnlyCommitWritesBooks ==
  ASSUME [Next]_vars, ~\E r \in Requests : CommitJoin(r)
  PROVE  UNCHANGED books
  BY DEF Next, JoinStep, ProcessDies, HandlerStep, ReadTournament, ReadUser, CheckQualification,
         FindExisting, RollBackDebit, DuplicateSeat, Crash, CreatePool, AgentCloses,
         WorkerSettles, SetStatus, vars, pools, credits, books

-----------------------------------------------------------------------------
(* A committed join is one transaction of a user on a pool.                *)
LEMMA CommitIsTransaction ==
  ASSUME TypeOK, NEW r \in Requests, CommitJoin(r)
  PROVE  \E u \in Users, p \in Pools : Transaction(u, p)
  <1>1. req[r].user \in Users /\ req[r].pool \in Pools
    BY RequestFields DEF CommitJoin
  <1>2. Transaction(req[r].user, req[r].pool)
    BY DEF CommitJoin
  <1>3. QED
    BY <1>1, <1>2

(* The seat a transaction adds.                                            *)
LEMMA SeatEffect ==
  ASSUME TypeOK, NEW u \in Users, NEW p \in Pools, Transaction(u, p)
  PROVE  /\ roster[p] \in Seq(Users)
         /\ u \notin Range(roster[p])
         /\ roster'[p] = Append(roster[p], u)
         /\ Len(roster'[p]) = Len(roster[p]) + 1
         /\ \A q \in Pools : q # p => roster'[q] = roster[q]
         /\ Range(roster'[p]) = Range(roster[p]) \cup {u}
         /\ IsInjective(roster[p]) => IsInjective(roster'[p])
  <1>1. roster \in [Pools -> Seq(Users)]
    BY DEF TypeOK
  <1>2. u \notin Range(roster[p]) /\ roster' = [roster EXCEPT ![p] = Append(@, u)]
    BY DEF Transaction, SeatFree, Seated
  <1>3. /\ roster'[p] = Append(roster[p], u)
        /\ \A q \in Pools : q # p => roster'[q] = roster[q]
    BY <1>1, <1>2
  <1>4. roster[p] \in Seq(Users)
    BY <1>1
  <1>5. QED
    BY <1>2, <1>3, <1>4, AppendFacts

(* The debit and the ledger row of a transaction that charges.             *)
ChargeRow(u, p) == [type |-> "ENTRY_FEE", amount |-> -Fee[p],
                    balanceAfter |-> balance[u] - Fee[p], pool |-> p]

LEMMA ChargeEffect ==
  ASSUME TypeOK, NEW u \in Users, NEW p \in Pools, Transaction(u, p), Charged(p)
  PROVE  /\ Fee[p] \in Nat /\ balance[u] \in Int /\ balance[u] >= Fee[p]
         /\ ledger[u] \in Seq(Entries)
         /\ ChargeRow(u, p) \in Entries
         /\ balance'[u] = balance[u] - Fee[p]
         /\ ledger'[u] = Append(ledger[u], ChargeRow(u, p))
         /\ \A v \in Users : v # u => balance'[v] = balance[v] /\ ledger'[v] = ledger[v]
         /\ balance' \in [Users -> Int]
         /\ ledger' \in [Users -> Seq(Entries)]
  <1>1. /\ balance[u] >= Fee[p]
        /\ balance' = [balance EXCEPT ![u] = balance[u] - Fee[p]]
        /\ ledger' = [ledger EXCEPT ![u] = Append(ledger[u], ChargeRow(u, p))]
    BY DEF Transaction, DebitMatches, Debit, ChargeRow
  <1>2. Fee[p] \in Nat
    BY PoolConstants
  <1>3. balance \in [Users -> Int] /\ ledger \in [Users -> Seq(Entries)]
    BY DEF TypeOK
  <1>4. balance[u] \in Int /\ ledger[u] \in Seq(Entries)
    BY <1>3
  <1>5. ChargeRow(u, p) \in Entries
    BY <1>2, <1>4 DEF ChargeRow, Entries
  <1>6. Append(ledger[u], ChargeRow(u, p)) \in Seq(Entries)
    BY <1>4, <1>5, AppendFacts
  <1>7. balance' \in [Users -> Int]
    BY <1>1, <1>2, <1>3, <1>4
  <1>8. ledger' \in [Users -> Seq(Entries)]
    BY <1>1, <1>3, <1>6
  <1>9. /\ balance'[u] = balance[u] - Fee[p]
        /\ ledger'[u] = Append(ledger[u], ChargeRow(u, p))
        /\ \A v \in Users : v # u => balance'[v] = balance[v] /\ ledger'[v] = ledger[v]
    BY <1>1, <1>3
  <1>10. QED
    BY <1>1, <1>2, <1>4, <1>5, <1>7, <1>8, <1>9

LEMMA FreeEntryEffect ==
  ASSUME NEW u \in Users, NEW p \in Pools, Transaction(u, p), ~Charged(p)
  PROVE  balance' = balance /\ ledger' = ledger
  BY DEF Transaction, Debit

-----------------------------------------------------------------------------
(* The type invariant.                                                     *)
LEMMA InitTypeOK == Init => TypeOK
  <1> SUFFICES ASSUME Init PROVE TypeOK
    OBVIOUS
  <1>1. balance \in [Users -> Int] /\ rewardPool \in [Pools -> Nat] /\ prizePool \in [Pools -> Nat]
    BY PoolConstants DEF Init
  <1>2. /\ ledger \in [Users -> Seq(Entries)]
        /\ roster \in [Pools -> Seq(Users)]
        /\ status \in [Pools -> Statuses]
        /\ playerCount \in [Pools -> Nat]
        /\ jackpotSlice \in [Pools -> Nat]
        /\ treasury \in Nat
        /\ req \in [Requests -> InFlight \cup {Idle}]
    BY DEF Init, Statuses
  <1>3. QED
    BY <1>1, <1>2 DEF TypeOK

LEMMA CommitTypeOK ==
  ASSUME TypeOK, NEW r \in Requests, CommitJoin(r)
  PROVE  TypeOK'
  <1>1. PICK u \in Users, p \in Pools : Transaction(u, p)
    BY CommitIsTransaction
  <1>2. roster' \in [Pools -> Seq(Users)]
    <2>1. roster \in [Pools -> Seq(Users)] /\ roster' = [roster EXCEPT ![p] = Append(@, u)]
      BY <1>1 DEF TypeOK, Transaction
    <2>2. Append(roster[p], u) \in Seq(Users)
      BY <2>1, AppendFacts
    <2>3. QED
      BY <2>1, <2>2
  <1>3. balance' \in [Users -> Int] /\ ledger' \in [Users -> Seq(Entries)]
    <2>1. CASE Charged(p)
      BY <1>1, <2>1, ChargeEffect
    <2>2. CASE ~Charged(p)
      BY <1>1, <2>2, FreeEntryEffect DEF TypeOK
    <2>3. QED
      BY <2>1, <2>2
  <1>4. /\ rewardPool' \in [Pools -> Nat] /\ prizePool' \in [Pools -> Nat]
        /\ jackpotSlice' \in [Pools -> Nat] /\ treasury' \in Nat
    <2> DEFINE share == Share(p)
    <2>1. /\ share.reward \in Nat /\ share.prize \in Nat
          /\ share.jackpot \in Nat /\ share.treasury \in Nat
      BY ShareIsNatural
    <2>2. /\ rewardPool' = [rewardPool EXCEPT ![p] = @ + share.reward]
          /\ prizePool' = [prizePool EXCEPT ![p] = @ + share.prize]
          /\ jackpotSlice' = [jackpotSlice EXCEPT ![p] = @ + share.jackpot]
          /\ treasury' = treasury + share.treasury
      BY <1>1 DEF Transaction, FundPool
    <2>3. /\ rewardPool \in [Pools -> Nat] /\ prizePool \in [Pools -> Nat]
          /\ jackpotSlice \in [Pools -> Nat] /\ treasury \in Nat
      BY DEF TypeOK
    <2> HIDE DEF share
    <2>4. rewardPool' \in [Pools -> Nat]
      BY <2>1, <2>2, <2>3
    <2>5. prizePool' \in [Pools -> Nat]
      BY <2>1, <2>2, <2>3
    <2>6. jackpotSlice' \in [Pools -> Nat]
      BY <2>1, <2>2, <2>3
    <2>7. treasury' \in Nat
      BY <2>1, <2>2, <2>3
    <2>8. QED
      BY <2>4, <2>5, <2>6, <2>7
  <1>5. /\ playerCount' \in [Pools -> Nat] /\ status' \in [Pools -> Statuses]
    BY <1>1 DEF Transaction, TypeOK, Statuses
  <1>6. req' \in [Requests -> InFlight \cup {Idle}]
    BY DEF CommitJoin, Respond, TypeOK
  <1>7. QED
    BY <1>2, <1>3, <1>4, <1>5, <1>6 DEF TypeOK

LEMMA StepTypeOK == TypeOK /\ [Next]_vars => TypeOK'
  <1> SUFFICES ASSUME TypeOK, [Next]_vars PROVE TypeOK'
    OBVIOUS
  <1>1. CASE \E r \in Requests : CommitJoin(r)
    BY <1>1, CommitTypeOK
  <1>2. CASE ~\E r \in Requests : CommitJoin(r)
    <2>1. UNCHANGED books
      BY <1>2, OnlyCommitWritesBooks
    <2>2. status' \in [Pools -> Statuses]
      BY <1>2 DEF Next, JoinStep, ProcessDies, HandlerStep, ReadTournament, ReadUser, CheckQualification,
         FindExisting, RollBackDebit, DuplicateSeat, Crash, CreatePool, AgentCloses,
         WorkerSettles, SetStatus, vars, pools, credits, TypeOK, Statuses
    <2>3. req' \in [Requests -> InFlight \cup {Idle}]
      <3>1. \A r \in Requests, s \in Stages \ {"idle"} :
              req[r].stage # "idle" =>
                [req EXCEPT ![r].stage = s] \in [Requests -> InFlight \cup {Idle}]
        BY RequestFields DEF TypeOK, InFlight, Stages
      <3>2. \A r \in Requests : [req EXCEPT ![r] = Idle] \in [Requests -> InFlight \cup {Idle}]
        BY DEF TypeOK
      <3>3. ASSUME NEW r \in Requests, HandlerStep(r)
            PROVE  req' \in [Requests -> InFlight \cup {Idle}]
        <4>1. CASE \E u \in Users, p \in Pools : ReadTournament(r, u, p)
          BY <4>1 DEF ReadTournament, TypeOK, InFlight, Stages
        <4>2. CASE ReadUser(r)
          BY <4>2, <3>1, <3>2 DEF ReadUser, Advance, Respond, Stages
        <4>3. CASE CheckQualification(r)
          BY <4>3, <3>1, <3>2 DEF CheckQualification, Advance, Respond, Stages
        <4>4. CASE FindExisting(r)
          BY <4>4, <3>1, <3>2 DEF FindExisting, Advance, Respond, Stages
        <4>5. CASE RollBackDebit(r)
          BY <4>5, <3>2 DEF RollBackDebit, Respond
        <4>6. QED
          BY <1>2, <3>3, <4>1, <4>2, <4>3, <4>4, <4>5 DEF HandlerStep
      <3>4. CASE ProcessDies
        BY <3>4 DEF ProcessDies, Crash, DuplicateSeat
      <3>5. CASE \E p \in Pools : CreatePool(p) \/ AgentCloses(p) \/ WorkerSettles(p)
        BY <3>5 DEF CreatePool, AgentCloses, WorkerSettles, SetStatus, TypeOK
      <3>6. CASE UNCHANGED vars
        BY <3>6 DEF vars, TypeOK
      <3>7. QED
        BY <3>3, <3>4, <3>5, <3>6 DEF Next, JoinStep
    <2>4. QED
      BY <2>1, <2>2, <2>3 DEF TypeOK, books
  <1>3. QED
    BY <1>1, <1>2

(* Every variable keeps its type, whatever requests race or crash.         *)
THEOREM TypeCorrect == Spec => []TypeOK
  BY InitTypeOK, StepTypeOK, PTL DEF Spec

-----------------------------------------------------------------------------
(* The money of one user.                                                  *)
LEMMA TransactionKeepsNoOverdraft ==
  ASSUME TypeOK, NoOverdraft, NEW u \in Users, NEW p \in Pools, Transaction(u, p)
  PROVE  NoOverdraft'
  <1>1. CASE Charged(p)
    <2>1. /\ Fee[p] \in Nat /\ balance[u] \in Int /\ balance[u] >= Fee[p]
          /\ balance'[u] = balance[u] - Fee[p]
          /\ \A v \in Users : v # u => balance'[v] = balance[v]
      BY <1>1, ChargeEffect
    <2>2. QED
      BY <2>1 DEF NoOverdraft
  <1>2. CASE ~Charged(p)
    BY <1>2, FreeEntryEffect DEF NoOverdraft
  <1>3. QED
    BY <1>1, <1>2

(* The rows of a charged user after the charge.                            *)
LEMMA LedgerEffect ==
  ASSUME TypeOK, NEW u \in Users, NEW p \in Pools, Transaction(u, p), Charged(p)
  PROVE  /\ Len(ledger[u]) \in Nat
         /\ DOMAIN ledger[u] = 1 .. Len(ledger[u])
         /\ Len(ledger'[u]) = Len(ledger[u]) + 1
         /\ DOMAIN ledger'[u] = 1 .. Len(ledger[u]) + 1
         /\ \A i \in 1 .. Len(ledger[u]) : ledger'[u][i] = ledger[u][i]
         /\ ledger'[u][Len(ledger[u]) + 1] = ChargeRow(u, p)
  <1>1. /\ ledger[u] \in Seq(Entries) /\ ChargeRow(u, p) \in Entries
        /\ ledger'[u] = Append(ledger[u], ChargeRow(u, p))
    BY ChargeEffect
  <1>2. QED
    BY <1>1, AppendFacts

LEMMA TransactionKeepsLedgerReplays ==
  ASSUME TypeOK, LedgerReplays, NEW u \in Users, NEW p \in Pools, Transaction(u, p)
  PROVE  LedgerReplays'
  <1>1. CASE ~Charged(p)
    BY <1>1, FreeEntryEffect DEF LedgerReplays, BalanceBefore
  <1>2. CASE Charged(p)
    <2> DEFINE n == Len(ledger[u])
    <2>1. /\ n \in Nat
          /\ DOMAIN ledger[u] = 1 .. n
          /\ Len(ledger'[u]) = n + 1
          /\ DOMAIN ledger'[u] = 1 .. n + 1
          /\ \A i \in 1 .. n : ledger'[u][i] = ledger[u][i]
          /\ ledger'[u][n + 1] = ChargeRow(u, p)
      BY <1>2, LedgerEffect
    <2>2. /\ Fee[p] \in Nat /\ balance[u] \in Int
          /\ balance'[u] = balance[u] - Fee[p]
          /\ \A v \in Users : v # u => balance'[v] = balance[v] /\ ledger'[v] = ledger[v]
      BY <1>2, ChargeEffect
    <2>3. /\ ledger'[u][n + 1].balanceAfter = balance[u] - Fee[p]
          /\ ledger'[u][n + 1].amount = -Fee[p]
      BY <2>1 DEF ChargeRow
    <2>4. /\ \A i \in 1 .. n : ledger[u][i].balanceAfter = BalanceBefore(u, i) + ledger[u][i].amount
          /\ balance[u] = BalanceBefore(u, n + 1)
      BY <2>1 DEF LedgerReplays
    <2> HIDE DEF n
    <2>5. \A i \in 1 .. n + 1 : BalanceBefore(u, i)' = BalanceBefore(u, i)
      <3> SUFFICES ASSUME NEW i \in 1 .. n + 1
                   PROVE  BalanceBefore(u, i)' = BalanceBefore(u, i)
        OBVIOUS
      <3>1. CASE i = 1
        BY <3>1 DEF BalanceBefore
      <3>2. CASE i # 1
        <4>1. i - 1 \in 1 .. n
          BY <2>1, <3>2
        <4>2. QED
          BY <2>1, <3>2, <4>1 DEF BalanceBefore
      <3>3. QED
        BY <3>1, <3>2
    <2>6. ASSUME NEW i \in 1 .. n + 1
          PROVE  ledger'[u][i].balanceAfter = BalanceBefore(u, i)' + ledger'[u][i].amount
      <3>1. CASE i \in 1 .. n
        BY <2>1, <2>4, <2>5, <3>1
      <3>2. CASE i = n + 1
        BY <2>2, <2>3, <2>4, <2>5, <3>2
      <3>3. QED
        BY <2>1, <3>1, <3>2
    <2>7. balance'[u] = BalanceBefore(u, Len(ledger[u]) + 1)'
      <3>1. /\ Len(ledger'[u]) + 1 = n + 2
            /\ n + 2 # 1
            /\ (n + 2) - 1 = n + 1
        BY <2>1
      <3>2. BalanceBefore(u, Len(ledger[u]) + 1)' = ledger'[u][n + 1].balanceAfter
        BY <3>1 DEF BalanceBefore
      <3>3. QED
        BY <2>2, <2>3, <3>2
    <2>8. ASSUME NEW v \in Users
          PROVE  (/\ \A i \in DOMAIN ledger[v] :
                       ledger[v][i].balanceAfter = BalanceBefore(v, i) + ledger[v][i].amount
                  /\ balance[v] = BalanceBefore(v, Len(ledger[v]) + 1))'
      <3>1. CASE v = u
        BY <2>1, <2>6, <2>7, <3>1
      <3>2. CASE v # u
        BY <2>2, <3>2 DEF LedgerReplays, BalanceBefore
      <3>3. QED
        BY <3>1, <3>2
    <2>9. QED
      BY <2>8 DEF LedgerReplays
  <1>3. QED
    BY <1>1, <1>2

-----------------------------------------------------------------------------
(* The seats and what was paid for them.                                   *)
LEMMA TransactionKeepsOneCharge ==
  ASSUME TypeOK, OneChargePerSeat, NEW u \in Users, NEW p \in Pools, Transaction(u, p)
  PROVE  OneChargePerSeat'
  <1>1. /\ u \notin Seated(p)
        /\ Seated(p)' = Seated(p) \cup {u}
        /\ \A q \in Pools : q # p => Seated(q)' = Seated(q)
        /\ \A q \in Pools : IsInjective(roster'[q])
    BY SeatEffect DEF Seated, OneChargePerSeat
  <1>2. CASE ~Charged(p)
    <2>1. \A v \in Users, q \in Pools :
            (Charged(q) /\ v \in Seated(q)') <=> (Charged(q) /\ v \in Seated(q))
      BY <1>1, <1>2
    <2>2. QED
      BY <1>1, <1>2, <2>1, FreeEntryEffect DEF OneChargePerSeat, Charged
  <1>3. CASE Charged(p)
    <2> DEFINE n == Len(ledger[u])
    <2>1. /\ n \in Nat
          /\ DOMAIN ledger[u] = 1 .. n
          /\ DOMAIN ledger'[u] = 1 .. n + 1
          /\ \A i \in 1 .. n : ledger'[u][i] = ledger[u][i]
          /\ ledger'[u][n + 1] = ChargeRow(u, p)
      BY <1>3, LedgerEffect
    <2>1a. ledger'[u][n + 1].pool = p
      BY <2>1 DEF ChargeRow
    <2>2. \A v \in Users : v # u => ledger'[v] = ledger[v]
      BY <1>3, ChargeEffect
    <2> HIDE DEF n
    <2>3. \A i \in 1 .. n : ledger[u][i].pool # p
      BY <1>1, <1>3, <2>1 DEF OneChargePerSeat
    <2>4. \A i, j \in 1 .. n : i # j => ledger[u][i].pool # ledger[u][j].pool
      BY <2>1 DEF OneChargePerSeat
    <2>5. \A i, j \in 1 .. n + 1 : i # j => ledger'[u][i].pool # ledger'[u][j].pool
      <3>1. \A i \in 1 .. n + 1 : i \in 1 .. n \/ i = n + 1
        BY <2>1
      <3>2. QED
        BY <2>1, <2>3, <2>4, <2>1a, <3>1
    <2>6. \A q \in Pools : (Charged(q) /\ u \in Seated(q)') <=>
                              \E i \in 1 .. n + 1 : ledger'[u][i].pool = q
      <3>1. \A i \in 1 .. n : i \in 1 .. n + 1
        BY <2>1
      <3>2. n + 1 \in 1 .. n + 1 /\ \A i \in 1 .. n + 1 : i \in 1 .. n \/ i = n + 1
        BY <2>1
      <3>3. \A q \in Pools : (Charged(q) /\ u \in Seated(q)) <=>
                                \E i \in 1 .. n : ledger[u][i].pool = q
        BY <2>1 DEF OneChargePerSeat
      <3>4. QED
        BY <1>1, <1>3, <2>1, <2>1a, <3>1, <3>2, <3>3
    <2>7. \A v \in Users :
            /\ \A i, j \in DOMAIN ledger'[v] : i # j => ledger'[v][i].pool # ledger'[v][j].pool
            /\ \A q \in Pools : (Charged(q) /\ v \in Seated(q)') <=>
                                   \E i \in DOMAIN ledger'[v] : ledger'[v][i].pool = q
      <3> SUFFICES ASSUME NEW v \in Users
                   PROVE  /\ \A i, j \in DOMAIN ledger'[v] :
                               i # j => ledger'[v][i].pool # ledger'[v][j].pool
                          /\ \A q \in Pools : (Charged(q) /\ v \in Seated(q)') <=>
                               \E i \in DOMAIN ledger'[v] : ledger'[v][i].pool = q
        OBVIOUS
      <3>1. CASE v = u
        BY <2>1, <2>5, <2>6, <3>1
      <3>2. CASE v # u
        BY <1>1, <2>2, <3>2 DEF OneChargePerSeat
      <3>3. QED
        BY <3>1, <3>2
    <2>8. QED
      BY <1>1, <2>7 DEF OneChargePerSeat, Charged
  <1>4. QED
    BY <1>2, <1>3

-----------------------------------------------------------------------------
(* The books of one pool.                                                  *)
LEMMA OneMoreShare ==
  ASSUME NEW start \in Nat, NEW n \in Nat, NEW x \in Nat
  PROVE  (start + n * x) + x = start + (n + 1) * x
  <1>1. n * x \in Nat /\ (n + 1) * x = n * x + x
    BY SMTT(30)
  <1> DEFINE product == n * x
  <1>2. product \in Nat /\ (n + 1) * x = product + x
    BY <1>1
  <1> HIDE DEF product
  <1>3. (start + product) + x = start + (product + x)
    BY <1>2
  <1>4. QED
    BY <1>2, <1>3 DEF product

LEMMA OneTimeMore ==
  ASSUME NEW n \in Nat, NEW x \in Nat
  PROVE  (n + 1) * x = n * x + x
  BY SMTT(30)

LEMMA TransactionKeepsBooks ==
  ASSUME TypeOK, PoolBooksMatchSeats, NEW u \in Users, NEW p \in Pools, Transaction(u, p)
  PROVE  PoolBooksMatchSeats'
  <1> DEFINE share == Share(p)
  <1> DEFINE n == Len(roster[p])
  <1>1. /\ n \in Nat
        /\ Len(roster'[p]) = n + 1
        /\ \A q \in Pools : q # p => roster'[q] = roster[q]
    BY SeatEffect
  <1>2. /\ share.reward \in Nat /\ share.prize \in Nat /\ share.jackpot \in Nat
    BY ShareIsNatural
  <1>3. /\ playerCount' = [playerCount EXCEPT ![p] = @ + 1]
        /\ rewardPool' = [rewardPool EXCEPT ![p] = @ + share.reward]
        /\ prizePool' = [prizePool EXCEPT ![p] = @ + share.prize]
        /\ jackpotSlice' = [jackpotSlice EXCEPT ![p] = @ + share.jackpot]
    BY DEF Transaction, FundPool
  <1>4. /\ playerCount \in [Pools -> Nat] /\ rewardPool \in [Pools -> Nat]
        /\ prizePool \in [Pools -> Nat] /\ jackpotSlice \in [Pools -> Nat]
    BY DEF TypeOK
  <1>5. /\ playerCount[p] = n
        /\ rewardPool[p] = SeedReward[p] + n * share.reward
        /\ prizePool[p] = SeedPrize[p] + n * share.prize
        /\ jackpotSlice[p] = n * share.jackpot
    BY DEF PoolBooksMatchSeats
  <1>6. SeedReward[p] \in Nat /\ SeedPrize[p] \in Nat
    BY PoolConstants
  <1>7. \A q \in Pools : q # p =>
          /\ playerCount'[q] = playerCount[q] /\ rewardPool'[q] = rewardPool[q]
          /\ prizePool'[q] = prizePool[q] /\ jackpotSlice'[q] = jackpotSlice[q]
    BY <1>3, <1>4
  <1>8. /\ playerCount'[p] = n + 1
        /\ rewardPool'[p] = (SeedReward[p] + n * share.reward) + share.reward
        /\ prizePool'[p] = (SeedPrize[p] + n * share.prize) + share.prize
        /\ jackpotSlice'[p] = n * share.jackpot + share.jackpot
    BY <1>3, <1>4, <1>5
  <1> HIDE DEF share, n
  <1>9. /\ rewardPool'[p] = SeedReward[p] + (n + 1) * share.reward
        /\ prizePool'[p] = SeedPrize[p] + (n + 1) * share.prize
    BY <1>1, <1>2, <1>6, <1>8, OneMoreShare
  <1>10. jackpotSlice'[p] = (n + 1) * share.jackpot
    <2>1. (n + 1) * share.jackpot = n * share.jackpot + share.jackpot
      BY <1>1, <1>2, OneTimeMore, Zenon
    <2>2. QED
      BY <1>8, <2>1
  <1>11. ASSUME NEW q \in Pools
         PROVE  /\ playerCount'[q] = Len(roster'[q])
                /\ rewardPool'[q] = SeedReward[q] + Len(roster'[q]) * Share(q).reward
                /\ prizePool'[q] = SeedPrize[q] + Len(roster'[q]) * Share(q).prize
                /\ jackpotSlice'[q] = Len(roster'[q]) * Share(q).jackpot
    <2>1. CASE q = p
      BY <1>1, <1>8, <1>9, <1>10, <2>1 DEF share
    <2>2. CASE q # p
      BY <1>1, <1>7, <2>2 DEF PoolBooksMatchSeats
    <2>3. QED
      BY <2>1, <2>2
  <1>12. QED
    BY <1>11 DEF PoolBooksMatchSeats, Share, Charged

-----------------------------------------------------------------------------
(* The requests on their way to a seat.                                    *)

(* Only a request that reads the tournament joins those on their way.      *)
LEMMA PendingGrowsByReading ==
  ASSUME TypeOK, [Next]_vars, NEW p \in Pools,
         ~\E r \in Requests, u \in Users : ReadTournament(r, u, p)
  PROVE  Pending(p)' \subseteq Pending(p)
  <1> SUFFICES ASSUME NEW q \in Requests, req'[q].stage # "idle", req'[q].pool = p
               PROVE  req[q].stage # "idle" /\ req[q].pool = p
    BY DEF Pending
  <1>1. ASSUME NEW r \in Requests, NEW s \in Stages, req[r].stage # "idle", Advance(r, s)
        PROVE  req[q].stage # "idle" /\ req[q].pool = p
    <2>1. req[r] \in InFlight /\ req' = [req EXCEPT ![r].stage = s]
      BY <1>1, RequestFields DEF Advance
    <2>2. req'[q].pool = req[q].pool
      BY <2>1 DEF TypeOK, InFlight
    <2>3. q # r => req'[q] = req[q]
      BY <2>1 DEF TypeOK
    <2>4. QED
      BY <1>1, <2>2, <2>3
  <1>2. ASSUME NEW r \in Requests, Respond(r)
        PROVE  req[q].stage # "idle" /\ req[q].pool = p
    BY <1>2 DEF Respond, TypeOK, Idle
  <1>3. ASSUME NEW r \in Requests, HandlerStep(r)
        PROVE  req[q].stage # "idle" /\ req[q].pool = p
    <2>1. CASE \E u \in Users, o \in Pools : ReadTournament(r, u, o)
      <3>1. PICK u \in Users, o \in Pools : ReadTournament(r, u, o)
        BY <2>1
      <3>2. o # p
        BY <3>1
      <3>3. req' = [req EXCEPT ![r] = [stage |-> "user", user |-> u, pool |-> o]]
        BY <3>1 DEF ReadTournament
      <3>4. q # r
        BY <3>2, <3>3 DEF TypeOK
      <3>5. QED
        BY <3>3, <3>4 DEF TypeOK
    <2>2. CASE ReadUser(r)
      BY <1>1, <1>2, <2>2 DEF ReadUser, Stages
    <2>3. CASE CheckQualification(r)
      BY <1>1, <1>2, <2>3 DEF CheckQualification, Stages
    <2>4. CASE FindExisting(r)
      BY <1>1, <1>2, <2>4 DEF FindExisting, Stages
    <2>5. CASE CommitJoin(r)
      BY <1>2, <2>5 DEF CommitJoin
    <2>6. CASE RollBackDebit(r)
      BY <1>2, <2>6 DEF RollBackDebit
    <2>7. QED
      BY <1>3, <2>1, <2>2, <2>3, <2>4, <2>5, <2>6 DEF HandlerStep
  <1>4. CASE ProcessDies
    BY <1>4 DEF ProcessDies, Crash, DuplicateSeat, Idle
  <1>5. CASE \E o \in Pools : CreatePool(o) \/ AgentCloses(o) \/ WorkerSettles(o)
    BY <1>5 DEF CreatePool, AgentCloses, WorkerSettles, SetStatus
  <1>6. CASE UNCHANGED vars
    BY <1>6 DEF vars
  <1>7. QED
    BY <1>3, <1>4, <1>5, <1>6 DEF Next, JoinStep

(* The request that commits leaves them.                                   *)
LEMMA CommitLeavesPending ==
  ASSUME TypeOK, NEW r \in Requests, CommitJoin(r)
  PROVE  \E u \in Users, p \in Pools :
           /\ Transaction(u, p)
           /\ r \in Pending(p)
           /\ \A o \in Pools : Pending(o)' \subseteq Pending(o)
           /\ r \notin Pending(p)'
  <1> DEFINE u == req[r].user
  <1> DEFINE p == req[r].pool
  <1>1. u \in Users /\ p \in Pools /\ Transaction(u, p) /\ req' = [req EXCEPT ![r] = Idle]
    BY RequestFields DEF CommitJoin, Respond
  <1>2. r \in Pending(p)
    BY DEF CommitJoin, Pending
  <1>3. req'[r].stage = "idle" /\ \A q \in Requests : q # r => req'[q] = req[q]
    BY <1>1 DEF TypeOK, Idle
  <1>4. \A o \in Pools : Pending(o)' \subseteq Pending(o) /\ r \notin Pending(o)'
    BY <1>3 DEF Pending
  <1> HIDE DEF u, p
  <1>5. QED
    BY <1>1, <1>2, <1>4

(* The requests on their way are finitely many, at most those there are.   *)
LEMMA PendingIsBounded ==
  ASSUME NEW S, S \subseteq Requests
  PROVE  /\ IsFiniteSet(S) /\ Cardinality(S) \in Nat /\ Cardinality(Requests) \in Nat
         /\ Cardinality(S) <= Cardinality(Requests)
         /\ \A T \in SUBSET S : Cardinality(T) \in Nat /\ Cardinality(T) <= Cardinality(S)
  <1>1. IsFiniteSet(S) /\ Cardinality(S) <= Cardinality(Requests)
    BY FiniteRequests, FS_Subset
  <1>2. \A T \in SUBSET S : IsFiniteSet(T) /\ Cardinality(T) <= Cardinality(S)
    BY <1>1, FS_Subset
  <1>3. QED
    BY <1>1, <1>2, FiniteRequests, FS_CardinalityType

LEMMA StepOverfillBounded ==
  ASSUME TypeOK, OverfillBounded, [Next]_vars
  PROVE  OverfillBounded'
  <1> SUFFICES ASSUME NEW p \in Pools
               PROVE  playerCount'[p] + Cardinality(Pending(p)')
                        <= MaxPlayers[p] - 1 + Cardinality(Requests)
    BY DEF OverfillBounded
  <1>1. /\ playerCount[p] \in Nat /\ MaxPlayers[p] \in Nat \ {0}
        /\ playerCount[p] + Cardinality(Pending(p)) <= MaxPlayers[p] - 1 + Cardinality(Requests)
    BY PoolConstants DEF TypeOK, OverfillBounded
  <1>2. Pending(p) \subseteq Requests /\ Pending(p)' \subseteq Requests
    BY DEF Pending
  <1>3. /\ Cardinality(Pending(p)) \in Nat /\ Cardinality(Pending(p)') \in Nat
        /\ Cardinality(Requests) \in Nat
        /\ Cardinality(Pending(p)') <= Cardinality(Requests)
        /\ Pending(p)' \subseteq Pending(p) => Cardinality(Pending(p)') <= Cardinality(Pending(p))
    BY <1>2, PendingIsBounded
  <1>4. CASE \E r \in Requests : CommitJoin(r)
    <2>1. PICK r \in Requests : CommitJoin(r)
      BY <1>4
    <2>2. PICK u \in Users, o \in Pools :
            /\ Transaction(u, o)
            /\ r \in Pending(o)
            /\ \A x \in Pools : Pending(x)' \subseteq Pending(x)
            /\ r \notin Pending(o)'
      BY <2>1, CommitLeavesPending
    <2>3. playerCount' = [playerCount EXCEPT ![o] = @ + 1] /\ playerCount \in [Pools -> Nat]
      BY <2>2 DEF Transaction, TypeOK
    <2>4. CASE o # p
      BY <1>1, <1>3, <2>2, <2>3, <2>4
    <2>5. CASE o = p
      <3>1. playerCount'[p] = playerCount[p] + 1
        BY <2>3, <2>5
      <3>2. Pending(p)' \subseteq Pending(p) \ {r} /\ r \in Pending(p)
        BY <2>2, <2>5
      <3>3. /\ IsFiniteSet(Pending(p))
            /\ Cardinality(Pending(p) \ {r}) = Cardinality(Pending(p)) - 1
        BY <1>2, <3>2, PendingIsBounded, FS_RemoveElement
      <3>4. Cardinality(Pending(p)') <= Cardinality(Pending(p) \ {r})
        BY <1>2, <3>2, PendingIsBounded
      <3>5. QED
        BY <1>1, <1>3, <3>1, <3>3, <3>4
    <2>6. QED
      BY <2>4, <2>5
  <1>5. CASE ~\E r \in Requests : CommitJoin(r)
    <2>1. playerCount' = playerCount
      BY <1>5, OnlyCommitWritesBooks DEF books
    <2>2. CASE \E r \in Requests, u \in Users : ReadTournament(r, u, p)
      <3>1. playerCount[p] <= MaxPlayers[p] - 1
        BY <1>1, <2>2 DEF ReadTournament, HasRoom
      <3>2. QED
        BY <1>1, <1>3, <2>1, <3>1
    <2>3. CASE ~\E r \in Requests, u \in Users : ReadTournament(r, u, p)
      BY <1>1, <1>3, <2>1, <2>3, PendingGrowsByReading
    <2>4. QED
      BY <2>2, <2>3
  <1>6. QED
    BY <1>4, <1>5

-----------------------------------------------------------------------------
(* The status of a pool.                                                   *)

(* Only a commit and the three workers' steps write a status.              *)
LEMMA StatusEffect ==
  ASSUME [Next]_vars, ~\E r \in Requests : CommitJoin(r)
  PROVE  \/ status' = status
         \/ /\ req' = req
            /\ \E p \in Pools, s \in {"OPEN", "CLOSED", "SETTLED"} :
                 /\ status' = [status EXCEPT ![p] = s]
                 /\ s = "OPEN" => status[p] = "ABSENT"
  <1>1. ASSUME NEW r \in Requests, HandlerStep(r)
        PROVE  status' = status
    BY <1>1 DEF HandlerStep, ReadTournament, ReadUser, CheckQualification, FindExisting,
         RollBackDebit, pools
  <1>2. CASE ProcessDies \/ UNCHANGED vars
    BY <1>2 DEF ProcessDies, Crash, DuplicateSeat, pools, vars
  <1>3. ASSUME NEW p \in Pools, CreatePool(p) \/ AgentCloses(p) \/ WorkerSettles(p)
        PROVE  /\ req' = req
               /\ \E s \in {"OPEN", "CLOSED", "SETTLED"} :
                    /\ status' = [status EXCEPT ![p] = s]
                    /\ s = "OPEN" => status[p] = "ABSENT"
    BY <1>3 DEF CreatePool, AgentCloses, WorkerSettles, SetStatus
  <1>4. QED
    BY <1>1, <1>2, <1>3 DEF Next, JoinStep

LEMMA StepAbsentIsUntouched ==
  ASSUME TypeOK, AbsentIsUntouched, [Next]_vars
  PROVE  AbsentIsUntouched'
  <1> SUFFICES ASSUME NEW p \in Pools, status'[p] = "ABSENT"
               PROVE  playerCount'[p] = 0 /\ Pending(p)' = {}
    BY DEF AbsentIsUntouched
  <1>1. CASE \E r \in Requests : CommitJoin(r)
    <2>1. PICK r \in Requests : CommitJoin(r)
      BY <1>1
    <2>2. PICK u \in Users, o \in Pools :
            /\ Transaction(u, o)
            /\ r \in Pending(o)
            /\ \A x \in Pools : Pending(x)' \subseteq Pending(x)
      BY <2>1, CommitLeavesPending
    <2>3. status[p] = "ABSENT"
      BY <2>2 DEF Transaction, TypeOK
    <2>4. playerCount[p] = 0 /\ Pending(p) = {}
      BY <2>3 DEF AbsentIsUntouched
    <2>5. o # p
      BY <2>2, <2>4
    <2>6. QED
      BY <2>2, <2>4, <2>5 DEF Transaction, TypeOK
  <1>2. CASE ~\E r \in Requests : CommitJoin(r)
    <2>1. status[p] = "ABSENT"
      BY <1>2, StatusEffect DEF TypeOK
    <2>2. playerCount[p] = 0 /\ Pending(p) = {}
      BY <2>1 DEF AbsentIsUntouched
    <2>3. ~\E r \in Requests, u \in Users : ReadTournament(r, u, p)
      BY <2>1 DEF ReadTournament, Joinable
    <2>4. Pending(p)' \subseteq Pending(p)
      BY <2>3, PendingGrowsByReading
    <2>5. QED
      BY <1>2, <2>2, <2>4, OnlyCommitWritesBooks DEF books
  <1>3. QED
    BY <1>1, <1>2

LEMMA StepFullDailyIsClosed ==
  ASSUME TypeOK, AbsentIsUntouched, FullDailyIsClosed, [Next]_vars
  PROVE  FullDailyIsClosed'
  <1> SUFFICES ASSUME NEW p \in Pools, Fills(p, playerCount'[p])
               PROVE  status'[p] \notin Joinable
    BY DEF FullDailyIsClosed, Fills
  <1>1. CASE \E r \in Requests : CommitJoin(r)
    <2>1. PICK u \in Users, o \in Pools : Transaction(u, o)
      BY <1>1, CommitIsTransaction
    <2>2. CASE o = p
      <3>1. playerCount'[p] = playerCount[p] + 1
        BY <2>1, <2>2 DEF Transaction, TypeOK
      <3>2. status'[p] = "CLOSED"
        BY <2>1, <2>2, <3>1 DEF Transaction, TypeOK
      <3>3. QED
        BY <3>2 DEF Joinable
    <2>3. CASE o # p
      BY <2>1, <2>3 DEF Transaction, FullDailyIsClosed, Fills, TypeOK
    <2>4. QED
      BY <2>2, <2>3
  <1>2. CASE ~\E r \in Requests : CommitJoin(r)
    <2>1. playerCount' = playerCount
      BY <1>2, OnlyCommitWritesBooks DEF books
    <2>2. status[p] \notin Joinable
      BY <2>1 DEF FullDailyIsClosed, Fills
    <2>3. status[p] # "ABSENT"
      BY <2>1, PoolConstants DEF AbsentIsUntouched, Fills
    <2>4. CASE status' = status
      BY <2>2, <2>4
    <2>5. ASSUME NEW o \in Pools, NEW s \in {"OPEN", "CLOSED", "SETTLED"},
                 status' = [status EXCEPT ![o] = s], s = "OPEN" => status[o] = "ABSENT"
          PROVE  status'[p] \notin Joinable
      BY <2>2, <2>3, <2>5 DEF TypeOK, Joinable
    <2>6. QED
      BY <1>2, <2>4, <2>5, StatusEffect
  <1>3. QED
    BY <1>1, <1>2

-----------------------------------------------------------------------------
(* The inductive invariant, and the properties as theorems.                *)
Inv ==
  /\ TypeOK
  /\ NoOverdraft
  /\ LedgerReplays
  /\ OneChargePerSeat
  /\ PoolBooksMatchSeats
  /\ OverfillBounded
  /\ AbsentIsUntouched
  /\ FullDailyIsClosed

LEMMA InitInv == Init => Inv
  <1> SUFFICES ASSUME Init PROVE Inv
    OBVIOUS
  <1>1. TypeOK
    BY InitTypeOK
  <1>2. \A p \in Pools : Pending(p) = {} /\ playerCount[p] = 0 /\ roster[p] = <<>>
    BY DEF Init, Pending, Idle
  <1>3. \A u \in Users : ledger[u] = <<>> /\ balance[u] = OpeningBalance[u]
    BY DEF Init
  <1>4. NoOverdraft
    BY <1>3, PoolConstants DEF NoOverdraft
  <1>5. LedgerReplays
    BY <1>3 DEF LedgerReplays, BalanceBefore
  <1>6. OneChargePerSeat
    BY <1>2, <1>3 DEF OneChargePerSeat, Seated, Range, IsInjective
  <1>7. PoolBooksMatchSeats
    <2> SUFFICES ASSUME NEW p \in Pools
                 PROVE  /\ playerCount[p] = Len(roster[p])
                        /\ rewardPool[p] = SeedReward[p] + Len(roster[p]) * Share(p).reward
                        /\ prizePool[p] = SeedPrize[p] + Len(roster[p]) * Share(p).prize
                        /\ jackpotSlice[p] = Len(roster[p]) * Share(p).jackpot
      BY DEF PoolBooksMatchSeats
    <2>1. Len(roster[p]) = 0
      BY <1>2
    <2>2. /\ SeedReward[p] \in Nat /\ SeedPrize[p] \in Nat
          /\ Share(p).reward \in Nat /\ Share(p).prize \in Nat /\ Share(p).jackpot \in Nat
      BY PoolConstants, ShareIsNatural
    <2>3. /\ SeedReward[p] = SeedReward[p] + 0 * Share(p).reward
          /\ SeedPrize[p] = SeedPrize[p] + 0 * Share(p).prize
          /\ 0 = 0 * Share(p).jackpot
      BY <2>2
    <2>4. rewardPool[p] = SeedReward[p] /\ prizePool[p] = SeedPrize[p] /\ jackpotSlice[p] = 0
      BY DEF Init
    <2>5. QED
      BY <1>2, <2>1, <2>3, <2>4
  <1>8. OverfillBounded
    <2>1. Cardinality({}) = 0 /\ Cardinality(Requests) \in Nat
      BY FiniteRequests, FS_EmptySet, FS_CardinalityType
    <2>2. ASSUME NEW p \in Pools
          PROVE  playerCount[p] + Cardinality(Pending(p)) <= MaxPlayers[p] - 1 + Cardinality(Requests)
      <3>1. MaxPlayers[p] \in Nat \ {0} /\ playerCount[p] = 0 /\ Cardinality(Pending(p)) = 0
        BY <1>2, <2>1, PoolConstants
      <3>2. QED
        BY <2>1, <3>1
    <2>3. QED
      BY <2>2 DEF OverfillBounded
  <1>9. AbsentIsUntouched
    BY <1>2 DEF AbsentIsUntouched
  <1>10. FullDailyIsClosed
    BY DEF Init, FullDailyIsClosed, Joinable
  <1>11. QED
    BY <1>1, <1>4, <1>5, <1>6, <1>7, <1>8, <1>9, <1>10 DEF Inv

LEMMA StepInv == Inv /\ [Next]_vars => Inv'
  <1> SUFFICES ASSUME Inv, [Next]_vars PROVE Inv'
    OBVIOUS
  <1>1. /\ TypeOK /\ NoOverdraft /\ LedgerReplays /\ OneChargePerSeat
        /\ PoolBooksMatchSeats /\ OverfillBounded /\ AbsentIsUntouched /\ FullDailyIsClosed
    BY DEF Inv
  <1>2. TypeOK' /\ OverfillBounded' /\ AbsentIsUntouched' /\ FullDailyIsClosed'
    BY <1>1, StepTypeOK, StepOverfillBounded, StepAbsentIsUntouched, StepFullDailyIsClosed
  <1>3. CASE \E r \in Requests : CommitJoin(r)
    <2>1. PICK u \in Users, p \in Pools : Transaction(u, p)
      BY <1>1, <1>3, CommitIsTransaction
    <2>2. NoOverdraft' /\ LedgerReplays'
      BY <1>1, <2>1, TransactionKeepsNoOverdraft, TransactionKeepsLedgerReplays
    <2>3. OneChargePerSeat' /\ PoolBooksMatchSeats'
      BY <1>1, <2>1, TransactionKeepsOneCharge, TransactionKeepsBooks
    <2>4. QED
      BY <1>2, <2>2, <2>3 DEF Inv
  <1>4. CASE ~\E r \in Requests : CommitJoin(r)
    <2>1. UNCHANGED books
      BY <1>4, OnlyCommitWritesBooks
    <2>2. NoOverdraft' /\ LedgerReplays'
      BY <1>1, <2>1 DEF books, NoOverdraft, LedgerReplays, BalanceBefore
    <2>3. OneChargePerSeat' /\ PoolBooksMatchSeats'
      BY <1>1, <2>1 DEF books, OneChargePerSeat, Seated, Charged, PoolBooksMatchSeats, Share
    <2>4. QED
      BY <1>2, <2>2, <2>3 DEF Inv
  <1>5. QED
    BY <1>3, <1>4

(* However many requests race or crash, a user is charged once for a seat  *)
(* and has the seat the charge was for.                                    *)
THEOREM EverySeatPaidOnce == Spec => []OneChargePerSeat
  <1>1. Inv => OneChargePerSeat
    BY DEF Inv
  <1>2. QED
    BY <1>1, InitInv, StepInv, PTL DEF Spec

(* No interleaving of joins takes a balance below zero: the stale balance  *)
(* check of the handler is backed by the guarded debit.                    *)
THEOREM AccountsStaySolvent == Spec => []NoOverdraft
  <1>1. Inv => NoOverdraft
    BY DEF Inv
  <1>2. QED
    BY <1>1, InitInv, StepInv, PTL DEF Spec

(* The ledger explains the balance at all times.                           *)
THEOREM LedgerExplainsBalance == Spec => []LedgerReplays
  <1>1. Inv => LedgerReplays
    BY DEF Inv
  <1>2. QED
    BY <1>1, InitInv, StepInv, PTL DEF Spec

(* The counters of a pool never drift from its participant rows.           *)
THEOREM PoolBooksNeverDrift == Spec => []PoolBooksMatchSeats
  <1>1. Inv => PoolBooksMatchSeats
    BY DEF Inv
  <1>2. QED
    BY <1>1, InitInv, StepInv, PTL DEF Spec

(* What the unlocked capacity check still guarantees: with n requests in   *)
(* the server at a time, at most n - 1 seats beyond the capacity.          *)
THEOREM CapacityExceededAtMostByRacers == Spec => []OverfillBounded
  <1>1. Inv => OverfillBounded
    BY DEF Inv
  <1>2. QED
    BY <1>1, InitInv, StepInv, PTL DEF Spec

(* A full daily pool is never joinable again, whatever the workers do.     *)
THEOREM FullDailyStaysClosed == Spec => []FullDailyIsClosed
  <1>1. Inv => FullDailyIsClosed
    BY DEF Inv
  <1>2. QED
    BY <1>1, InitInv, StepInv, PTL DEF Spec

-----------------------------------------------------------------------------
(* Credits: what leaves the users is in the pots, and a step of the whole  *)
(* handler is a step of EntryGate.                                         *)
Pots == [p \in Pools |-> PotOf(p)]

LEMMA PotsAreIntegers == TypeOK => \A p \in Pools : Pots[p] \in Int
  BY PoolConstants DEF TypeOK, Pots, PotOf

LEMMA HouseIsPots == House = treasury + SumFunctionOnSet(Pots, Pools)
  BY DEF House, SumFunction, Pots

(* One entry moves its price to the house, whatever the type of the pool.  *)
LEMMA EntryPaysHouse ==
  ASSUME TypeOK, TypeOK', NEW u \in Users, NEW p \in Pools, Transaction(u, p)
  PROVE  House' = House + EntryPrice(p)
  <1> DEFINE share == Share(p)
  <1>1. /\ share.reward \in Nat /\ share.prize \in Nat /\ share.jackpot \in Nat
        /\ share.treasury \in Nat
        /\ Kind[p] = "DAILY" => share.reward + share.jackpot + share.treasury = EntryPrice(p)
        /\ Kind[p] # "DAILY" => share.prize = EntryPrice(p) /\ share.treasury = 0
    BY ShareIsNatural
  <1>2. /\ rewardPool' = [rewardPool EXCEPT ![p] = @ + share.reward]
        /\ prizePool' = [prizePool EXCEPT ![p] = @ + share.prize]
        /\ jackpotSlice' = [jackpotSlice EXCEPT ![p] = @ + share.jackpot]
        /\ treasury' = treasury + share.treasury
    BY DEF Transaction, FundPool
  <1> HIDE DEF share
  <1>3. /\ rewardPool \in [Pools -> Nat] /\ prizePool \in [Pools -> Nat]
        /\ jackpotSlice \in [Pools -> Nat] /\ treasury \in Nat
        /\ SeedReward[p] \in Nat /\ SeedPrize[p] \in Nat
    BY PoolConstants DEF TypeOK
  <1>4. Pots'[p] + treasury' = Pots[p] + treasury + EntryPrice(p)
    <2>1. /\ rewardPool'[p] = rewardPool[p] + share.reward
          /\ prizePool'[p] = prizePool[p] + share.prize
          /\ jackpotSlice'[p] = jackpotSlice[p] + share.jackpot
      BY <1>2, <1>3
    <2>2. CASE Kind[p] = "DAILY"
      <3>1. /\ Pots[p] = rewardPool[p] - SeedReward[p] + jackpotSlice[p]
            /\ Pots'[p] = rewardPool'[p] - SeedReward[p] + jackpotSlice'[p]
        BY <2>2 DEF Pots, PotOf
      <3>2. QED
        BY <1>1, <1>2, <1>3, <2>1, <2>2, <3>1
    <2>3. CASE Kind[p] # "DAILY"
      <3>1. /\ Pots[p] = prizePool[p] - SeedPrize[p]
            /\ Pots'[p] = prizePool'[p] - SeedPrize[p]
        BY <2>3 DEF Pots, PotOf
      <3>2. QED
        BY <1>1, <1>2, <1>3, <2>1, <2>3, <3>1
    <2>4. QED
      BY <2>2, <2>3
  <1>5. \A q \in Pools \ {p} : Pots'[q] = Pots[q]
    BY <1>2, <1>3 DEF Pots, PotOf
  <1>6. /\ \A q \in Pools : Pots[q] \in Int
        /\ \A q \in Pools : Pots'[q] \in Int
    <2>1. ASSUME NEW q \in Pools PROVE Pots'[q] \in Int
      <3>1. /\ rewardPool'[q] \in Nat /\ prizePool'[q] \in Nat /\ jackpotSlice'[q] \in Nat
            /\ SeedReward[q] \in Nat /\ SeedPrize[q] \in Nat
        BY PoolConstants DEF TypeOK
      <3>2. Pots'[q] = IF Kind[q] = "DAILY"
                         THEN rewardPool'[q] - SeedReward[q] + jackpotSlice'[q]
                         ELSE prizePool'[q] - SeedPrize[q]
        BY DEF Pots, PotOf
      <3>3. QED
        BY <3>1, <3>2
    <2>2. QED
      BY <2>1, PotsAreIntegers
  <1>7. SumFunctionOnSet(Pots', Pools) = SumFunctionOnSet(Pots, Pools) + Pots'[p] - Pots[p]
    <2>1. IsFiniteSet(Pools)
      BY FiniteTables
    <2> DEFINE before == Pots
               after == Pots'
    <2> HIDE DEF before, after
    <2>2. /\ \A q \in Pools : before[q] \in Int
          /\ \A q \in Pools : after[q] \in Int
          /\ \A q \in Pools \ {p} : after[q] = before[q]
      BY <1>5, <1>6 DEF before, after
    <2>3. SumFunctionOnSet(after, Pools) = SumFunctionOnSet(before, Pools) + after[p] - before[p]
      BY <2>1, <2>2, SumChanges
    <2>4. QED
      BY <2>3 DEF before, after
  <1>8. SumFunctionOnSet(Pots, Pools) \in Int
    <2>1. IsFiniteSet(Pools)
      BY FiniteTables
    <2>2. QED
      BY <1>6, <2>1, SumIsInt
  <1>9. EntryPrice(p) \in Nat /\ treasury' \in Int
    BY <1>1, <1>2, <1>3, PoolConstants DEF EntryPrice
  <1>10. House' = treasury' + SumFunctionOnSet(Pots', Pools)
    BY DEF House, SumFunction, Pots
  <1>11. QED
    BY <1>3, <1>4, <1>6, <1>7, <1>8, <1>9, <1>10, HouseIsPots

(* What a transaction does to the payer's balance, charged or not.         *)
LEMMA EntryPaidByUser ==
  ASSUME TypeOK, NoOverdraft, NEW u \in Users, NEW p \in Pools, Transaction(u, p)
  PROVE  /\ EntryPrice(p) \in Nat
         /\ balance[u] >= EntryPrice(p)
         /\ balance' = [balance EXCEPT ![u] = @ - EntryPrice(p)]
  <1>1. Fee[p] \in Nat /\ balance \in [Users -> Int]
    BY PoolConstants DEF TypeOK
  <1>2. CASE Charged(p)
    <2>1. balance[u] >= Fee[p] /\ balance' = [balance EXCEPT ![u] = @ - Fee[p]]
      BY <1>2 DEF Transaction, DebitMatches, Debit
    <2>2. EntryPrice(p) = Fee[p]
      BY <1>2 DEF EntryPrice
    <2>3. QED
      BY <1>1, <2>1, <2>2
  <1>3. CASE ~Charged(p)
    <2>1. balance' = balance /\ EntryPrice(p) = 0
      BY <1>3 DEF Transaction, Debit, EntryPrice
    <2>2. balance[u] \in Int /\ balance[u] >= 0
      BY <1>1 DEF NoOverdraft
    <2>3. balance = [balance EXCEPT ![u] = balance[u] - 0]
      BY <1>1, <2>2
    <2>4. QED
      BY <2>1, <2>2, <2>3
  <1>4. QED
    BY <1>2, <1>3

LEMMA TransactionConserves ==
  ASSUME TypeOK, TypeOK', NoOverdraft, CreditsConserved, NEW u \in Users, NEW p \in Pools, Transaction(u, p)
  PROVE  CreditsConserved'
  <1> DEFINE before == balance
             after == balance'
             price == EntryPrice(p)
  <1>1. price \in Nat /\ after = [before EXCEPT ![u] = @ - price]
    BY EntryPaidByUser
  <1>2. before \in [Users -> Int] /\ after \in [Users -> Int] /\ IsFiniteSet(Users)
    BY FiniteTables DEF TypeOK
  <1>3. House' = House + price
    BY EntryPaysHouse
  <1>4. House \in Int
    <2>1. SumFunctionOnSet(Pots, Pools) \in Int
      BY PotsAreIntegers, FiniteTables, SumIsInt
    <2>2. QED
      BY <2>1, HouseIsPots DEF TypeOK
  <1>5. /\ SumFunction(before) = SumFunctionOnSet(before, Users)
        /\ SumFunction(after) = SumFunctionOnSet(after, Users)
    BY <1>2 DEF SumFunction
  <1>6. SumFunction(before) + House = SumFunction(OpeningBalance)
    BY DEF CreditsConserved
  <1> HIDE DEF before, after, price
  <1>7. /\ after[u] = before[u] - price
        /\ before[u] \in Int
        /\ \A v \in Users \ {u} : after[v] = before[v]
    BY <1>1, <1>2
  <1>8. SumFunctionOnSet(after, Users) = SumFunctionOnSet(before, Users) + after[u] - before[u]
    <2>1. /\ \A v \in Users : before[v] \in Int
          /\ \A v \in Users : after[v] \in Int
      BY <1>2
    <2>2. QED
      BY <1>2, <1>7, <2>1, SumChanges
  <1>9. SumFunctionOnSet(before, Users) \in Int
    <2>1. \A v \in Users : before[v] \in Int
      BY <1>2
    <2>2. QED
      BY <1>2, <2>1, SumIsInt
  <1>10. SumFunction(after) + House' = SumFunction(OpeningBalance)
    BY <1>1, <1>3, <1>4, <1>5, <1>6, <1>7, <1>8, <1>9
  <1>11. QED
    BY <1>10 DEF CreditsConserved, after

LEMMA InitialHouseIsEmpty == Init => House = 0
  <1> SUFFICES ASSUME Init PROVE House = 0
    OBVIOUS
  <1>1. \A p \in Pools : Pots[p] = 0
    BY PoolConstants DEF Init, Pots, PotOf
  <1>2. SumFunctionOnSet(Pots, Pools) = 0
    BY <1>1, FiniteTables, SumOfZeros
  <1>3. QED
    BY <1>2, HouseIsPots DEF Init

(* House and balances stay where they are when the books do.               *)
LEMMA BooksHoldCredits ==
  ASSUME UNCHANGED books
  PROVE  House' = House /\ balance' = balance /\ SeatPairs' = SeatPairs
  BY DEF books, House, PotOf, SeatPairs, Seated

(* Conservation: a credit that left a user is in a pot.                    *)
THEOREM CreditsAreConserved == Spec => []CreditsConserved
  <1>1. Init => CreditsConserved
    <2> SUFFICES ASSUME Init PROVE CreditsConserved
      OBVIOUS
    <2>1. SumFunctionOnSet(OpeningBalance, Users) \in Int
      BY FiniteTables, PoolConstants, SumIsInt
    <2>2. SumFunction(OpeningBalance) = SumFunctionOnSet(OpeningBalance, Users)
      BY PoolConstants DEF SumFunction
    <2>3. balance = OpeningBalance
      BY DEF Init
    <2>4. QED
      BY <2>1, <2>2, <2>3, InitialHouseIsEmpty DEF CreditsConserved
  <1>2. TypeOK /\ TypeOK' /\ NoOverdraft /\ CreditsConserved /\ [Next]_vars => CreditsConserved'
    <2> SUFFICES ASSUME TypeOK, TypeOK', NoOverdraft, CreditsConserved, [Next]_vars
                 PROVE  CreditsConserved'
      OBVIOUS
    <2>1. CASE \E r \in Requests : CommitJoin(r)
      BY <2>1, CommitIsTransaction, TransactionConserves
    <2>2. CASE ~\E r \in Requests : CommitJoin(r)
      BY <2>2, OnlyCommitWritesBooks, BooksHoldCredits DEF CreditsConserved
    <2>3. QED
      BY <2>1, <2>2
  <1>3. QED
    BY <1>1, <1>2, TypeCorrect, AccountsStaySolvent, PTL DEF Spec

-----------------------------------------------------------------------------
(* The handler implements the gate: five awaits, races and crashes show    *)
(* outside as one step that takes a seat and moves its price, or as none.  *)
LEMMA TransactionEnters ==
  ASSUME TypeOK, TypeOK', NoOverdraft, NEW u \in Users, NEW p \in Pools, Transaction(u, p)
  PROVE  Gate!Enter(u, p)
  <1>1. <<p, u>> \notin SeatPairs
    BY DEF Transaction, SeatFree, SeatPairs
  <1>2. PriceList[p] = EntryPrice(p)
    BY DEF PriceList
  <1>3. SeatPairs' = SeatPairs \cup {<<p, u>>}
    <2>1. /\ Seated(p)' = Seated(p) \cup {u}
          /\ \A q \in Pools : q # p => Seated(q)' = Seated(q)
      BY SeatEffect DEF Seated
    <2>2. QED
      BY <2>1 DEF SeatPairs
  <1>4. QED
    BY <1>1, <1>2, <1>3, EntryPaidByUser, EntryPaysHouse DEF Gate!Enter

THEOREM JoinImplementsEntryGate == Spec => ImplementsEntryGate
  <1>1. Init => Gate!Init
    BY InitialHouseIsEmpty DEF Init, Gate!Init, SeatPairs, Seated, Range
  <1>2. TypeOK /\ TypeOK' /\ NoOverdraft /\ [Next]_vars => [Gate!Next]_<<balance, SeatPairs, House>>
    <2> SUFFICES ASSUME TypeOK, TypeOK', NoOverdraft, [Next]_vars
                 PROVE  Gate!Next \/ UNCHANGED <<balance, SeatPairs, House>>
      OBVIOUS
    <2>1. CASE \E r \in Requests : CommitJoin(r)
      BY <2>1, CommitIsTransaction, TransactionEnters DEF Gate!Next
    <2>2. CASE ~\E r \in Requests : CommitJoin(r)
      BY <2>2, OnlyCommitWritesBooks, BooksHoldCredits
    <2>3. QED
      BY <2>1, <2>2
  <1>3. QED
    BY <1>1, <1>2, TypeCorrect, AccountsStaySolvent, PTL DEF Spec, ImplementsEntryGate, Gate!Spec

-----------------------------------------------------------------------------
(* The daily pools: what a settlement works on.                            *)

Standing == [user : Users, done : BOOLEAN]
SettlerStages == PayStages \cup {"idle", "read", "empty", "mark", "contribute", "transfer"}
AgentStages == {"idle", "spawn", "create", "find", "close", "respawn", "recreate"}

WorkTyped(me) ==
  /\ me.stage \in SettlerStages
  /\ me.stage # "idle" => me.pool \in Pools
  /\ me.stage \in PayStages =>
       /\ {"stage", "pool", "list", "next"} \subseteq DOMAIN me
       /\ me.list \in Seq(Standing) /\ me.next \in 1 .. Len(me.list)
  /\ me.stage = "record" => me.after \in Int
  /\ me.stage = "complete" => me.count \in Nat
  /\ me.stage = "transfer" => me.amount \in Nat

DailyTyped ==
  /\ TypeOK
  /\ results \in [Pools -> [Users -> [score : Scores \cup {0}, done : BOOLEAN]]]
  /\ rank \in [Pools -> [Users -> 0 .. Cardinality(Users)]]
  /\ age \in [Pools -> Ages]
  /\ contributed \in [Pools -> BOOLEAN]
  /\ jackpot \in Nat
  /\ completions \in [Users -> Nat]
  /\ settler = [s \in Settlers |-> settler[s]]
  /\ \A s \in Settlers : WorkTyped(settler[s])
  /\ agent.stage \in AgentStages
  /\ agent.stage = "close" => agent.pool \in Pools
  /\ spawns \in [counting : Nat, creating : Nat]
  /\ failures \in Nat
  /\ reopened \in [Pools -> Nat]
  /\ undone \subseteq Pools \X Users

(* The list a settlement pays is of the players who sat first, each once,  *)
(* who are done or whose time is over.                                     *)
ListFits(list, p) ==
  /\ Len(list) <= Len(roster[p])
  /\ \A k \in 1 .. Len(list) : \E i \in 1 .. Len(list) : roster[p][i] = list[k].user
  /\ \A i \in 1 .. Len(list) : \E k \in 1 .. Len(list) : list[k].user = roster[p][i]
  /\ \A j, k \in 1 .. Len(list) : list[j].user = list[k].user => j = k
  /\ \A k \in 1 .. Len(list) : list[k].done => Finished(list[k].user, p)
  /\ AllDone(list) \/ age[p] = "expired"

ListsFit ==
  \A s \in Settlers : settler[s].stage \in PayStages => ListFits(settler[s].list, settler[s].pool)

(* Nobody sits twice, and only who sits has a rank or a reward.            *)
SeatsInv ==
  /\ \A p \in Pools : IsInjective(roster[p])
  /\ \A p \in Pools, u \in Users : rank[p][u] > 0 => u \in Seated(p)
  /\ \A p \in Pools, u \in Users : RewardRows(u, p) # {} =>
       u \in Seated(p) /\ (Finished(u, p) \/ age[p] = "expired")

DailyInv == DailyTyped /\ ListsFit /\ SeatsInv

-----------------------------------------------------------------------------
(* What the steps of anyone but a settlement leave to the settlements.     *)
Grows(p) ==
  /\ Len(roster[p]) <= Len(roster'[p])
  /\ \A i \in 1 .. Len(roster[p]) : roster'[p][i] = roster[p][i]
  /\ IsInjective(roster[p]) => IsInjective(roster'[p])

RowsKept(u) ==
  /\ DOMAIN ledger[u] \subseteq DOMAIN ledger'[u]
  /\ \A i \in DOMAIN ledger[u] : ledger'[u][i] = ledger[u][i]
  /\ \A i \in DOMAIN ledger'[u] \ DOMAIN ledger[u] : ledger'[u][i].type = "ENTRY_FEE"

Moves(p) ==
  \/ status'[p] = status[p] /\ reopened'[p] = reopened[p]
  \/ /\ status'[p] \in Active
     /\ reopened'[p] = reopened[p] + IF status[p] = "SETTLED" THEN 1 ELSE 0

(* The part of a balance that its ledger does not explain.                 *)
Book(u) == balance[u] - SumFunction(Amounts(u))
BooksFollow == \A u \in Users : Book(u)' = Book(u)

Around ==
  /\ UNCHANGED <<settler, rank, completions, contributed, jackpot, failures>>
  /\ \A p \in Pools : Grows(p) /\ Moves(p) /\ jackpotSlice[p] <= jackpotSlice'[p]
  /\ \A u \in Users : RowsKept(u)
  /\ BooksFollow
  /\ \A p \in Pools : age[p] = "expired" => age'[p] = "expired"
  /\ \A p \in Pools, u \in Users : Finished(u, p) => Finished(u, p)'

OnlyPlayers ==
  \/ PlayerJoins
  \/ \E u \in Users, p \in Pools : SubmitScore(u, p) \/ SubmitOvertaken(u, p)
  \/ \E p \in Pools : TimePasses(p)
  \/ SpawnCounts \/ SpawnCreates
  \/ AgentStep

LEMMA SameGrows == roster' = roster => \A p \in Pools : TypeOK => Grows(p)
  BY DEF Grows, TypeOK

LEMMA SameRows == ledger' = ledger => \A u \in Users : RowsKept(u)
  BY DEF RowsKept

LEMMA SameBooks == UNCHANGED <<balance, ledger>> => BooksFollow
  BY DEF BooksFollow, Book, Amounts

LEMMA SameSlices == jackpotSlice' = jackpotSlice => \A p \in Pools : TypeOK => jackpotSlice[p] <= jackpotSlice'[p]
  BY DEF TypeOK

(* The sum of a ledger is an integer, and grows by the row that is added.  *)
LEMMA AmountsAddUp ==
  ASSUME TypeOK, NEW u \in Users
  PROVE  SumFunction(Amounts(u)) \in Int
  <1>1. ledger[u] \in Seq(Entries)
    BY DEF TypeOK
  <1>2. Len(ledger[u]) \in Nat /\ DOMAIN ledger[u] = 1 .. Len(ledger[u])
    BY <1>1
  <1>3. \A i \in DOMAIN ledger[u] : ledger[u][i] \in Entries
    BY <1>1, <1>2
  <1>4. \A i \in DOMAIN ledger[u] : Amounts(u)[i] \in Int
    BY <1>3 DEF Amounts, Entries
  <1>5. IsFiniteSet(DOMAIN ledger[u])
    BY <1>2, FS_Interval
  <1>6. SumFunction(Amounts(u)) = SumFunctionOnSet(Amounts(u), DOMAIN ledger[u])
    BY DEF SumFunction, Amounts
  <1>7. QED
    BY <1>4, <1>5, <1>6, SumIsInt

LEMMA AmountsGrow ==
  ASSUME TypeOK, TypeOK', NEW u \in Users, NEW row \in Entries, ledger'[u] = Append(ledger[u], row)
  PROVE  SumFunction(Amounts(u))' = SumFunction(Amounts(u)) + row.amount
  <1> DEFINE n == Len(ledger[u])
             f == [i \in 1 .. n |-> ledger[u][i].amount]
             g == [i \in 1 .. n + 1 |-> ledger'[u][i].amount]
  <1>1. ledger[u] \in Seq(Entries)
    BY DEF TypeOK
  <1>2. /\ n \in Nat /\ DOMAIN ledger[u] = 1 .. n
        /\ DOMAIN ledger'[u] = 1 .. n + 1
        /\ \A i \in 1 .. n : ledger'[u][i] = ledger[u][i]
        /\ ledger'[u][n + 1] = row
    BY <1>1, AppendFacts
  <1>3. \A i \in 1 .. n : ledger[u][i] \in Entries
    BY <1>1, <1>2
  <1>4. Amounts(u) = f /\ Amounts(u)' = g
    BY <1>2 DEF Amounts
  <1>5. /\ SumFunction(Amounts(u)) = SumFunctionOnSet(f, 1 .. n)
        /\ SumFunction(Amounts(u))' = SumFunctionOnSet(g, 1 .. n + 1)
    BY <1>4 DEF SumFunction
  <1>6. /\ \A i \in 1 .. n : f[i] \in Int /\ g[i] = f[i]
        /\ g[n + 1] = row.amount /\ row.amount \in Int
    BY <1>2, <1>3 DEF Entries
  <1> HIDE DEF n, f, g
  <1>7. /\ IsFiniteSet(1 .. n) /\ IsFiniteSet(1 .. n + 1)
        /\ (1 .. n + 1) \ {n + 1} = 1 .. n /\ n + 1 \in 1 .. n + 1
        /\ \A i \in 1 .. n + 1 : i = n + 1 \/ i \in 1 .. n
    <2>1. n \in Int /\ n + 1 \in Int /\ 1 \in Int /\ n \in Nat
      BY <1>2
    <2>2. IsFiniteSet(1 .. n) /\ IsFiniteSet(1 .. n + 1)
      BY <2>1, FS_Interval
    <2>3. (1 .. n + 1) \ {n + 1} = 1 .. n /\ n + 1 \in 1 .. n + 1
      BY <2>1
    <2>4. \A i \in 1 .. n + 1 : i = n + 1 \/ i \in 1 .. n
      BY <2>1
    <2>5. QED
      BY <2>2, <2>3, <2>4
  <1>8. \A i \in 1 .. n + 1 : g[i] \in Int
    BY <1>6, <1>7
  <1>9. SumFunctionOnSet(g, 1 .. n + 1) = g[n + 1] + SumFunctionOnSet(g, (1 .. n + 1) \ {n + 1})
    BY <1>7, <1>8, SumTakes
  <1>10. SumFunctionOnSet(g, 1 .. n) = SumFunctionOnSet(f, 1 .. n)
    BY <1>6, <1>7, SumSame
  <1>11. SumFunctionOnSet(f, 1 .. n) \in Int
    BY <1>6, <1>7, SumIsInt
  <1>12. SumFunctionOnSet(g, 1 .. n + 1) = SumFunctionOnSet(f, 1 .. n) + row.amount
    <2>1. (1 .. n + 1) \ {n + 1} = 1 .. n
      BY <1>7
    <2>2. SumFunctionOnSet(g, 1 .. n + 1) = g[n + 1] + SumFunctionOnSet(f, 1 .. n)
      BY <1>9, <1>10, <2>1, Zenon
    <2>3. g[n + 1] = row.amount /\ row.amount \in Int
      BY <1>6
    <2>4. QED
      BY <1>11, <2>2, <2>3
  <1>13. QED
    BY <1>5, <1>12

(* A charge moves the balance and its ledger together.                     *)
LEMMA ChargeFollows ==
  ASSUME TypeOK, TypeOK', NEW u \in Users, NEW p \in Pools, Transaction(u, p)
  PROVE  BooksFollow
  <1>1. CASE ~Charged(p)
    BY <1>1, FreeEntryEffect, SameBooks
  <1>2. CASE Charged(p)
    <2>1. /\ Fee[p] \in Nat /\ balance[u] \in Int /\ ChargeRow(u, p) \in Entries
          /\ balance'[u] = balance[u] - Fee[p]
          /\ ledger'[u] = Append(ledger[u], ChargeRow(u, p))
          /\ \A v \in Users : v # u => balance'[v] = balance[v] /\ ledger'[v] = ledger[v]
      BY <1>2, ChargeEffect
    <2>2. SumFunction(Amounts(u)) \in Int
      BY AmountsAddUp
    <2>3. ChargeRow(u, p).amount = -Fee[p]
      BY DEF ChargeRow
    <2>4. SumFunction(Amounts(u))' = SumFunction(Amounts(u)) + ChargeRow(u, p).amount
      BY <2>1, AmountsGrow
    <2>5. Book(u)' = Book(u)
      BY <2>1, <2>2, <2>3, <2>4 DEF Book
    <2>6. \A v \in Users : v # u => Book(v)' = Book(v)
      BY <2>1 DEF Book, Amounts
    <2>7. QED
      BY <2>5, <2>6 DEF BooksFollow
  <1>3. QED
    BY <1>1, <1>2

(* A join commits a seat at the end of the roster, with an entry-fee row   *)
(* at the end of the ledger; all else of it changes the requests only.     *)
LEMMA JoinEffect ==
  ASSUME TypeOK, NEW r \in Requests, HandlerStep(r)
  PROVE  /\ TypeOK'
         /\ \A p \in Pools : Grows(p) /\ (status'[p] = status[p] \/ status'[p] = "CLOSED")
         /\ \A u \in Users : RowsKept(u)
         /\ \A p \in Pools : jackpotSlice[p] <= jackpotSlice'[p]
         /\ BooksFollow
  <1>1. Next
    BY DEF Next, JoinStep
  <1>2. TypeOK'
    BY <1>1, StepTypeOK
  <1>3. CASE ~\E q \in Requests : CommitJoin(q)
    <2>1. UNCHANGED books
      BY <1>1, <1>3, OnlyCommitWritesBooks
    <2>2. UNCHANGED <<roster, ledger, jackpotSlice>>
      BY <2>1 DEF books
    <2>3. UNCHANGED status
      BY <1>3 DEF HandlerStep, ReadTournament, ReadUser, CheckQualification, FindExisting,
         RollBackDebit, pools
    <2>4. BooksFollow
      BY <2>1, SameBooks DEF books
    <2>5. QED
      BY <1>2, <2>2, <2>3, <2>4, SameGrows, SameRows, SameSlices
  <1>4. CASE \E q \in Requests : CommitJoin(q)
    <2>1. PICK u \in Users, p \in Pools : Transaction(u, p)
      BY <1>4, CommitIsTransaction
    <2>2. \A q \in Pools : Grows(q)
      <3>1. /\ roster[p] \in Seq(Users)
            /\ roster'[p] = Append(roster[p], u)
            /\ Len(roster'[p]) = Len(roster[p]) + 1
            /\ \A q \in Pools : q # p => roster'[q] = roster[q]
            /\ IsInjective(roster[p]) => IsInjective(roster'[p])
        BY <2>1, SeatEffect
      <3>2. /\ Len(roster[p]) \in Nat
            /\ \A i \in 1 .. Len(roster[p]) : roster'[p][i] = roster[p][i]
        BY <3>1, AppendFacts
      <3>3. Grows(p)
        BY <3>1, <3>2 DEF Grows
      <3>4. \A q \in Pools : Len(roster[q]) \in Nat
        BY DEF TypeOK
      <3>5. \A q \in Pools : q # p => Grows(q)
        BY <3>1, <3>4 DEF Grows
      <3>6. QED
        BY <3>3, <3>5
    <2>3. \A q \in Pools : status'[q] = status[q] \/ status'[q] = "CLOSED"
      BY <2>1 DEF Transaction, TypeOK
    <2>4. \A v \in Users : RowsKept(v)
      <3>1. CASE ~Charged(p)
        BY <2>1, <3>1, FreeEntryEffect, SameRows
      <3>2. CASE Charged(p)
        <4>1. \A v \in Users : v # u => ledger'[v] = ledger[v]
          BY <2>1, <3>2, ChargeEffect
        <4>2. /\ Len(ledger[u]) \in Nat
              /\ DOMAIN ledger[u] = 1 .. Len(ledger[u])
              /\ DOMAIN ledger'[u] = 1 .. Len(ledger[u]) + 1
              /\ \A i \in 1 .. Len(ledger[u]) : ledger'[u][i] = ledger[u][i]
              /\ ledger'[u][Len(ledger[u]) + 1] = ChargeRow(u, p)
          BY <2>1, <3>2, LedgerEffect
        <4>3. RowsKept(u)
          BY <4>2 DEF RowsKept, ChargeRow
        <4>4. QED
          BY <4>1, <4>3 DEF RowsKept
      <3>3. QED
        BY <3>1, <3>2
    <2>5. \A q \in Pools : jackpotSlice[q] <= jackpotSlice'[q]
      <3>1. Share(p).jackpot \in Nat
        BY ShareIsNatural
      <3>2. jackpotSlice' = [jackpotSlice EXCEPT ![p] = @ + Share(p).jackpot]
        BY <2>1 DEF Transaction, FundPool
      <3>3. jackpotSlice \in [Pools -> Nat]
        BY DEF TypeOK
      <3>4. PICK n \in Nat : n = Share(p).jackpot
        BY <3>1
      <3>5. QED
        BY <3>2, <3>3, <3>4
    <2>6. BooksFollow
      BY <1>2, <2>1, ChargeFollows
    <2>7. QED
      BY <1>2, <2>2, <2>3, <2>4, <2>5, <2>6
  <1>5. QED
    BY <1>3, <1>4

(* The rewards of a pool are untouched by entry-fee rows.                  *)
LEMMA RewardRowsKept ==
  ASSUME NEW u \in Users, NEW p, RowsKept(u)
  PROVE  /\ RewardRows(u, p)' = RewardRows(u, p)
         /\ \A i \in RewardRows(u, p) : ledger'[u][i] = ledger[u][i]
  BY DEF RowsKept, RewardRows

LEMMA FinishedKept ==
  ASSUME results' = results, undone' = undone
  PROVE  \A p \in Pools, u \in Users : Finished(u, p) => Finished(u, p)'
  BY DEF Finished

LEMMA JoinsGoAround ==
  ASSUME DailyTyped, PlayerJoins
  PROVE  Around /\ DailyTyped'
  <1>1. PICK r \in Requests : HandlerStep(r)
    BY DEF PlayerJoins
  <1>2. /\ TypeOK'
        /\ \A p \in Pools : Grows(p) /\ (status'[p] = status[p] \/ status'[p] = "CLOSED")
        /\ \A u \in Users : RowsKept(u)
        /\ \A p \in Pools : jackpotSlice[p] <= jackpotSlice'[p]
        /\ BooksFollow
    BY <1>1, JoinEffect DEF DailyTyped
  <1>3. /\ CountReopened
        /\ UNCHANGED <<results, undone, rank, age, contributed, jackpot, completions,
                       settler, agent, spawns, failures>>
    BY DEF PlayerJoins, play
  <1>4. reopened \in [Pools -> Nat]
    BY DEF DailyTyped
  <1>5. \A p \in Pools : Moves(p)
    BY <1>2, <1>3, <1>4 DEF CountReopened, Moves, Active
  <1>6. reopened' \in [Pools -> Nat]
    BY <1>3, <1>4 DEF CountReopened
  <1>7. Around
    BY <1>2, <1>3, <1>5, FinishedKept DEF Around
  <1>8. DailyTyped'
    BY <1>2, <1>3, <1>6 DEF DailyTyped
  <1>9. QED
    BY <1>7, <1>8

(* What is left alone by a step that writes no table of the pools.         *)
LEMMA OffTheTables ==
  ASSUME DailyTyped, UNCHANGED vars, UNCHANGED reopened
  PROVE  /\ TypeOK'
         /\ \A p \in Pools : Grows(p) /\ Moves(p) /\ jackpotSlice[p] <= jackpotSlice'[p]
         /\ \A u \in Users : RowsKept(u)
         /\ BooksFollow
         /\ UNCHANGED <<roster, ledger, status, jackpotSlice, balance>>
  <1>1. UNCHANGED <<roster, ledger, status, jackpotSlice, balance>> /\ TypeOK
    BY DEF vars, DailyTyped
  <1>2. TypeOK'
    BY <1>1, StepTypeOK
  <1>3. QED
    BY <1>1, <1>2, SameGrows, SameRows, SameBooks, SameSlices DEF Moves

LEMMA SubmissionsGoAround ==
  ASSUME DailyTyped, NEW u \in Users, NEW p \in Pools, SubmitScore(u, p) \/ SubmitOvertaken(u, p)
  PROVE  Around /\ DailyTyped'
  <1>1. /\ UNCHANGED vars
        /\ UNCHANGED <<rank, age, contributed, jackpot, completions, settler, agent, spawns,
                       failures, reopened>>
    BY DEF SubmitScore, SubmitOvertaken
  <1>2. PICK score \in Scores, done \in BOOLEAN :
          results' = [results EXCEPT ![p][u] = [score |-> score, done |-> done]]
    BY DEF SubmitScore, SubmitOvertaken
  <1>3. results \in [Pools -> [Users -> [score : Scores \cup {0}, done : BOOLEAN]]]
    BY DEF DailyTyped
  <1>4. results' \in [Pools -> [Users -> [score : Scores \cup {0}, done : BOOLEAN]]]
    BY <1>2, <1>3
  <1>5. undone \subseteq undone' /\ undone' \subseteq Pools \X Users
        /\ (~results[p][u].done \/ <<p, u>> \in undone')
    BY DEF SubmitScore, SubmitOvertaken, DailyTyped
  <1>6. \A q \in Pools, v \in Users : Finished(v, q) => Finished(v, q)'
    <2> SUFFICES ASSUME NEW q \in Pools, NEW v \in Users, Finished(v, q) PROVE Finished(v, q)'
      OBVIOUS
    <2>1. CASE q = p /\ v = u
      BY <1>5, <2>1 DEF Finished
    <2>2. CASE ~(q = p /\ v = u)
      <3>1. results'[q][v] = results[q][v]
        BY <1>2, <1>3, <2>2
      <3>2. QED
        BY <1>5, <3>1 DEF Finished
    <2>3. QED
      BY <2>1, <2>2
  <1>7. Around
    BY <1>1, <1>6, OffTheTables DEF Around
  <1>8. DailyTyped'
    BY <1>1, <1>4, <1>5, OffTheTables DEF DailyTyped
  <1>9. QED
    BY <1>7, <1>8

LEMMA TimeGoesAround ==
  ASSUME DailyTyped, NEW p \in Pools, TimePasses(p)
  PROVE  Around /\ DailyTyped'
  <1>1. /\ UNCHANGED vars
        /\ UNCHANGED <<results, undone, rank, contributed, jackpot, completions, settler, agent,
                       spawns, failures, reopened>>
        /\ age[p] # "expired"
        /\ age' = [age EXCEPT ![p] = IF @ = "fresh" THEN "stale" ELSE "expired"]
    BY DEF TimePasses, play
  <1>2. age' \in [Pools -> Ages] /\ \A q \in Pools : age[q] = "expired" => age'[q] = "expired"
    BY <1>1 DEF DailyTyped, Ages
  <1>3. Around
    BY <1>1, <1>2, OffTheTables, FinishedKept DEF Around
  <1>4. DailyTyped'
    BY <1>1, <1>2, OffTheTables DEF DailyTyped
  <1>5. QED
    BY <1>3, <1>4

(* A step of the agent or of a spawn: the status of a pool at most.        *)
LEMMA StatusGoesAround ==
  ASSUME DailyTyped, status' \in [Pools -> Statuses],
         \A p \in Pools : Moves(p), reopened' \in [Pools -> Nat],
         UNCHANGED <<seating, balance, ledger>>,
         UNCHANGED <<play, rank, age, contributed, jackpot, completions, settler, failures>>
  PROVE  /\ Around
         /\ agent'.stage \in AgentStages /\ (agent'.stage = "close" => agent'.pool \in Pools)
            /\ spawns' \in [counting : Nat, creating : Nat] => DailyTyped'
  <1>1. TypeOK'
    BY DEF DailyTyped, TypeOK, seating
  <1>2. UNCHANGED <<roster, jackpotSlice, results, undone>> /\ TypeOK
    BY DEF seating, play, DailyTyped
  <1>3. Around
    BY <1>2, SameGrows, SameRows, SameBooks, SameSlices, FinishedKept DEF Around
  <1>4. QED
    BY <1>1, <1>2, <1>3 DEF DailyTyped

LEMMA CreatingGoesAround ==
  ASSUME DailyTyped, Create, UNCHANGED reopened
  PROVE  /\ status' \in [Pools -> Statuses] /\ \A p \in Pools : Moves(p)
         /\ UNCHANGED <<seating, balance, ledger>>
  <1>1. status \in [Pools -> Statuses] /\ reopened \in [Pools -> Nat]
    BY DEF DailyTyped, TypeOK
  <1>2. \/ \E p \in Pools : status[p] = "ABSENT" /\ status' = [status EXCEPT ![p] = "OPEN"]
        \/ UNCHANGED status
    BY DEF Create, WriteStatus
  <1>3. \A p \in Pools :
          status'[p] = status[p] \/ (status[p] = "ABSENT" /\ status'[p] = "OPEN")
    <2>1. CASE UNCHANGED status
      BY <2>1
    <2>2. ASSUME NEW q \in Pools, status[q] = "ABSENT", status' = [status EXCEPT ![q] = "OPEN"]
          PROVE  \A p \in Pools :
                   status'[p] = status[p] \/ (status[p] = "ABSENT" /\ status'[p] = "OPEN")
      BY <1>1, <2>2
    <2>3. QED
      BY <1>2, <2>1, <2>2
  <1>4. \A p \in Pools : Moves(p)
    BY <1>1, <1>3 DEF Moves, Active
  <1>5. status' \in [Pools -> Statuses]
    BY <1>1, <1>2 DEF Statuses
  <1>6. QED
    BY <1>4, <1>5 DEF Create

LEMMA SpawnsGoAround ==
  ASSUME DailyTyped, SpawnCounts \/ SpawnCreates
  PROVE  Around /\ DailyTyped'
  <1>1. CASE SpawnCounts
    <2>1. /\ UNCHANGED vars
          /\ UNCHANGED <<play, rank, age, contributed, jackpot, completions, settler, agent,
                         failures, reopened>>
      BY <1>1 DEF SpawnCounts
    <2>2. spawns' \in [counting : Nat, creating : Nat]
      BY <1>1 DEF SpawnCounts, DailyTyped
    <2>3. Around
      BY <2>1, OffTheTables, FinishedKept DEF Around, play
    <2>4. DailyTyped'
      BY <2>1, <2>2, OffTheTables DEF DailyTyped, play
    <2>5. QED
      BY <2>3, <2>4
  <1>2. CASE SpawnCreates
    <2>1. /\ Create
          /\ UNCHANGED <<play, rank, age, contributed, jackpot, completions, settler, agent,
                         failures, reopened>>
      BY <1>2 DEF SpawnCreates
    <2>2. spawns' \in [counting : Nat, creating : Nat]
      <3>1. /\ spawns \in [counting : Nat, creating : Nat] /\ spawns.creating > 0
            /\ spawns' = [spawns EXCEPT !.creating = spawns.creating - 1]
        BY <1>2 DEF SpawnCreates, DailyTyped
      <3>2. spawns.creating - 1 \in Nat
        BY <3>1
      <3>3. QED
        BY <3>1, <3>2
    <2>3. reopened' \in [Pools -> Nat] /\ agent' = agent
      BY <2>1 DEF DailyTyped
    <2>4. QED
      BY <2>1, <2>2, <2>3, CreatingGoesAround, StatusGoesAround DEF DailyTyped
  <1>3. QED
    BY <1>1, <1>2

LEMMA AgentGoesAround ==
  ASSUME DailyTyped, AgentStep
  PROVE  Around /\ DailyTyped'
  <1>1. CASE AgentTick \/ AgentCounts \/ AgentFinds
    <2>1. /\ UNCHANGED vars
          /\ UNCHANGED <<play, rank, age, contributed, jackpot, completions, settler, spawns,
                         failures, reopened>>
      BY <1>1 DEF AgentTick, AgentCounts, AgentFinds, AgentRests
    <2>2. agent'.stage \in AgentStages /\ (agent'.stage = "close" => agent'.pool \in Pools)
      BY <1>1 DEF AgentTick, AgentCounts, AgentFinds, AgentGoes, AgentStages
    <2>3. Around
      BY <2>1, OffTheTables, FinishedKept DEF Around, play
    <2>4. DailyTyped'
      BY <2>1, <2>2, OffTheTables DEF DailyTyped, play
    <2>5. QED
      BY <2>3, <2>4
  <1>2. CASE AgentCreates
    <2>1. /\ Create
          /\ UNCHANGED <<play, rank, age, contributed, jackpot, completions, settler, spawns,
                         failures, reopened>>
      BY <1>2 DEF AgentCreates, AgentRests
    <2>2. agent'.stage \in AgentStages /\ agent'.stage # "close"
      BY <1>2 DEF AgentCreates, AgentGoes, AgentStages
    <2>3. reopened' \in [Pools -> Nat] /\ spawns' \in [counting : Nat, creating : Nat]
      BY <2>1 DEF DailyTyped
    <2>4. QED
      BY <2>1, <2>2, <2>3, CreatingGoesAround, StatusGoesAround
  <1>3. CASE AgentRecycles
    <2>1. /\ status' = [status EXCEPT ![agent.pool] = "CLOSED"] /\ agent.pool \in Pools
          /\ CountReopened
          /\ UNCHANGED <<seating, balance, ledger>>
          /\ UNCHANGED <<play, rank, age, contributed, jackpot, completions, settler, spawns,
                         failures>>
      BY <1>3 DEF AgentRecycles, WriteStatus, AgentRests, DailyTyped
    <2>2. agent'.stage \in AgentStages /\ agent'.stage # "close"
      BY <1>3 DEF AgentRecycles, AgentGoes, AgentStages
    <2>3. status \in [Pools -> Statuses] /\ reopened \in [Pools -> Nat]
      BY DEF DailyTyped, TypeOK
    <2>4. status' \in [Pools -> Statuses]
          /\ \A p \in Pools : status'[p] = status[p] \/ status'[p] = "CLOSED"
      BY <2>1, <2>3 DEF Statuses
    <2>5. \A p \in Pools : Moves(p)
      BY <2>1, <2>3, <2>4 DEF Moves, CountReopened, Active
    <2>6. reopened' \in [Pools -> Nat] /\ spawns' \in [counting : Nat, creating : Nat]
      BY <2>1, <2>3 DEF CountReopened, DailyTyped
    <2>7. QED
      BY <2>1, <2>2, <2>4, <2>5, <2>6, StatusGoesAround
  <1>4. QED
    BY <1>1, <1>2, <1>3 DEF AgentStep

LEMMA PlayersGoAround ==
  ASSUME DailyTyped, OnlyPlayers
  PROVE  Around /\ DailyTyped'
  BY JoinsGoAround, SubmissionsGoAround, TimeGoesAround, SpawnsGoAround, AgentGoesAround DEF OnlyPlayers

(* A list that fits keeps fitting while the roster grows behind it.        *)
LEMMA FitStays ==
  ASSUME NEW p \in Pools, NEW list \in Seq(Standing), ListFits(list, p),
         Len(roster[p]) \in Nat, Len(roster'[p]) \in Nat, Grows(p),
         age[p] = "expired" => age'[p] = "expired",
         \A u \in Users : Finished(u, p) => Finished(u, p)'
  PROVE  ListFits(list, p)'
  <1>1. /\ Len(list) \in Nat
        /\ \A k \in 1 .. Len(list) : list[k].user \in Users
    <2>1. \A k \in 1 .. Len(list) : list[k] \in Standing
      OBVIOUS
    <2>2. \A x \in Standing : x.user \in Users
      BY DEF Standing
    <2>3. QED
      BY <2>1, <2>2
  <1>2. Len(list) <= Len(roster[p]) /\ Len(roster[p]) <= Len(roster'[p])
    BY DEF ListFits, Grows
  <1>3. \A i \in 1 .. Len(list) : roster'[p][i] = roster[p][i]
    <2> SUFFICES ASSUME NEW i \in 1 .. Len(list)
                 PROVE  roster'[p][i] = roster[p][i]
      OBVIOUS
    <2>1. i \in 1 .. Len(roster[p])
      BY <1>1, <1>2
    <2>2. QED
      BY <2>1 DEF Grows
  <1>4. /\ \A k \in 1 .. Len(list) : \E i \in 1 .. Len(list) : roster'[p][i] = list[k].user
        /\ \A i \in 1 .. Len(list) : \E k \in 1 .. Len(list) : list[k].user = roster'[p][i]
    BY <1>3 DEF ListFits
  <1>5. \A k \in 1 .. Len(list) : list[k].done => Finished(list[k].user, p)'
    BY <1>1 DEF ListFits
  <1>6. Len(list) <= Len(roster'[p])
    BY <1>1, <1>2
  <1>7. QED
    BY <1>4, <1>5, <1>6 DEF ListFits, AllDone

LEMMA AroundKeepsLists ==
  ASSUME DailyInv, Around, DailyTyped'
  PROVE  ListsFit' /\ SeatsInv'
  <1>1. /\ settler' = settler /\ rank' = rank
        /\ \A p \in Pools : Grows(p) /\ (age[p] = "expired" => age'[p] = "expired")
        /\ \A u \in Users : RowsKept(u)
        /\ \A p \in Pools, u \in Users : Finished(u, p) => Finished(u, p)'
    BY DEF Around
  <1>2. \A p \in Pools : Len(roster[p]) \in Nat /\ Len(roster'[p]) \in Nat
                         /\ DOMAIN roster[p] = 1 .. Len(roster[p])
                         /\ DOMAIN roster'[p] = 1 .. Len(roster'[p])
    <2>1. TypeOK /\ TypeOK'
      BY DEF DailyInv, DailyTyped
    <2>2. ASSUME NEW p \in Pools
          PROVE  /\ Len(roster[p]) \in Nat /\ Len(roster'[p]) \in Nat
                 /\ DOMAIN roster[p] = 1 .. Len(roster[p])
                 /\ DOMAIN roster'[p] = 1 .. Len(roster'[p])
      <3>1. roster[p] \in Seq(Users) /\ roster'[p] \in Seq(Users)
        BY <2>1 DEF TypeOK
      <3>2. QED
        BY <3>1
    <2>3. QED
      BY <2>2
  <1>3. ASSUME NEW s \in Settlers, settler[s].stage \in PayStages
        PROVE  ListFits(settler[s].list, settler[s].pool)'
    <2>1. settler[s].pool \in Pools /\ settler[s].list \in Seq(Standing)
      <3>1. WorkTyped(settler[s]) /\ settler[s].stage # "idle"
        BY <1>3 DEF DailyInv, DailyTyped, PayStages
      <3>2. QED
        BY <1>3, <3>1 DEF WorkTyped
    <2>2. ListFits(settler[s].list, settler[s].pool)
      BY <1>3 DEF DailyInv, ListsFit
    <2>3. QED
      BY <1>1, <1>2, <2>1, <2>2, FitStays
  <1>4. ListsFit'
    BY <1>1, <1>3 DEF ListsFit
  <1>5. \A p \in Pools : Seated(p) \subseteq Seated(p)'
    BY <1>1, <1>2 DEF Seated, Range, Grows
  <1>6. SeatsInv'
    <2>1. \A p \in Pools : IsInjective(roster'[p])
      BY <1>1 DEF DailyInv, SeatsInv, Grows
    <2>2. \A p \in Pools, u \in Users : rank'[p][u] > 0 => u \in Seated(p)'
      BY <1>1, <1>5 DEF DailyInv, SeatsInv
    <2>3. \A p \in Pools, u \in Users : RewardRows(u, p)' # {} =>
             u \in Seated(p)' /\ (Finished(u, p)' \/ age'[p] = "expired")
      BY <1>1, <1>5, RewardRowsKept DEF DailyInv, SeatsInv
    <2>4. QED
      BY <2>1, <2>2, <2>3 DEF SeatsInv
  <1>7. QED
    BY <1>4, <1>6

-----------------------------------------------------------------------------
(* The standings are the players of the roster, each at one place.         *)
Place(p, i) == 1 + Cardinality({j \in 1 .. Len(roster[p]) : Beats(p, j, i)})
Holder(p, k) == CHOOSE i \in 1 .. Len(roster[p]) : Place(p, i) = k
ScoreAt(p, i) == results[p][roster[p][i]].score

LEMMA BeatsIsOrder ==
  ASSUME DailyTyped, Scores \subseteq Nat, NEW p \in Pools
  PROVE  /\ \A i, j \in 1 .. Len(roster[p]) :
              Beats(p, i, j) <=> (ScoreAt(p, i) > ScoreAt(p, j)
                                    \/ (ScoreAt(p, i) = ScoreAt(p, j) /\ i < j))
         /\ \A i \in 1 .. Len(roster[p]) : ScoreAt(p, i) \in Nat /\ roster[p][i] \in Users
         /\ Len(roster[p]) \in Nat
  <1>1. roster[p] \in Seq(Users) /\ results[p] \in [Users -> [score : Scores \cup {0}, done : BOOLEAN]]
    BY DEF DailyTyped, TypeOK
  <1>2. Len(roster[p]) \in Nat /\ \A i \in 1 .. Len(roster[p]) : roster[p][i] \in Users
    BY <1>1
  <1>3. \A i \in 1 .. Len(roster[p]) : ScoreAt(p, i) \in Nat
    <2>1. \A u \in Users : results[p][u].score \in Scores \cup {0}
      BY <1>1
    <2>2. \A x \in Scores \cup {0} : x \in Nat
      OBVIOUS
    <2>3. QED
      BY <1>2, <2>1, <2>2 DEF ScoreAt
  <1>4. QED
    BY <1>2, <1>3 DEF Beats, ScoreAt

LEMMA PlacesDiffer ==
  ASSUME DailyTyped, Scores \subseteq Nat, NEW p \in Pools,
         NEW i \in 1 .. Len(roster[p]), NEW j \in 1 .. Len(roster[p]), Beats(p, i, j)
  PROVE  Place(p, i) < Place(p, j)
  <1> DEFINE n == Len(roster[p])
             A == {k \in 1 .. n : Beats(p, k, i)}
             B == {k \in 1 .. n : Beats(p, k, j)}
  <1>1. \A k, l \in 1 .. n : Beats(p, k, l) <=>
          (ScoreAt(p, k) > ScoreAt(p, l) \/ (ScoreAt(p, k) = ScoreAt(p, l) /\ k < l))
    BY BeatsIsOrder
  <1>2. n \in Nat /\ \A k \in 1 .. n : ScoreAt(p, k) \in Nat
    BY BeatsIsOrder
  <1> HIDE DEF n
  <1>3. A \in SUBSET B /\ i \in B /\ i \notin A /\ B \in SUBSET (1 .. n)
    <2>1. i \in 1 .. n /\ j \in 1 .. n
      BY DEF n
    <2>2. \A k \in 1 .. n : Beats(p, k, i) => Beats(p, k, j)
      BY <1>1, <1>2, <2>1
    <2>3. ~Beats(p, i, i)
      BY <1>1, <1>2, <2>1
    <2>4. QED
      BY <2>1, <2>2, <2>3
  <1>4. IsFiniteSet(1 .. n)
    BY <1>2, FS_Interval
  <1>5. IsFiniteSet(B)
    BY <1>3, <1>4, FS_Subset
  <1>6. IsFiniteSet(A) /\ Cardinality(A) <= Cardinality(B) /\ Cardinality(A) # Cardinality(B)
    BY <1>3, <1>5, FS_Subset
  <1>7. Cardinality(A) \in Nat /\ Cardinality(B) \in Nat
    BY <1>5, <1>6, FS_CardinalityType
  <1>8. Place(p, i) = 1 + Cardinality(A) /\ Place(p, j) = 1 + Cardinality(B)
    BY DEF Place, n
  <1>9. QED
    BY <1>6, <1>7, <1>8

LEMMA IntervalSize ==
  ASSUME NEW n \in Nat
  PROVE  IsFiniteSet(1 .. n) /\ Cardinality(1 .. n) = n
  <1>1. IsFiniteSet(1 .. n) /\ Cardinality(1 .. n) = IF 1 > n THEN 0 ELSE n - 1 + 1
    BY FS_Interval
  <1>2. CASE n = 0
    BY <1>1, <1>2
  <1>3. CASE n # 0
    BY <1>1, <1>3
  <1>4. QED
    BY <1>2, <1>3

LEMMA PlacesFit ==
  ASSUME DailyTyped, Scores \subseteq Nat, NEW p \in Pools, NEW i \in 1 .. Len(roster[p])
  PROVE  Place(p, i) \in 1 .. Len(roster[p])
  <1> DEFINE n == Len(roster[p])
             A == {k \in 1 .. n : Beats(p, k, i)}
  <1>1. n \in Nat /\ ScoreAt(p, i) \in Nat /\ ~Beats(p, i, i)
    BY BeatsIsOrder
  <1>i. i \in 1 .. n
    OBVIOUS
  <1> HIDE DEF n
  <1>2. IsFiniteSet(1 .. n) /\ Cardinality(1 .. n) = n
    BY <1>1, IntervalSize
  <1>3. A \in SUBSET (1 .. n) /\ A # 1 .. n
    BY <1>1, <1>i
  <1> HIDE DEF A
  <1>4. IsFiniteSet(A) /\ Cardinality(A) <= Cardinality(1 .. n) /\ Cardinality(A) # Cardinality(1 .. n)
    BY <1>2, <1>3, FS_Subset
  <1>5. Cardinality(A) \in Nat
    BY <1>4, FS_CardinalityType
  <1>6. Place(p, i) = 1 + Cardinality(A)
    BY DEF Place, n, A
  <1>7. QED
    BY <1>1, <1>2, <1>4, <1>5, <1>6 DEF n

(* Each place has its holder, and who holds it is at that place.           *)
LEMMA PlacesAreHeld ==
  ASSUME DailyTyped, Scores \subseteq Nat, NEW p \in Pools
  PROVE  /\ \A i \in 1 .. Len(roster[p]) : Holder(p, Place(p, i)) = i
         /\ \A k \in 1 .. Len(roster[p]) :
              Holder(p, k) \in 1 .. Len(roster[p]) /\ Place(p, Holder(p, k)) = k
  <1> DEFINE n == Len(roster[p])
             place == [i \in 1 .. n |-> Place(p, i)]
  <1>1. n \in Nat
    BY BeatsIsOrder
  <1>2. place \in [1 .. n -> 1 .. n]
    BY PlacesFit
  <1>3. \A i, j \in 1 .. n : place[i] = place[j] => i = j
    <2> SUFFICES ASSUME NEW i \in 1 .. n, NEW j \in 1 .. n, i # j
                 PROVE  place[i] # place[j]
      OBVIOUS
    <2>1. Beats(p, i, j) \/ Beats(p, j, i)
      <3>1. ScoreAt(p, i) \in Nat /\ ScoreAt(p, j) \in Nat
        BY BeatsIsOrder
      <3>2. i \in Nat /\ j \in Nat
        BY <1>1
      <3>3. QED
        BY <3>1, <3>2, BeatsIsOrder
    <2>2. Place(p, i) \in Nat /\ Place(p, j) \in Nat
      BY <1>1, <1>2
    <2>3. Place(p, i) < Place(p, j) \/ Place(p, j) < Place(p, i)
      BY <2>1, PlacesDiffer
    <2>4. QED
      BY <2>2, <2>3
  <1>4. IsFiniteSet(1 .. n) /\ Cardinality(1 .. n) = n
    BY <1>1, IntervalSize
  <1>5. place \in Injection(1 .. n, 1 .. n)
    BY <1>2, <1>3 DEF Injection, IsInjective
  <1>6. place \in Surjection(1 .. n, 1 .. n)
    BY <1>4, <1>5, FS_Injection
  <1>7. ASSUME NEW k \in 1 .. n
        PROVE  Holder(p, k) \in 1 .. n /\ Place(p, Holder(p, k)) = k
    <2>1. \E i \in 1 .. n : Place(p, i) = k
      BY <1>6 DEF Surjection
    <2>2. QED
      BY <2>1, Zenon DEF Holder
  <1>8. ASSUME NEW i \in 1 .. n
        PROVE  Holder(p, Place(p, i)) = i
    <2>1. Place(p, i) \in 1 .. n
      BY <1>2
    <2>2. Holder(p, Place(p, i)) \in 1 .. n /\ Place(p, Holder(p, Place(p, i))) = Place(p, i)
      BY <1>7, <2>1
    <2>3. QED
      BY <1>3, <2>2
  <1>9. QED
    BY <1>7, <1>8

LEMMA RewardIsNatural == ASSUME NEW k \in Nat PROVE ComputeDailyReward(k) \in Nat
  BY DEF ComputeDailyReward, DailyRewardTable

LEMMA PlayersFit ==
  ASSUME DailyTyped, NEW p \in Pools, IsInjective(roster[p])
  PROVE  Len(roster[p]) <= Cardinality(Users) /\ Len(roster[p]) \in Nat /\ Cardinality(Users) \in Nat
  <1>1. roster[p] \in Seq(Users)
    BY DEF DailyTyped, TypeOK
  <1>2. Len(roster[p]) \in Nat /\ roster[p] \in [1 .. Len(roster[p]) -> Users]
    BY <1>1
  <1>3. roster[p] \in Injection(1 .. Len(roster[p]), Users)
    BY <1>2 DEF Injection
  <1>4. Cardinality(1 .. Len(roster[p])) <= Cardinality(Users)
    BY <1>3, FiniteTables, FS_Injection
  <1>5. Cardinality(1 .. Len(roster[p])) = Len(roster[p])
    BY <1>2, IntervalSize
  <1>6. QED
    BY <1>2, <1>4, <1>5, FiniteTables, FS_CardinalityType

(* What a settlement reads: the roster in the order of the places.         *)
LEMMA StandingsFit ==
  ASSUME DailyTyped, NEW p \in Pools, IsInjective(roster[p])
  PROVE  /\ Standings(p) \in Seq(Standing)
         /\ Len(Standings(p)) = Len(roster[p])
         /\ \A k \in 1 .. Len(roster[p]) : \E i \in 1 .. Len(roster[p]) :
              roster[p][i] = Standings(p)[k].user
         /\ \A i \in 1 .. Len(roster[p]) : \E k \in 1 .. Len(roster[p]) :
              Standings(p)[k].user = roster[p][i]
         /\ \A j, k \in 1 .. Len(roster[p]) : Standings(p)[j].user = Standings(p)[k].user => j = k
         /\ \A k \in 1 .. Len(roster[p]) : Standings(p)[k].done => Finished(Standings(p)[k].user, p)
  <1> DEFINE n == Len(roster[p])
             At(k) == roster[p][Holder(p, k)]
             list == [k \in 1 .. n |-> [user |-> At(k), done |-> results[p][At(k)].done]]
  <1>1. Standings(p) = list
    BY DEF Standings, Holder, Place
  <1>2. n \in Nat /\ roster[p] \in [1 .. n -> Users]
    <2>1. roster[p] \in Seq(Users)
      BY DEF DailyTyped, TypeOK
    <2>2. QED
      BY <2>1
  <1>3. /\ \A i \in 1 .. n : Place(p, i) \in 1 .. n /\ Holder(p, Place(p, i)) = i
        /\ \A k \in 1 .. n : Holder(p, k) \in 1 .. n /\ Place(p, Holder(p, k)) = k
    <2>1. Scores \subseteq Nat
      BY DailyConstants
    <2>2. QED
      BY <2>1, PlacesFit, PlacesAreHeld
  <1> HIDE DEF n
  <1>4. \A k \in 1 .. n : At(k) \in Users
    BY <1>2, <1>3
  <1>5. \A u \in Users : results[p][u].done \in BOOLEAN
    BY DEF DailyTyped
  <1>6. \A k \in 1 .. n : [user |-> At(k), done |-> results[p][At(k)].done] \in Standing
    BY <1>4, <1>5 DEF Standing
  <1>7. list \in Seq(Standing) /\ Len(list) = n
    BY <1>2, <1>6
  <1>8. \A k \in 1 .. n : list[k].user = At(k) /\ list[k].done = results[p][At(k)].done
    OBVIOUS
  <1> HIDE DEF At, list
  <1>9. \A j, k \in 1 .. n : At(j) = At(k) => j = k
    <2> SUFFICES ASSUME NEW j \in 1 .. n, NEW k \in 1 .. n, At(j) = At(k)
                 PROVE  j = k
      OBVIOUS
    <2>1. Holder(p, j) = Holder(p, k)
      BY <1>2, <1>3 DEF IsInjective, At
    <2>2. QED
      BY <1>3, <2>1
  <1>10. \A k \in 1 .. n : \E i \in 1 .. n : roster[p][i] = At(k)
    BY <1>3 DEF At
  <1>11. \A i \in 1 .. n : \E k \in 1 .. n : At(k) = roster[p][i]
    BY <1>3 DEF At
  <1>12. \A k \in 1 .. n : list[k].done => Finished(list[k].user, p)
    BY <1>8 DEF Finished
  <1>13. \A k \in 1 .. n : \E i \in 1 .. n : roster[p][i] = list[k].user
    BY <1>8, <1>10
  <1>14. \A i \in 1 .. n : \E k \in 1 .. n : list[k].user = roster[p][i]
    BY <1>8, <1>11
  <1>15. \A j, k \in 1 .. n : list[j].user = list[k].user => j = k
    BY <1>8, <1>9
  <1>16. QED
    BY <1>1, <1>7, <1>12, <1>13, <1>14, <1>15, Zenon DEF n

-----------------------------------------------------------------------------
(* The steps of a settlement.                                              *)
Rosters == <<roster, age, results, undone>>

LEMMA SameFits ==
  ASSUME UNCHANGED Rosters, NEW p, NEW list, ListFits(list, p)
  PROVE  ListFits(list, p)'
  BY DEF Rosters, ListFits, Finished, AllDone

LEMMA SettlerMoves ==
  ASSUME DailyTyped, NEW s \in Settlers, NEW next, SettlerGoes(s, next)
  PROVE  /\ settler' = [t \in Settlers |-> settler'[t]]
         /\ settler'[s] = next
         /\ \A t \in Settlers : t # s => settler'[t] = settler[t]
  <1>1. settler = [t \in Settlers |-> settler[t]]
    BY DEF DailyTyped
  <1>2. settler' = [settler EXCEPT ![s] = next]
    BY DEF SettlerGoes
  <1>3. QED
    BY <1>1, <1>2, Zenon

LEMMA SettlerKeeps ==
  ASSUME DailyInv, NEW s \in Settlers, NEW next, SettlerGoes(s, next), UNCHANGED Rosters,
         WorkTyped(next), next.stage \in PayStages => ListFits(next.list, next.pool)
  PROVE  /\ settler' = [t \in Settlers |-> settler'[t]]
         /\ \A t \in Settlers : WorkTyped(settler'[t])
         /\ ListsFit'
  <1>1. /\ settler' = [t \in Settlers |-> settler'[t]]
        /\ settler'[s] = next
        /\ \A t \in Settlers : t # s => settler'[t] = settler[t]
    BY SettlerMoves DEF DailyInv
  <1>2. \A t \in Settlers : WorkTyped(settler[t])
    BY DEF DailyInv, DailyTyped
  <1>3. \A t \in Settlers : settler'[t].stage \in PayStages =>
          ListFits(settler'[t].list, settler'[t].pool)
    BY <1>1 DEF DailyInv, ListsFit
  <1>4. ListsFit'
    BY <1>3, SameFits DEF ListsFit
  <1>5. QED
    BY <1>1, <1>2, <1>4

(* Whom a turn of the loop is about.                                       *)
LEMMA TurnFacts ==
  ASSUME DailyInv, NEW s \in Settlers, settler[s].stage \in PayStages
  PROVE  /\ settler[s].pool \in Pools
         /\ settler[s].list \in Seq(Standing)
         /\ settler[s].next \in 1 .. Len(settler[s].list)
         /\ Len(settler[s].list) \in Nat /\ settler[s].next \in Nat
         /\ Winner(s) \in Standing /\ Winner(s).user \in Users
         /\ Reward(s) \in Nat
         /\ settler[s].next \in 1 .. Cardinality(Users)
         /\ ListFits(settler[s].list, settler[s].pool)
         /\ Winner(s).user \in Seated(settler[s].pool)
         /\ Finished(Winner(s).user, settler[s].pool) \/ age[settler[s].pool] = "expired"
         /\ Winner(s).done => Finished(Winner(s).user, settler[s].pool)
         /\ {"stage", "pool", "list", "next"} \subseteq DOMAIN settler[s]
  <1>1. WorkTyped(settler[s]) /\ settler[s].stage # "idle" /\ DailyTyped
    BY DEF DailyInv, DailyTyped, PayStages
  <1>2. /\ settler[s].pool \in Pools
        /\ settler[s].list \in Seq(Standing)
        /\ settler[s].next \in 1 .. Len(settler[s].list)
        /\ {"stage", "pool", "list", "next"} \subseteq DOMAIN settler[s]
    BY <1>1 DEF WorkTyped
  <1>3. Len(settler[s].list) \in Nat /\ settler[s].next \in Nat
    BY <1>2
  <1>4. Winner(s) \in Standing
    BY <1>2 DEF Winner
  <1>5. Winner(s).user \in Users
    BY <1>4 DEF Standing
  <1>6. Reward(s) \in Nat
    BY <1>3, RewardIsNatural DEF Reward
  <1>7. ListFits(settler[s].list, settler[s].pool)
    BY DEF DailyInv, ListsFit
  <1>8. /\ Len(roster[settler[s].pool]) <= Cardinality(Users)
        /\ Len(roster[settler[s].pool]) \in Nat /\ Cardinality(Users) \in Nat
    BY <1>1, <1>2, PlayersFit DEF DailyInv, SeatsInv
  <1>9. Len(settler[s].list) <= Len(roster[settler[s].pool])
    BY <1>7 DEF ListFits
  <1>10. settler[s].next \in 1 .. Cardinality(Users)
    BY <1>2, <1>3, <1>8, <1>9
  <1>11. PICK i \in 1 .. Len(settler[s].list) : roster[settler[s].pool][i] = Winner(s).user
    BY <1>2, <1>7 DEF ListFits, Winner
  <1>12. i \in DOMAIN roster[settler[s].pool]
    <2>1. DOMAIN roster[settler[s].pool] = 1 .. Len(roster[settler[s].pool])
      BY <1>1, <1>2 DEF DailyTyped, TypeOK
    <2>2. QED
      BY <2>1, <1>3, <1>8, <1>9
  <1>13. Winner(s).user \in Seated(settler[s].pool)
    BY <1>11, <1>12 DEF Seated, Range
  <1>14. Winner(s).done => Finished(Winner(s).user, settler[s].pool)
    BY <1>2, <1>7 DEF ListFits, Winner
  <1>15. Winner(s).done \/ age[settler[s].pool] = "expired"
    <2>1. AllDone(settler[s].list) \/ age[settler[s].pool] = "expired"
      BY <1>7 DEF ListFits
    <2>2. settler[s].next \in DOMAIN settler[s].list
      BY <1>2
    <2>3. QED
      BY <2>1, <2>2 DEF AllDone, Winner
  <1>16. QED
    BY <1>2, <1>3, <1>4, <1>5, <1>6, <1>7, <1>10, <1>13, <1>14, <1>15

(* The end of a turn.                                                      *)
Onward(me) ==
  IF me.next = Len(me.list)
    THEN [stage |-> "mark", pool |-> me.pool]
    ELSE [stage |-> "rank", pool |-> me.pool, list |-> me.list, next |-> me.next + 1]

LEMMA OnwardFits ==
  ASSUME DailyInv, NEW s \in Settlers, settler[s].stage \in PayStages
  PROVE  /\ WorkTyped(Onward(settler[s]))
         /\ Onward(settler[s]).stage \in PayStages =>
              ListFits(Onward(settler[s]).list, Onward(settler[s]).pool)
  <1> DEFINE me == settler[s]
  <1>1. /\ me.pool \in Pools /\ me.list \in Seq(Standing) /\ me.next \in 1 .. Len(me.list)
        /\ Len(me.list) \in Nat /\ me.next \in Nat /\ ListFits(me.list, me.pool)
    BY TurnFacts
  <1> HIDE DEF me
  <1>2. CASE me.next = Len(me.list)
    <2>1. Onward(me) = [stage |-> "mark", pool |-> me.pool]
      BY <1>2 DEF Onward
    <2>2. QED
      BY <1>1, <2>1 DEF WorkTyped, SettlerStages, PayStages, me
  <1>3. CASE me.next # Len(me.list)
    <2>1. Onward(me) = [stage |-> "rank", pool |-> me.pool, list |-> me.list, next |-> me.next + 1]
      BY <1>3 DEF Onward
    <2>2. me.next + 1 \in 1 .. Len(me.list)
      BY <1>1, <1>3
    <2>3. QED
      BY <1>1, <2>1, <2>2 DEF WorkTyped, SettlerStages, PayStages, me
  <1>4. QED
    BY <1>2, <1>3

LEMMA NextWinnerIsOnward == ASSUME NEW s, NextWinner(s) PROVE SettlerGoes(s, Onward(settler[s]))
  BY DEF NextWinner, Onward

(* The row of a reward.                                                    *)
LEMMA RewardEffect ==
  ASSUME TypeOK, NEW u \in Users, NEW p \in Pools, NEW row \in Entries,
         row.type = "REWARD", row.pool = p,
         ledger' = [ledger EXCEPT ![u] = Append(ledger[u], row)]
  PROVE  /\ ledger' \in [Users -> Seq(Entries)]
         /\ Len(ledger[u]) \in Nat /\ DOMAIN ledger[u] = 1 .. Len(ledger[u])
         /\ ledger'[u] = Append(ledger[u], row)
         /\ ledger'[u][Len(ledger[u]) + 1] = row
         /\ \A i \in DOMAIN ledger[u] : ledger'[u][i] = ledger[u][i]
         /\ \A v \in Users : v # u => ledger'[v] = ledger[v]
         /\ DOMAIN ledger'[u] = DOMAIN ledger[u] \cup {Len(ledger[u]) + 1}
         /\ RewardRows(u, p)' = RewardRows(u, p) \cup {Len(ledger[u]) + 1}
  <1>1. ledger \in [Users -> Seq(Entries)] /\ ledger[u] \in Seq(Entries)
    BY DEF TypeOK
  <1>2. /\ Append(ledger[u], row) \in Seq(Entries)
        /\ DOMAIN ledger[u] = 1 .. Len(ledger[u])
        /\ DOMAIN Append(ledger[u], row) = 1 .. Len(ledger[u]) + 1
        /\ \A i \in 1 .. Len(ledger[u]) : Append(ledger[u], row)[i] = ledger[u][i]
        /\ Append(ledger[u], row)[Len(ledger[u]) + 1] = row
    BY <1>1, AppendFacts
  <1>3. /\ ledger'[u] = Append(ledger[u], row)
        /\ \A v \in Users : v # u => ledger'[v] = ledger[v]
        /\ ledger' \in [Users -> Seq(Entries)]
    BY <1>1, <1>2
  <1>4. Len(ledger[u]) \in Nat
    BY <1>1
  <1>5. /\ DOMAIN ledger'[u] = DOMAIN ledger[u] \cup {Len(ledger[u]) + 1}
        /\ ledger'[u][Len(ledger[u]) + 1] = row
        /\ \A i \in DOMAIN ledger[u] : ledger'[u][i] = ledger[u][i]
    BY <1>2, <1>3, <1>4
  <1>6. RewardRows(u, p)' = RewardRows(u, p) \cup {Len(ledger[u]) + 1}
    BY <1>5 DEF RewardRows
  <1>7. QED
    BY <1>2, <1>3, <1>4, <1>5, <1>6

LEMMA SettlerStepKeeps ==
  ASSUME DailyInv, NEW s \in Settlers, NEW next, SettlerGoes(s, next), WorkTyped(next),
         next.stage \in PayStages => ListFits(next.list, next.pool),
         UNCHANGED Rosters, UNCHANGED <<agent, failures, reopened>>, TypeOK',
         rank' \in [Pools -> [Users -> 0 .. Cardinality(Users)]],
         contributed' \in [Pools -> BOOLEAN], jackpot' \in Nat, completions' \in [Users -> Nat],
         spawns' \in [counting : Nat, creating : Nat],
         \A p \in Pools, u \in Users : rank'[p][u] > 0 => rank[p][u] > 0 \/ u \in Seated(p),
         \A p \in Pools, u \in Users : RewardRows(u, p)' # {} =>
           RewardRows(u, p) # {} \/ (u \in Seated(p) /\ (Finished(u, p) \/ age[p] = "expired"))
  PROVE  DailyInv'
  <1>1. /\ settler' = [t \in Settlers |-> settler'[t]]
        /\ \A t \in Settlers : WorkTyped(settler'[t])
        /\ ListsFit'
    BY SettlerKeeps
  <1>2. UNCHANGED <<roster, age, results, undone>>
    BY DEF Rosters
  <1>3. DailyTyped'
    BY <1>1, <1>2 DEF DailyInv, DailyTyped
  <1>4. SeatsInv'
    BY <1>2 DEF DailyInv, SeatsInv, Seated, Finished
  <1>5. QED
    BY <1>1, <1>3, <1>4 DEF DailyInv

(* What a step leaves alone that writes none of what the players see.      *)
LEMMA TablesKept ==
  ASSUME DailyInv, UNCHANGED vars, UNCHANGED GameRests
  PROVE  /\ UNCHANGED Rosters /\ UNCHANGED <<agent, failures, reopened>> /\ TypeOK'
         /\ \A p \in Pools, u \in Users : RewardRows(u, p)' = RewardRows(u, p)
         /\ UNCHANGED <<ledger, status, balance, jackpotSlice>>
  <1>1. UNCHANGED <<roster, ledger, status, jackpotSlice, balance>> /\ TypeOK
    BY DEF vars, DailyInv, DailyTyped
  <1>2. TypeOK'
    BY <1>1, StepTypeOK
  <1>3. QED
    BY <1>1, <1>2 DEF GameRests, play, Rosters, RewardRows

LEMMA StatusKeepsTables ==
  ASSUME DailyInv, NEW p \in Pools, status' = [status EXCEPT ![p] = "SETTLED"],
         UNCHANGED <<seating, balance, ledger>>, UNCHANGED GameRests
  PROVE  /\ UNCHANGED Rosters /\ UNCHANGED <<agent, failures, reopened>> /\ TypeOK'
         /\ \A q \in Pools, u \in Users : RewardRows(u, q)' = RewardRows(u, q)
         /\ UNCHANGED <<ledger, balance, jackpotSlice>>
         /\ status'[p] = "SETTLED" /\ \A q \in Pools : q # p => status'[q] = status[q]
  <1>1. status \in [Pools -> Statuses]
    BY DEF DailyInv, DailyTyped, TypeOK
  <1>2. status' \in [Pools -> Statuses] /\ status'[p] = "SETTLED"
        /\ \A q \in Pools : q # p => status'[q] = status[q]
    BY <1>1 DEF Statuses
  <1>3. TypeOK'
    BY <1>2 DEF DailyInv, DailyTyped, TypeOK, seating
  <1>4. QED
    BY <1>2, <1>3 DEF seating, GameRests, play, Rosters, RewardRows

SettlerTables == /\ rank \in [Pools -> [Users -> 0 .. Cardinality(Users)]]
                 /\ contributed \in [Pools -> BOOLEAN] /\ jackpot \in Nat
                 /\ completions \in [Users -> Nat] /\ spawns \in [counting : Nat, creating : Nat]

LEMMA SettlerTablesTyped == DailyInv => SettlerTables
  BY DEF DailyInv, DailyTyped, SettlerTables

LEMMA SpawnAdds ==
  ASSUME DailyInv, spawns' = [spawns EXCEPT !.counting = @ + 1]
  PROVE  spawns' \in [counting : Nat, creating : Nat]
  <1>1. spawns \in [counting : Nat, creating : Nat]
    BY DEF DailyInv, DailyTyped
  <1>2. spawns.counting + 1 \in Nat
    BY <1>1
  <1>3. QED
    BY <1>1, <1>2

LEMMA RestingIsTyped == WorkTyped(Resting) /\ Resting.stage = "idle"
  BY DEF WorkTyped, Resting, SettlerStages, PayStages

LEMMA StartKeeps ==
  ASSUME DailyInv, NEW s \in Settlers, NEW p \in Pools, StartSettle(s, p)
  PROVE  DailyInv'
  <1> DEFINE next == [stage |-> "read", pool |-> p, joinable |-> status[p] \in Joinable,
                      full |-> status[p] = "CLOSED" \/ playerCount[p] >= MaxPlayers[p]]
  <1>1. SettlerGoes(s, next) /\ UNCHANGED <<vars, SettlerRests, GameRests, spawns>>
    BY DEF StartSettle
  <1>2. next.stage = "read" /\ next.pool = p
    OBVIOUS
  <1> HIDE DEF next
  <1>3. WorkTyped(next) /\ next.stage \notin PayStages
    BY <1>2 DEF WorkTyped, SettlerStages, PayStages
  <1>4. SettlerTables /\ SettlerTables' /\ rank' = rank
    BY <1>1, SettlerTablesTyped DEF SettlerRests, SettlerTables
  <1>5. QED
    BY <1>1, <1>3, <1>4, TablesKept, SettlerStepKeeps DEF SettlerTables

ReadNext(me, p, list) ==
  IF list = <<>>
    THEN IF me.joinable THEN Resting ELSE [stage |-> "empty", pool |-> p]
    ELSE IF Due(me.full, list, age[p] = "expired")
      THEN [stage |-> "rank", pool |-> p, list |-> list, next |-> 1]
      ELSE Resting

LEMMA ReadKeeps ==
  ASSUME DailyInv, NEW s \in Settlers, ReadParticipants(s)
  PROVE  DailyInv'
  <1> DEFINE p == settler[s].pool
             list == Standings(p)
             next == ReadNext(settler[s], p, list)
  <1>1. /\ SettlerGoes(s, next) /\ UNCHANGED <<vars, SettlerRests, GameRests, spawns>>
        /\ settler[s].stage = "read"
    BY DEF ReadParticipants, ReadNext
  <1>2. p \in Pools /\ IsInjective(roster[p]) /\ DailyTyped
    BY <1>1 DEF DailyInv, DailyTyped, WorkTyped, SeatsInv
  <1> HIDE DEF p
  <1>3. /\ list \in Seq(Standing)
        /\ Len(list) = Len(roster[p])
        /\ \A k \in 1 .. Len(roster[p]) : \E i \in 1 .. Len(roster[p]) : roster[p][i] = list[k].user
        /\ \A i \in 1 .. Len(roster[p]) : \E k \in 1 .. Len(roster[p]) : list[k].user = roster[p][i]
        /\ \A j, k \in 1 .. Len(roster[p]) : list[j].user = list[k].user => j = k
        /\ \A k \in 1 .. Len(roster[p]) : list[k].done => Finished(list[k].user, p)
    BY <1>2, StandingsFit, Zenon
  <1> HIDE DEF list
  <1>4. WorkTyped(next) /\ (next.stage \in PayStages => ListFits(next.list, next.pool))
    <2>1. CASE next = Resting
      BY <2>1, RestingIsTyped DEF PayStages
    <2>2. CASE next = [stage |-> "empty", pool |-> p]
      BY <1>2, <2>2 DEF WorkTyped, SettlerStages, PayStages
    <2>3. CASE /\ next = [stage |-> "rank", pool |-> p, list |-> list, next |-> 1]
               /\ list # <<>> /\ Due(settler[s].full, list, age[p] = "expired")
      <3>1. 1 \in 1 .. Len(list)
        BY <1>3, <2>3, SMT
      <3>2. AllDone(list) \/ age[p] = "expired"
        BY <2>3 DEF Due
      <3>3. ListFits(list, p)
        BY <1>3, <3>2 DEF ListFits
      <3>4. /\ next.stage = "rank" /\ next.pool = p /\ next.list = list /\ next.next = 1
            /\ DOMAIN next = {"stage", "pool", "list", "next"}
        BY <2>3
      <3>5. WorkTyped(next)
        BY <1>2, <1>3, <3>1, <3>4 DEF WorkTyped, SettlerStages, PayStages
      <3>6. QED
        BY <3>3, <3>4, <3>5
    <2>4. QED
      BY <2>1, <2>2, <2>3 DEF ReadNext
  <1>5. SettlerTables /\ SettlerTables' /\ rank' = rank
    BY <1>1, SettlerTablesTyped DEF SettlerRests, SettlerTables
  <1> HIDE DEF next
  <1>6. QED
    BY <1>1, <1>4, <1>5, TablesKept, SettlerStepKeeps DEF SettlerTables

LEMMA RestKeeps ==
  ASSUME DailyInv, NEW s \in Settlers,
         SettleEmpty(s) \/ MarkSettled(s) \/ ReadSlice(s) \/ TransferSlice(s)
  PROVE  DailyInv'
  <1> DEFINE p == settler[s].pool
  <1>1. SettlerTables
    BY SettlerTablesTyped
  <1>2. settler[s].stage # "idle" => p \in Pools
    BY DEF DailyInv, DailyTyped, WorkTyped
  <1>3. CASE SettleEmpty(s)
    <2>1. /\ status' = [status EXCEPT ![p] = "SETTLED"] /\ p \in Pools
          /\ SettlerGoes(s, Resting) /\ spawns' = [spawns EXCEPT !.counting = @ + 1]
          /\ UNCHANGED <<seating, balance, ledger, SettlerRests, GameRests>>
      BY <1>2, <1>3 DEF SettleEmpty, WriteStatus
    <2>2. SettlerTables' /\ rank' = rank
      BY <1>1, <2>1, SpawnAdds DEF SettlerTables, SettlerRests
    <2>3. QED
      BY <2>1, <2>2, RestingIsTyped, StatusKeepsTables, SettlerStepKeeps DEF SettlerTables, PayStages
  <1>4. CASE MarkSettled(s)
    <2> DEFINE next == [stage |-> "contribute", pool |-> p]
    <2>1. /\ status' = [status EXCEPT ![p] = "SETTLED"] /\ p \in Pools
          /\ SettlerGoes(s, next)
          /\ UNCHANGED <<seating, balance, ledger, SettlerRests, GameRests, spawns>>
      BY <1>2, <1>4 DEF MarkSettled, WriteStatus
    <2>2. SettlerTables' /\ rank' = rank
      BY <1>1, <2>1 DEF SettlerTables, SettlerRests
    <2>3. WorkTyped(next) /\ next.stage \notin PayStages
      BY <2>1 DEF WorkTyped, SettlerStages, PayStages
    <2> HIDE DEF next
    <2>4. QED
      BY <2>1, <2>2, <2>3, StatusKeepsTables, SettlerStepKeeps DEF SettlerTables
  <1>5. CASE ReadSlice(s)
    <2>1. UNCHANGED <<vars, SettlerRests, GameRests>> /\ settler[s].stage = "contribute"
      BY <1>5 DEF ReadSlice
    <2>2. CASE SettlerGoes(s, Resting) /\ spawns' = [spawns EXCEPT !.counting = @ + 1]
      <3>1. SettlerTables' /\ rank' = rank
        BY <1>1, <2>1, <2>2, SpawnAdds DEF SettlerTables, SettlerRests
      <3>2. QED
        BY <2>1, <2>2, <3>1, RestingIsTyped, TablesKept, SettlerStepKeeps DEF SettlerTables, PayStages
    <2>3. CASE /\ SettlerGoes(s, [stage |-> "transfer", pool |-> p, amount |-> jackpotSlice[p]])
               /\ UNCHANGED spawns
      <3> DEFINE next == [stage |-> "transfer", pool |-> p, amount |-> jackpotSlice[p]]
      <3>1. SettlerTables' /\ rank' = rank
        BY <1>1, <2>1, <2>3 DEF SettlerTables, SettlerRests
      <3>2. p \in Pools /\ jackpotSlice[p] \in Nat
        BY <1>2, <2>1 DEF DailyInv, DailyTyped, TypeOK
      <3>3. WorkTyped(next) /\ next.stage \notin PayStages /\ SettlerGoes(s, next)
        BY <2>3, <3>2 DEF WorkTyped, SettlerStages, PayStages
      <3> HIDE DEF next
      <3>4. QED
        BY <2>1, <3>1, <3>3, TablesKept, SettlerStepKeeps DEF SettlerTables
    <2>4. QED
      BY <1>5, <2>2, <2>3 DEF ReadSlice
  <1>6. CASE TransferSlice(s)
    <2>1. /\ UNCHANGED <<vars, rank, completions, GameRests>>
          /\ settler[s].stage = "transfer"
          /\ jackpot' = jackpot + settler[s].amount
          /\ contributed' = [contributed EXCEPT ![p] = TRUE]
          /\ SettlerGoes(s, Resting)
          /\ spawns' = [spawns EXCEPT !.counting = @ + 1]
      BY <1>6 DEF TransferSlice
    <2>2. settler[s].amount \in Nat
      BY <2>1 DEF DailyInv, DailyTyped, WorkTyped
    <2>3. jackpot' \in Nat /\ contributed' \in [Pools -> BOOLEAN]
      <3>1. jackpot \in Nat /\ contributed \in [Pools -> BOOLEAN]
        BY <1>1 DEF SettlerTables
      <3>2. jackpot' \in Nat
        BY <2>1, <2>2, <3>1
      <3>3. contributed' \in [Pools -> BOOLEAN]
        BY <2>1, <3>1, Zenon
      <3>4. QED
        BY <3>2, <3>3
    <2>4. SettlerTables'
      BY <1>1, <2>1, <2>3, SpawnAdds DEF SettlerTables
    <2>5. QED
      BY <2>1, <2>4, RestingIsTyped, TablesKept, SettlerStepKeeps DEF SettlerTables, PayStages
  <1>7. QED
    BY <1>3, <1>4, <1>5, <1>6

LEMMA OtherRewardRows ==
  ASSUME TypeOK, NEW u \in Users, NEW p \in Pools, NEW row \in Entries,
         row.type = "REWARD", row.pool = p,
         ledger' = [ledger EXCEPT ![u] = Append(ledger[u], row)],
         NEW v \in Users, NEW q \in Pools, v # u \/ q # p
  PROVE  RewardRows(v, q)' = RewardRows(v, q)
  <1>1. /\ \A x \in Users : x # u => ledger'[x] = ledger[x]
        /\ DOMAIN ledger'[u] = DOMAIN ledger[u] \cup {Len(ledger[u]) + 1}
        /\ ledger'[u][Len(ledger[u]) + 1] = row
        /\ \A i \in DOMAIN ledger[u] : ledger'[u][i] = ledger[u][i]
    BY RewardEffect
  <1>2. CASE v # u
    BY <1>1, <1>2 DEF RewardRows
  <1>3. CASE v = u /\ q # p
    BY <1>1, <1>3 DEF RewardRows
  <1>4. QED
    BY <1>2, <1>3

(* The steps of a turn.                                                    *)
Turned(me, stage) == [me EXCEPT !.stage = stage]

LEMMA TurnedFits ==
  ASSUME DailyInv, NEW s \in Settlers, settler[s].stage \in PayStages,
         NEW stage \in {"rank", "credit", "qualify"}
  PROVE  /\ WorkTyped(Turned(settler[s], stage))
         /\ ListFits(Turned(settler[s], stage).list, Turned(settler[s], stage).pool)
         /\ Turned(settler[s], stage).stage = stage
         /\ Turned(settler[s], stage).pool = settler[s].pool
         /\ Turned(settler[s], stage).list = settler[s].list
         /\ Turned(settler[s], stage).next = settler[s].next
  <1> DEFINE me == settler[s]
             next == Turned(me, stage)
  <1>1. /\ me.pool \in Pools /\ me.list \in Seq(Standing) /\ me.next \in 1 .. Len(me.list)
        /\ ListFits(me.list, me.pool)
        /\ {"stage", "pool", "list", "next"} \subseteq DOMAIN me
    BY TurnFacts
  <1> HIDE DEF me
  <1>2. /\ next.stage = stage /\ next.pool = me.pool /\ next.list = me.list /\ next.next = me.next
        /\ DOMAIN next = DOMAIN me
    BY <1>1 DEF Turned
  <1> HIDE DEF next
  <1>3. WorkTyped(next)
    BY <1>1, <1>2 DEF WorkTyped, SettlerStages, PayStages
  <1>4. QED
    BY <1>1, <1>2, <1>3 DEF next, me

LEMMA RankKeeps ==
  ASSUME DailyInv, NEW s \in Settlers, RankWinner(s)
  PROVE  DailyInv'
  <1> DEFINE p == settler[s].pool
             stage == IF Reward(s) > 0 THEN "credit" ELSE "qualify"
             next == Turned(settler[s], stage)
  <1>1. /\ settler[s].stage = "rank" /\ settler[s].stage \in PayStages
        /\ rank' = [rank EXCEPT ![p][Winner(s).user] = settler[s].next]
        /\ SettlerGoes(s, next)
        /\ UNCHANGED <<vars, contributed, jackpot, completions, GameRests, spawns>>
    BY DEF RankWinner, PayStage, Turned, PayStages
  <1>2. /\ p \in Pools /\ Winner(s).user \in Users /\ Winner(s).user \in Seated(p)
        /\ settler[s].next \in 1 .. Cardinality(Users)
    BY <1>1, TurnFacts
  <1>3. WorkTyped(next) /\ ListFits(next.list, next.pool)
    BY <1>1, TurnedFits
  <1> HIDE DEF next, p
  <1>4. SettlerTables /\ Cardinality(Users) \in Nat
    BY SettlerTablesTyped, FiniteTables, FS_CardinalityType
  <1>5. rank' \in [Pools -> [Users -> 0 .. Cardinality(Users)]]
        /\ \A q \in Pools, u \in Users : rank'[q][u] > 0 => rank[q][u] > 0 \/ u \in Seated(q)
    BY <1>1, <1>2, <1>4 DEF SettlerTables
  <1>6. QED
    BY <1>1, <1>3, <1>4, <1>5, TablesKept, SettlerStepKeeps DEF SettlerTables

LEMMA CreditKeeps ==
  ASSUME DailyInv, NEW s \in Settlers, CreditWinner(s)
  PROVE  DailyInv'
  <1> DEFINE me == settler[s]
             u == Winner(s).user
             after == balance[u] + Reward(s)
             next == [stage |-> "record", pool |-> me.pool, list |-> me.list,
                      next |-> me.next, after |-> after]
  <1>1. /\ me.stage = "credit" /\ me.stage \in PayStages
        /\ balance' = [balance EXCEPT ![u] = after]
        /\ SettlerGoes(s, next)
        /\ UNCHANGED <<status, seating, ledger, SettlerRests, GameRests, spawns>>
    BY DEF CreditWinner, PayStages
  <1>2. /\ me.pool \in Pools /\ u \in Users /\ Reward(s) \in Nat /\ me.list \in Seq(Standing)
        /\ me.next \in 1 .. Len(me.list) /\ ListFits(me.list, me.pool)
    BY <1>1, TurnFacts
  <1>3. balance \in [Users -> Int] /\ TypeOK
    BY DEF DailyInv, DailyTyped, TypeOK
  <1>4. after \in Int /\ balance' \in [Users -> Int]
    BY <1>1, <1>2, <1>3
  <1> HIDE DEF me, u, after
  <1>5. WorkTyped(next) /\ ListFits(next.list, next.pool)
    BY <1>2, <1>4 DEF WorkTyped, SettlerStages, PayStages
  <1> HIDE DEF next
  <1>6. TypeOK'
    BY <1>1, <1>3, <1>4 DEF TypeOK, seating
  <1>7. UNCHANGED Rosters /\ UNCHANGED <<agent, failures, reopened>>
        /\ \A q \in Pools, v \in Users : RewardRows(v, q)' = RewardRows(v, q)
    BY <1>1 DEF seating, GameRests, play, Rosters, RewardRows
  <1>8. SettlerTables /\ SettlerTables' /\ rank' = rank
    BY <1>1, SettlerTablesTyped DEF SettlerTables, SettlerRests
  <1>9. QED
    BY <1>1, <1>5, <1>6, <1>7, <1>8, SettlerStepKeeps DEF SettlerTables

(* The ledger row of a reward.                                             *)
RewardRow(s) == [type |-> "REWARD", amount |-> Reward(s),
                 balanceAfter |-> settler[s].after, pool |-> settler[s].pool]
Recorded(me) == [stage |-> "qualify", pool |-> me.pool, list |-> me.list, next |-> me.next]

LEMMA RecordEffect ==
  ASSUME DailyInv, NEW s \in Settlers, RecordReward(s)
  PROVE  /\ settler[s].stage = "record" /\ settler[s].stage \in PayStages
         /\ RewardRow(s) \in Entries
         /\ RewardRow(s).type = "REWARD" /\ RewardRow(s).pool = settler[s].pool
         /\ ledger' = [ledger EXCEPT ![Winner(s).user] = Append(@, RewardRow(s))]
         /\ SettlerGoes(s, Recorded(settler[s]))
         /\ UNCHANGED <<status, seating, balance, SettlerRests, GameRests, spawns>>
  <1>1. /\ settler[s].stage = "record" /\ settler[s].stage \in PayStages
        /\ ledger' = [ledger EXCEPT ![Winner(s).user] = Append(@, RewardRow(s))]
        /\ SettlerGoes(s, Recorded(settler[s]))
        /\ UNCHANGED <<status, seating, balance, SettlerRests, GameRests, spawns>>
    BY DEF RecordReward, RewardRow, Recorded, PayStages
  <1>2. settler[s].pool \in Pools /\ Reward(s) \in Nat
    BY <1>1, TurnFacts
  <1>3. settler[s].after \in Int
    BY <1>1 DEF DailyInv, DailyTyped, WorkTyped
  <1>4. RewardRow(s) \in Entries /\ RewardRow(s).type = "REWARD" /\ RewardRow(s).pool = settler[s].pool
    BY <1>2, <1>3 DEF RewardRow, Entries
  <1>5. QED
    BY <1>1, <1>4

LEMMA RecordKeeps ==
  ASSUME DailyInv, NEW s \in Settlers, RecordReward(s)
  PROVE  DailyInv'
  <1> DEFINE me == settler[s]
             u == Winner(s).user
             next == Recorded(me)
  <1>1. /\ me.stage = "record" /\ me.stage \in PayStages
        /\ RewardRow(s) \in Entries /\ RewardRow(s).type = "REWARD" /\ RewardRow(s).pool = me.pool
        /\ ledger' = [ledger EXCEPT ![u] = Append(@, RewardRow(s))]
        /\ SettlerGoes(s, next)
        /\ UNCHANGED <<status, seating, balance, SettlerRests, GameRests, spawns>>
    BY RecordEffect
  <1>2. /\ me.pool \in Pools /\ u \in Users /\ me.list \in Seq(Standing)
        /\ me.next \in 1 .. Len(me.list) /\ ListFits(me.list, me.pool)
        /\ u \in Seated(me.pool) /\ (Finished(u, me.pool) \/ age[me.pool] = "expired")
    BY <1>1, TurnFacts
  <1>3. TypeOK
    BY DEF DailyInv, DailyTyped
  <1> HIDE DEF me, u
  <1>4. WorkTyped(next) /\ ListFits(next.list, next.pool)
    BY <1>2 DEF Recorded, WorkTyped, SettlerStages, PayStages
  <1> HIDE DEF next
  <1>5. /\ ledger' \in [Users -> Seq(Entries)]
        /\ \A v \in Users, q \in Pools :
             v # u \/ q # me.pool => RewardRows(v, q)' = RewardRows(v, q)
    <2>1. TypeOK /\ u \in Users /\ me.pool \in Pools
      BY <1>2, <1>3
    <2>2. /\ RewardRow(s) \in Entries /\ RewardRow(s).type = "REWARD"
          /\ RewardRow(s).pool = me.pool
          /\ ledger' = [ledger EXCEPT ![u] = Append(ledger[u], RewardRow(s))]
      BY <1>1
    <2> DEFINE row == RewardRow(s)
    <2>3. row \in Entries /\ row.type = "REWARD" /\ row.pool = me.pool
          /\ ledger' = [ledger EXCEPT ![u] = Append(ledger[u], row)]
      BY <2>2
    <2> HIDE DEF row
    <2>4. ledger' \in [Users -> Seq(Entries)]
      BY <2>1, <2>3, RewardEffect
    <2>5. ASSUME NEW v \in Users, NEW q \in Pools, v # u \/ q # me.pool
          PROVE  RewardRows(v, q)' = RewardRows(v, q)
      BY <2>1, <2>3, <2>5, OtherRewardRows
    <2>6. QED
      BY <2>4, <2>5
  <1>6. TypeOK'
    BY <1>1, <1>3, <1>5 DEF TypeOK, seating
  <1>7. UNCHANGED Rosters /\ UNCHANGED <<agent, failures, reopened>>
    BY <1>1 DEF seating, GameRests, play, Rosters
  <1>8. SettlerTables /\ SettlerTables' /\ rank' = rank
    BY <1>1, SettlerTablesTyped DEF SettlerTables, SettlerRests
  <1>9. \A q \in Pools, v \in Users : RewardRows(v, q)' # {} =>
          RewardRows(v, q) # {} \/ (v \in Seated(q) /\ (Finished(v, q) \/ age[q] = "expired"))
    BY <1>2, <1>5
  <1>10. QED
    BY <1>1, <1>4, <1>6, <1>7, <1>8, <1>9, SettlerStepKeeps DEF SettlerTables

Counting(me, count) == [stage |-> "complete", pool |-> me.pool, list |-> me.list,
                        next |-> me.next, count |-> count]

LEMMA QualifyKeeps ==
  ASSUME DailyInv, NEW s \in Settlers, ReadQualification(s)
  PROVE  DailyInv'
  <1> DEFINE me == settler[s]
             u == Winner(s).user
             count == completions[u]
             next == IF Winner(s).done THEN Counting(me, count) ELSE Onward(me)
  <1>1. /\ me.stage = "qualify" /\ me.stage \in PayStages
        /\ SettlerGoes(s, next)
        /\ UNCHANGED <<vars, SettlerRests, GameRests, spawns>>
    BY NextWinnerIsOnward DEF ReadQualification, Counting, PayStages
  <1>2. /\ me.pool \in Pools /\ u \in Users /\ me.list \in Seq(Standing)
        /\ me.next \in 1 .. Len(me.list) /\ ListFits(me.list, me.pool)
        /\ WorkTyped(Onward(me))
        /\ Onward(me).stage \in PayStages => ListFits(Onward(me).list, Onward(me).pool)
    BY <1>1, TurnFacts, OnwardFits
  <1>3. count \in Nat
    BY <1>2 DEF DailyInv, DailyTyped
  <1> HIDE DEF me, u, count
  <1>4. WorkTyped(Counting(me, count))
        /\ ListFits(Counting(me, count).list, Counting(me, count).pool)
    BY <1>2, <1>3 DEF Counting, WorkTyped, SettlerStages, PayStages
  <1>5. WorkTyped(next) /\ (next.stage \in PayStages => ListFits(next.list, next.pool))
    BY <1>2, <1>4
  <1> HIDE DEF next
  <1>6. SettlerTables /\ SettlerTables' /\ rank' = rank
    BY <1>1, SettlerTablesTyped DEF SettlerTables, SettlerRests
  <1>7. QED
    BY <1>1, <1>5, <1>6, TablesKept, SettlerStepKeeps DEF SettlerTables

LEMMA CompleteKeeps ==
  ASSUME DailyInv, NEW s \in Settlers, WriteQualification(s)
  PROVE  DailyInv'
  <1> DEFINE next == Onward(settler[s])
  <1>1. /\ settler[s].stage = "complete" /\ settler[s].stage \in PayStages
        /\ completions' = [completions EXCEPT ![Winner(s).user] = settler[s].count + 1]
        /\ SettlerGoes(s, next)
        /\ UNCHANGED <<vars, rank, contributed, jackpot, GameRests, spawns>>
    BY NextWinnerIsOnward DEF WriteQualification, PayStages
  <1>2. /\ WorkTyped(next) /\ (next.stage \in PayStages => ListFits(next.list, next.pool))
        /\ Winner(s).user \in Users
    BY <1>1, OnwardFits, TurnFacts
  <1> HIDE DEF next
  <1>3. settler[s].count \in Nat
    BY <1>1 DEF DailyInv, DailyTyped, WorkTyped
  <1>4. SettlerTables /\ rank' = rank
    BY <1>1, SettlerTablesTyped
  <1>5. completions' \in [Users -> Nat]
    BY <1>1, <1>2, <1>3, <1>4 DEF SettlerTables
  <1>6. SettlerTables'
    BY <1>1, <1>4, <1>5 DEF SettlerTables
  <1>7. QED
    BY <1>1, <1>2, <1>4, <1>6, TablesKept, SettlerStepKeeps DEF SettlerTables

LEMMA SettlerStepsKeep ==
  ASSUME DailyInv, NEW s \in Settlers, SettlerStep(s)
  PROVE  DailyInv'
  BY ReadKeeps, RestKeeps, RankKeeps, CreditKeeps, RecordKeeps, QualifyKeeps, CompleteKeeps
     DEF SettlerStep

(* The steps that lose work: of some of the workers, or of all.            *)
Losing ==
  /\ UNCHANGED <<balance, ledger, status, playerCount, rewardPool, prizePool, jackpotSlice,
                 treasury, roster>>
  /\ UNCHANGED <<play, rank, age, contributed, jackpot, completions, reopened>>
  /\ failures' = failures + 1
  /\ \A s \in Settlers : settler'[s] = settler[s] \/ settler'[s] = Resting

LEMMA FailuresLose ==
  ASSUME DailyTyped, Kill \/ TickFails
  PROVE  Losing /\ DailyTyped'
  <1>1. settler = [s \in Settlers |-> settler[s]] /\ \A s \in Settlers : WorkTyped(settler[s])
    BY DEF DailyTyped
  <1>2. /\ Resting.stage \in AgentStages /\ Resting.stage # "close"
        /\ NoSpawns \in [counting : Nat, creating : Nat]
    BY DEF Resting, AgentStages, NoSpawns
  <1>3. CASE Kill
    <2>1. /\ req' = [r \in Requests |-> Idle]
          /\ UNCHANGED <<pools, credits>>
          /\ settler' = [s \in Settlers |-> Resting]
          /\ agent' = Resting /\ spawns' = NoSpawns /\ failures' = failures + 1
          /\ UNCHANGED <<play, rank, age, contributed, jackpot, completions, reopened>>
      BY <1>3 DEF Kill, Forget
    <2>2. /\ TypeOK'
          /\ UNCHANGED <<balance, ledger, status, playerCount, rewardPool, prizePool,
                         jackpotSlice, treasury, roster>>
      BY <2>1 DEF DailyTyped, TypeOK, pools, credits
    <2>3. /\ settler' = [s \in Settlers |-> settler'[s]]
          /\ \A s \in Settlers : settler'[s] = Resting
      BY <2>1
    <2>4. DailyTyped'
      BY <1>2, <2>1, <2>2, <2>3, RestingIsTyped DEF DailyTyped, play
    <2>5. QED
      BY <2>1, <2>2, <2>3, <2>4 DEF Losing
  <1>4. CASE TickFails
    <2>1. /\ failures' = failures + 1
          /\ UNCHANGED <<vars, play, rank, age, contributed, jackpot, completions, spawns, reopened>>
      BY <1>4 DEF TickFails
    <2>2. UNCHANGED vars /\ TypeOK
      BY <2>1 DEF DailyTyped
    <2>3. /\ TypeOK'
          /\ UNCHANGED <<balance, ledger, status, playerCount, rewardPool, prizePool,
                         jackpotSlice, treasury, roster>>
      BY <2>2, StepTypeOK DEF vars
    <2>4. /\ settler' = [s \in Settlers |-> settler'[s]]
          /\ \A s \in Settlers : settler'[s] = settler[s] \/ settler'[s] = Resting
          /\ agent' = agent \/ agent' = Resting
      <3>1. CASE \E s \in Settlers : SettlerGoes(s, Resting) /\ UNCHANGED agent
        <4>1. PICK s \in Settlers : SettlerGoes(s, Resting) /\ UNCHANGED agent
          BY <3>1
        <4>2. QED
          BY <4>1, SettlerMoves
      <3>2. CASE agent' = Resting /\ UNCHANGED settler
        BY <1>1, <3>2
      <3>3. QED
        BY <1>4, <3>1, <3>2 DEF TickFails
    <2>5. \A s \in Settlers : WorkTyped(settler'[s])
      BY <1>1, <2>4, RestingIsTyped
    <2>6. DailyTyped'
      BY <1>2, <2>1, <2>3, <2>4, <2>5 DEF DailyTyped, play
    <2>7. QED
      BY <2>1, <2>3, <2>4, <2>6 DEF Losing
  <1>5. QED
    BY <1>3, <1>4

LEMMA LosingKeeps ==
  ASSUME DailyInv, Losing, DailyTyped'
  PROVE  DailyInv'
  <1>1. /\ UNCHANGED Rosters
        /\ UNCHANGED <<ledger, rank>>
        /\ \A s \in Settlers : settler'[s] = settler[s] \/ settler'[s] = Resting
    BY DEF Losing, Rosters, play
  <1>2. \A s \in Settlers : settler'[s].stage \in PayStages =>
          ListFits(settler'[s].list, settler'[s].pool)
    <2>1. Resting.stage \notin PayStages
      BY DEF Resting, PayStages
    <2>2. QED
      BY <1>1, <2>1 DEF DailyInv, ListsFit
  <1>3. ListsFit'
    BY <1>1, <1>2, SameFits DEF ListsFit
  <1>4. SeatsInv'
    BY <1>1 DEF DailyInv, SeatsInv, Rosters, Seated, RewardRows, Finished
  <1>5. QED
    BY <1>3, <1>4 DEF DailyInv

LEMMA DailyInitHolds == DailyInit => DailyInv
  <1> SUFFICES ASSUME DailyInit PROVE DailyInv
    OBVIOUS
  <1>1. TypeOK /\ Init
    BY InitTypeOK DEF DailyInit
  <1>2. Cardinality(Users) \in Nat
    BY FiniteTables, FS_CardinalityType
  <1>3. /\ results \in [Pools -> [Users -> [score : Scores \cup {0}, done : BOOLEAN]]]
        /\ rank \in [Pools -> [Users -> 0 .. Cardinality(Users)]]
        /\ age \in [Pools -> Ages] /\ contributed \in [Pools -> BOOLEAN] /\ jackpot \in Nat
        /\ completions \in [Users -> Nat]
    BY <1>2 DEF DailyInit, NotPlayed, Ages
  <1>4. /\ settler = [s \in Settlers |-> settler[s]]
        /\ \A s \in Settlers : settler[s] = Resting
    BY DEF DailyInit
  <1>5. /\ agent.stage \in AgentStages /\ agent.stage # "close"
        /\ spawns \in [counting : Nat, creating : Nat]
        /\ failures \in Nat /\ reopened \in [Pools -> Nat] /\ undone \subseteq Pools \X Users
    BY DEF DailyInit, Resting, AgentStages, NoSpawns
  <1>6. DailyTyped
    BY <1>1, <1>3, <1>4, <1>5, RestingIsTyped DEF DailyTyped
  <1>7. ListsFit
    BY <1>4, RestingIsTyped DEF ListsFit, PayStages
  <1>8. \A u \in Users, p \in Pools : RewardRows(u, p) = {}
    <2>1. \A u \in Users : ledger[u] = <<>> /\ DOMAIN ledger[u] = {}
      BY <1>1 DEF Init
    <2>2. QED
      BY <2>1 DEF RewardRows
  <1>9. \A p \in Pools : IsInjective(roster[p])
    <2>1. \A p \in Pools : roster[p] = <<>> /\ DOMAIN roster[p] = {}
      BY <1>1 DEF Init
    <2>2. QED
      BY <2>1 DEF IsInjective
  <1>10. \A p \in Pools, u \in Users : rank[p][u] = 0
    BY DEF DailyInit
  <1>11. QED
    BY <1>6, <1>7, <1>8, <1>9, <1>10 DEF DailyInv, SeatsInv

LEMMA AroundKeeps ==
  ASSUME DailyInv, OnlyPlayers
  PROVE  Around /\ DailyInv'
  <1>1. Around /\ DailyTyped'
    BY PlayersGoAround DEF DailyInv
  <1>2. QED
    BY <1>1, AroundKeepsLists DEF DailyInv

LEMMA DailySteps ==
  ASSUME DailyNext
  PROVE  \/ OnlyPlayers
         \/ \E s \in Settlers : (\E p \in Pools : StartSettle(s, p)) \/ SettlerStep(s)
         \/ Kill \/ TickFails
  BY DEF DailyNext, OnlyPlayers

(* Every step is of one of four kinds.                                     *)
LEMMA DailyStepKinds ==
  ASSUME [DailyNext]_dailyVars
  PROVE  \/ OnlyPlayers
         \/ \E s \in Settlers : (\E p \in Pools : StartSettle(s, p)) \/ SettlerStep(s)
         \/ Kill \/ TickFails
         \/ UNCHANGED dailyVars
  BY DailySteps

LEMMA DailyStepKeeps ==
  ASSUME DailyInv, [DailyNext]_dailyVars
  PROVE  DailyInv'
  <1>1. CASE OnlyPlayers
    BY <1>1, AroundKeeps
  <1>2. CASE \E s \in Settlers : (\E p \in Pools : StartSettle(s, p)) \/ SettlerStep(s)
    BY <1>2, StartKeeps, SettlerStepsKeep
  <1>3. CASE Kill \/ TickFails
    BY <1>3, FailuresLose, LosingKeeps DEF DailyInv
  <1>4. CASE UNCHANGED dailyVars
    <2>1. UNCHANGED vars /\ UNCHANGED daily
      BY <1>4 DEF dailyVars
    <2>2. UNCHANGED <<results, rank, age, contributed, jackpot, completions, settler, agent, spawns,
                      failures, reopened, undone>>
      BY <2>1 DEF daily
    <2>3. UNCHANGED <<roster, ledger>> /\ TypeOK'
      BY <2>1, StepTypeOK DEF vars, DailyInv, DailyTyped
    <2>4. DailyTyped'
      BY <2>2, <2>3 DEF DailyInv, DailyTyped
    <2>5. ListsFit' /\ SeatsInv'
      BY <2>2, <2>3 DEF DailyInv, ListsFit, SeatsInv, ListFits, Finished, AllDone, RewardRows, Seated
    <2>6. QED
      BY <2>4, <2>5 DEF DailyInv
  <1>5. QED
    BY <1>1, <1>2, <1>3, <1>4, DailyStepKinds

(* The type invariant of the daily pools, their workers and their history. *)
THEOREM DailyTypeCorrect == DailySpec => []DailyTypeOK
  <1>1. DailyInv => DailyTypeOK
    BY DEF DailyInv, DailyTyped, DailyTypeOK, WorkTyped, SettlerStages, AgentStages
  <1>2. QED
    BY <1>1, DailyInitHolds, DailyStepKeeps, PTL DEF DailySpec

-----------------------------------------------------------------------------
(* One settlement tick at a time: what its work has done so far.           *)
TicksDoNotOverlap == \A s, t \in Settlers : s = t

(* The stages before the pool is marked, the last place of the list whose  *)
(* rank is written and the last whose reward is.                           *)
Working == PayStages \cup {"read", "empty", "mark"}
RankedTo(me) == IF me.stage = "rank" THEN me.next - 1 ELSE me.next
PaidTill(me) == IF me.stage \in {"qualify", "complete"} THEN me.next ELSE me.next - 1

(* The settlement has paid u, has counted the pool for u; afterwards the   *)
(* status of the pool tells.                                               *)
PaidBy(me, u, p) ==
  \/ me.stage = "mark" /\ me.pool = p
  \/ /\ me.stage \in PayStages
     /\ me.pool = p
     /\ \E k \in 1 .. PaidTill(me) : me.list[k].user = u
CountedBy(me, u, p) ==
  \/ me.stage = "mark" /\ me.pool = p
  \/ /\ me.stage \in PayStages
     /\ me.pool = p
     /\ \E k \in 1 .. me.next - 1 : me.list[k].user = u
Passed(u, p) == status[p] = "SETTLED" \/ \E s \in Settlers : PaidBy(settler[s], u, p)
Counted(u, p) == status[p] = "SETTLED" \/ \E s \in Settlers : CountedBy(settler[s], u, p)

(* A pool is worked on while it is not settled.                            *)
WorkIsOpen == \A s \in Settlers : settler[s].stage \in Working => status[settler[s].pool] \in Active

(* The places below the current one hold their ranks, and nobody else but  *)
(* the players of the list has one.                                        *)
RanksDiffer(p) == \A u, v \in Users : u # v /\ rank[p][u] > 0 => rank[p][u] # rank[p][v]

RankedSoFar(me) ==
  /\ \A k \in 1 .. RankedTo(me) : rank[me.pool][me.list[k].user] = k
  /\ \A u \in Users : rank[me.pool][u] > 0 => \E k \in 1 .. Len(me.list) : me.list[k].user = u

RankInv ==
  /\ \A s \in Settlers : settler[s].stage \in PayStages => RankedSoFar(settler[s])
  /\ \A s \in Settlers : settler[s].stage \in {"empty", "mark"} => RanksDiffer(settler[s].pool)
  /\ \A p \in Pools : status[p] = "SETTLED" => RanksDiffer(p)

(* A settlement pays a player once; what disturbed it may repeat it.  The  *)
(* bound of PaidOncePerRun less one while the settlement that runs has not *)
(* come to the player, who is then still to be paid by it.                 *)
Runs(p, b) == failures + reopened[p] + IF b THEN 1 ELSE 0
RowsInv == \A u \in Users, p \in Pools : Cardinality(RewardRows(u, p)) <= Runs(p, Passed(u, p))

CompletionsDue(u, p) == IF Finished(u, p) THEN Runs(p, Counted(u, p)) ELSE 0
CompletionsInv ==
  /\ \A u \in Users : completions[u] <= SumFunction([p \in Pools |-> CompletionsDue(u, p)])
  /\ \A s \in Settlers : settler[s].stage = "complete" =>
       /\ settler[s].list[settler[s].next].done
       /\ settler[s].count = completions[settler[s].list[settler[s].next].user]

(* Undisturbed, it pays exactly the table: nothing before a settlement     *)
(* starts, then the places one after another, and at the end PaidAsRanked. *)
NoReward(u, p) == RewardRows(u, p) = {}
OneReward(u, p, k) ==
  IF ComputeDailyReward(k) > 0
    THEN \E i \in DOMAIN ledger[u] : RewardRows(u, p) = {i} /\ ledger[u][i].amount = ComputeDailyReward(k)
    ELSE NoReward(u, p)
NothingPaid(p) == \A u \in Users : rank[p][u] = 0 /\ NoReward(u, p)
PaidAsRanked(p) ==
  \E n \in 0 .. Len(roster[p]) :
    /\ \A u \in Users : rank[p][u] > 0 <=> \E i \in 1 .. n : roster[p][i] = u
    /\ \A k \in 1 .. n : \E u \in Users : rank[p][u] = k
    /\ \A u \in Users : rank[p][u] <= n
    /\ \A u \in Users : IF rank[p][u] > 0 THEN OneReward(u, p, rank[p][u]) ELSE NoReward(u, p)
PaidSoFar(me, p) ==
  /\ \A k \in 1 .. Len(me.list) :
       LET u == me.list[k].user IN
       /\ k > RankedTo(me) => rank[p][u] = 0
       /\ IF k <= PaidTill(me) THEN OneReward(u, p, k) ELSE NoReward(u, p)
  /\ \A u \in Users : rank[p][u] = 0 => NoReward(u, p)
  /\ me.stage \in {"credit", "record"} => ComputeDailyReward(me.next) > 0

ExactAt(p) ==
  /\ \A s \in Settlers : settler[s].stage \in PayStages /\ settler[s].pool = p => PaidSoFar(settler[s], p)
  /\ \A s \in Settlers : settler[s].stage = "mark" /\ settler[s].pool = p => PaidAsRanked(p)
  /\ status[p] = "SETTLED" => PaidAsRanked(p)
  /\ \/ status[p] = "SETTLED"
     \/ \E s \in Settlers : settler[s].stage \in PayStages \cup {"mark"} /\ settler[s].pool = p
     \/ NothingPaid(p)
ExactInv == \A p \in Pools : failures = 0 /\ reopened[p] = 0 => ExactAt(p)

(* The jackpot holds slices that were paid in, each once: a settlement     *)
(* about to hand one over is the first.                                    *)
SliceOf(p) == IF contributed[p] THEN jackpotSlice[p] ELSE 0
JackpotIsPaidFor == jackpot <= SumFunction([p \in Pools |-> SliceOf(p)])
SliceIsDue ==
  \A s \in Settlers : settler[s].stage = "transfer" =>
    ~contributed[settler[s].pool] /\ settler[s].amount <= jackpotSlice[settler[s].pool]
SliceInv == JackpotIsPaidFor /\ SliceIsDue

(* What the ledger of a user does not explain is a reward on its way.      *)
OnItsWay(u) == SumFunction([s \in Settlers |-> Unrecorded(s, u)])
BalanceInv == failures = 0 => \A u \in Users : Book(u) = OpeningBalance[u] + OnItsWay(u)

SettledInv == WorkIsOpen /\ RankInv /\ RowsInv /\ CompletionsInv /\ ExactInv /\ SliceInv

-----------------------------------------------------------------------------
(* What each step of a settlement does to the tables, row by row.          *)
Held == <<roster, age, results, undone, failures, reopened, jackpotSlice>>
PayTables == <<rank, ledger, completions, contributed, jackpot>>

LEMMA HeldByQuiet ==
  ASSUME UNCHANGED vars, UNCHANGED GameRests
  PROVE  UNCHANGED Held /\ UNCHANGED <<status, ledger>>
  BY DEF vars, GameRests, play, Held

LEMMA HeldBySeating ==
  ASSUME UNCHANGED seating, UNCHANGED GameRests
  PROVE  UNCHANGED Held
  BY DEF seating, GameRests, play, Held

LEMMA StartEffect ==
  ASSUME DailyInv, NEW s \in Settlers, NEW p \in Pools, StartSettle(s, p)
  PROVE  /\ UNCHANGED Held /\ UNCHANGED PayTables /\ UNCHANGED status
         /\ settler[s].stage = "idle" /\ status[p] \in Active
         /\ settler'[s].stage = "read" /\ settler'[s].pool = p
  <1> DEFINE next == [stage |-> "read", pool |-> p, joinable |-> status[p] \in Joinable,
                      full |-> status[p] = "CLOSED" \/ playerCount[p] >= MaxPlayers[p]]
  <1>1. SettlerGoes(s, next) /\ UNCHANGED <<vars, SettlerRests, GameRests, spawns>>
        /\ settler[s].stage = "idle" /\ status[p] \in Active
    BY DEF StartSettle
  <1>2. next.stage = "read" /\ next.pool = p
    OBVIOUS
  <1> HIDE DEF next
  <1>3. settler'[s] = next
    BY <1>1, SettlerMoves DEF DailyInv
  <1>4. QED
    BY <1>1, <1>2, <1>3, HeldByQuiet DEF PayTables, SettlerRests

LEMMA ReadEffect ==
  ASSUME DailyInv, NEW s \in Settlers, ReadParticipants(s)
  PROVE  /\ UNCHANGED Held /\ UNCHANGED PayTables /\ UNCHANGED status
         /\ settler[s].stage = "read" /\ settler[s].pool \in Pools
         /\ settler'[s].stage \in {"idle", "empty", "rank"}
         /\ settler'[s].stage # "idle" => settler'[s].pool = settler[s].pool
         /\ settler'[s].stage = "empty" => roster[settler[s].pool] = <<>>
         /\ settler'[s].stage = "rank" =>
              /\ settler'[s].next = 1
              /\ Len(settler'[s].list) = Len(roster[settler[s].pool])
  <1> DEFINE p == settler[s].pool
             list == Standings(p)
             next == ReadNext(settler[s], p, list)
  <1>1. /\ SettlerGoes(s, next) /\ UNCHANGED <<vars, SettlerRests, GameRests, spawns>>
        /\ settler[s].stage = "read"
    BY DEF ReadParticipants, ReadNext
  <1>2. p \in Pools /\ IsInjective(roster[p]) /\ DailyTyped
    BY <1>1 DEF DailyInv, DailyTyped, WorkTyped, SeatsInv
  <1>3. /\ list \in Seq(Standing)
        /\ Len(list) = Len(roster[p])
    BY <1>2, StandingsFit, Zenon
  <1>4. roster[p] \in Seq(Users)
    BY <1>2 DEF DailyTyped, TypeOK
  <1> HIDE DEF list
  <1>5. list = <<>> => roster[p] = <<>>
    BY <1>3, <1>4
  <1>6. settler'[s] = next
    <2> HIDE DEF next
    <2>1. QED
      BY <1>1, SettlerMoves DEF DailyInv
  <1>7. /\ next.stage \in {"idle", "empty", "rank"}
        /\ next.stage # "idle" => next.pool = p
        /\ next.stage = "empty" => list = <<>>
        /\ next.stage = "rank" => next.next = 1 /\ next.list = list
    BY DEF ReadNext, Resting
  <1> HIDE DEF next, p
  <1>8. QED
    BY <1>1, <1>2, <1>3, <1>5, <1>6, <1>7, HeldByQuiet DEF PayTables, SettlerRests, p

LEMMA EmptyEffect ==
  ASSUME DailyInv, NEW s \in Settlers, SettleEmpty(s)
  PROVE  /\ UNCHANGED Held /\ UNCHANGED PayTables
         /\ settler[s].stage = "empty" /\ settler[s].pool \in Pools
         /\ settler'[s].stage = "idle"
         /\ status'[settler[s].pool] = "SETTLED"
         /\ \A q \in Pools : q # settler[s].pool => status'[q] = status[q]
  <1>1. settler[s].stage = "empty" /\ settler[s].pool \in Pools
    BY DEF SettleEmpty, DailyInv, DailyTyped, WorkTyped
  <1>2. /\ status' = [status EXCEPT ![settler[s].pool] = "SETTLED"]
        /\ SettlerGoes(s, Resting)
        /\ UNCHANGED <<seating, balance, ledger, SettlerRests, GameRests>>
    BY DEF SettleEmpty, WriteStatus
  <1>3. settler'[s] = Resting
    BY <1>2, SettlerMoves DEF DailyInv
  <1>4. status'[settler[s].pool] = "SETTLED" /\ \A q \in Pools : q # settler[s].pool => status'[q] = status[q]
    BY <1>1, <1>2, StatusKeepsTables
  <1>5. QED
    BY <1>1, <1>2, <1>3, <1>4, HeldBySeating DEF PayTables, SettlerRests, Resting

LEMMA MarkEffect ==
  ASSUME DailyInv, NEW s \in Settlers, MarkSettled(s)
  PROVE  /\ UNCHANGED Held /\ UNCHANGED PayTables
         /\ settler[s].stage = "mark" /\ settler[s].pool \in Pools
         /\ settler'[s].stage = "contribute"
         /\ status'[settler[s].pool] = "SETTLED"
         /\ \A q \in Pools : q # settler[s].pool => status'[q] = status[q]
  <1> DEFINE next == [stage |-> "contribute", pool |-> settler[s].pool]
  <1>1. settler[s].stage = "mark" /\ settler[s].pool \in Pools
    BY DEF MarkSettled, DailyInv, DailyTyped, WorkTyped
  <1>2. /\ status' = [status EXCEPT ![settler[s].pool] = "SETTLED"]
        /\ SettlerGoes(s, next)
        /\ UNCHANGED <<seating, balance, ledger, SettlerRests, GameRests>>
    BY DEF MarkSettled, WriteStatus
  <1>3. next.stage = "contribute"
    OBVIOUS
  <1> HIDE DEF next
  <1>4. settler'[s] = next
    BY <1>2, SettlerMoves DEF DailyInv
  <1>5. status'[settler[s].pool] = "SETTLED" /\ \A q \in Pools : q # settler[s].pool => status'[q] = status[q]
    BY <1>1, <1>2, StatusKeepsTables
  <1>6. QED
    BY <1>1, <1>2, <1>3, <1>4, <1>5, HeldBySeating DEF PayTables, SettlerRests

LEMMA SliceEffect ==
  ASSUME DailyInv, NEW s \in Settlers, ReadSlice(s)
  PROVE  /\ UNCHANGED Held /\ UNCHANGED PayTables /\ UNCHANGED status
         /\ settler[s].stage = "contribute"
         /\ settler'[s].stage \in {"idle", "transfer"}
         /\ settler'[s].stage = "transfer" =>
              /\ settler'[s].pool \in Pools /\ ~contributed[settler'[s].pool]
              /\ settler'[s].amount = jackpotSlice[settler'[s].pool]
  <1> DEFINE p == settler[s].pool
             next == IF contributed[p] \/ jackpotSlice[p] <= 0 THEN Resting
                     ELSE [stage |-> "transfer", pool |-> p, amount |-> jackpotSlice[p]]
  <1>1. settler[s].stage = "contribute" /\ p \in Pools
    BY DEF ReadSlice, DailyInv, DailyTyped, WorkTyped
  <1>2. SettlerGoes(s, next) /\ UNCHANGED <<vars, SettlerRests, GameRests>>
    BY DEF ReadSlice
  <1>3. /\ next.stage \in {"idle", "transfer"}
        /\ next.stage = "transfer" =>
             next.pool = p /\ ~contributed[p] /\ next.amount = jackpotSlice[p]
    BY DEF Resting
  <1> HIDE DEF next, p
  <1>4. settler'[s] = next
    BY <1>2, SettlerMoves DEF DailyInv
  <1>5. QED
    BY <1>1, <1>2, <1>3, <1>4, HeldByQuiet DEF PayTables, SettlerRests

LEMMA TransferEffect ==
  ASSUME DailyInv, NEW s \in Settlers, TransferSlice(s)
  PROVE  /\ UNCHANGED Held /\ UNCHANGED <<rank, ledger, completions, status>>
         /\ settler[s].stage = "transfer" /\ settler[s].pool \in Pools
         /\ settler[s].amount \in Nat
         /\ settler'[s].stage = "idle"
         /\ jackpot' = jackpot + settler[s].amount
         /\ contributed' = [contributed EXCEPT ![settler[s].pool] = TRUE]
  <1>1. settler[s].stage = "transfer" /\ settler[s].pool \in Pools /\ settler[s].amount \in Nat
    BY DEF TransferSlice, DailyInv, DailyTyped, WorkTyped
  <1>2. /\ SettlerGoes(s, Resting) /\ UNCHANGED <<vars, rank, completions, GameRests>>
        /\ jackpot' = jackpot + settler[s].amount
        /\ contributed' = [contributed EXCEPT ![settler[s].pool] = TRUE]
    BY DEF TransferSlice
  <1>3. settler'[s] = Resting
    BY <1>2, SettlerMoves DEF DailyInv
  <1>4. QED
    BY <1>1, <1>2, <1>3, HeldByQuiet DEF Resting

(* A turn of the loop, with the place in the list it is about.             *)
SameTurn(old, new) == new.pool = old.pool /\ new.list = old.list /\ new.next = old.next
NextTurn(old, new) ==
  /\ new.pool = old.pool
  /\ \/ new.stage = "mark" /\ old.next = Len(old.list)
     \/ new.stage = "rank" /\ new.list = old.list /\ new.next = old.next + 1

LEMMA OnwardIsNextTurn == \A me : NextTurn(me, Onward(me))
  BY DEF NextTurn, Onward

LEMMA RankEffect ==
  ASSUME DailyInv, NEW s \in Settlers, RankWinner(s)
  PROVE  /\ UNCHANGED Held /\ UNCHANGED <<ledger, completions, contributed, jackpot, status>>
         /\ settler[s].stage = "rank"
         /\ settler'[s].stage = IF Reward(s) > 0 THEN "credit" ELSE "qualify"
         /\ SameTurn(settler[s], settler'[s])
         /\ rank' = [rank EXCEPT ![settler[s].pool][Winner(s).user] = settler[s].next]
  <1> DEFINE stage == IF Reward(s) > 0 THEN "credit" ELSE "qualify"
             next == Turned(settler[s], stage)
  <1>1. /\ settler[s].stage = "rank" /\ settler[s].stage \in PayStages
        /\ rank' = [rank EXCEPT ![settler[s].pool][Winner(s).user] = settler[s].next]
        /\ SettlerGoes(s, next)
        /\ UNCHANGED <<vars, contributed, jackpot, completions, GameRests, spawns>>
    BY DEF RankWinner, PayStage, Turned, PayStages
  <1>2. next.stage = stage /\ SameTurn(settler[s], next)
    BY <1>1, TurnedFits DEF SameTurn
  <1> HIDE DEF next
  <1>3. settler'[s] = next
    BY <1>1, SettlerMoves DEF DailyInv
  <1>4. QED
    BY <1>1, <1>2, <1>3, HeldByQuiet

LEMMA CreditEffect ==
  ASSUME DailyInv, NEW s \in Settlers, CreditWinner(s)
  PROVE  /\ UNCHANGED Held /\ UNCHANGED PayTables /\ UNCHANGED status
         /\ settler[s].stage = "credit" /\ settler'[s].stage = "record"
         /\ SameTurn(settler[s], settler'[s])
         /\ balance' = [balance EXCEPT ![Winner(s).user] = balance[Winner(s).user] + Reward(s)]
  <1> DEFINE me == settler[s]
             after == balance[Winner(s).user] + Reward(s)
             next == [stage |-> "record", pool |-> me.pool, list |-> me.list,
                      next |-> me.next, after |-> after]
  <1>1. /\ me.stage = "credit"
        /\ balance' = [balance EXCEPT ![Winner(s).user] = after]
        /\ SettlerGoes(s, next)
        /\ UNCHANGED <<status, seating, ledger, SettlerRests, GameRests, spawns>>
    BY DEF CreditWinner
  <1>2. next.stage = "record" /\ SameTurn(me, next)
    BY DEF SameTurn
  <1> HIDE DEF next
  <1>3. settler'[s] = next
    BY <1>1, SettlerMoves DEF DailyInv
  <1>4. QED
    BY <1>1, <1>2, <1>3, HeldBySeating DEF PayTables, SettlerRests

LEMMA RewardedEffect ==
  ASSUME DailyInv, NEW s \in Settlers, RecordReward(s)
  PROVE  /\ UNCHANGED Held /\ UNCHANGED <<rank, completions, contributed, jackpot, status, balance>>
         /\ settler[s].stage = "record" /\ settler'[s].stage = "qualify"
         /\ SameTurn(settler[s], settler'[s])
  <1>1. /\ settler[s].stage = "record"
        /\ SettlerGoes(s, Recorded(settler[s]))
        /\ UNCHANGED <<status, seating, balance, SettlerRests, GameRests, spawns>>
    BY RecordEffect
  <1>2. Recorded(settler[s]).stage = "qualify" /\ SameTurn(settler[s], Recorded(settler[s]))
    BY DEF Recorded, SameTurn
  <1>3. settler'[s] = Recorded(settler[s])
    BY <1>1, SettlerMoves DEF DailyInv
  <1>4. QED
    BY <1>1, <1>2, <1>3, HeldBySeating DEF SettlerRests

LEMMA QualifyEffect ==
  ASSUME DailyInv, NEW s \in Settlers, ReadQualification(s)
  PROVE  /\ UNCHANGED Held /\ UNCHANGED PayTables /\ UNCHANGED status
         /\ settler[s].stage = "qualify"
         /\ Winner(s).done =>
              /\ settler'[s].stage = "complete" /\ SameTurn(settler[s], settler'[s])
              /\ settler'[s].count = completions[Winner(s).user]
         /\ ~Winner(s).done => NextTurn(settler[s], settler'[s])
  <1> DEFINE me == settler[s]
             count == completions[Winner(s).user]
             next == IF Winner(s).done THEN Counting(me, count) ELSE Onward(me)
  <1>1. /\ me.stage = "qualify"
        /\ SettlerGoes(s, next)
        /\ UNCHANGED <<vars, SettlerRests, GameRests, spawns>>
    BY NextWinnerIsOnward DEF ReadQualification, Counting
  <1>2. /\ Winner(s).done => next.stage = "complete" /\ SameTurn(me, next) /\ next.count = count
        /\ ~Winner(s).done => NextTurn(me, next)
    BY OnwardIsNextTurn DEF Counting, SameTurn
  <1> HIDE DEF next
  <1>3. settler'[s] = next
    BY <1>1, SettlerMoves DEF DailyInv
  <1>4. QED
    BY <1>1, <1>2, <1>3, HeldByQuiet DEF PayTables, SettlerRests

LEMMA CompleteEffect ==
  ASSUME DailyInv, NEW s \in Settlers, WriteQualification(s)
  PROVE  /\ UNCHANGED Held /\ UNCHANGED <<rank, ledger, contributed, jackpot, status>>
         /\ settler[s].stage = "complete"
         /\ NextTurn(settler[s], settler'[s])
         /\ completions' = [completions EXCEPT ![Winner(s).user] = settler[s].count + 1]
  <1>1. /\ settler[s].stage = "complete"
        /\ completions' = [completions EXCEPT ![Winner(s).user] = settler[s].count + 1]
        /\ SettlerGoes(s, Onward(settler[s]))
        /\ UNCHANGED <<vars, rank, contributed, jackpot, GameRests, spawns>>
    BY NextWinnerIsOnward DEF WriteQualification
  <1>2. settler'[s] = Onward(settler[s])
    BY <1>1, SettlerMoves DEF DailyInv
  <1>3. QED
    BY <1>1, <1>2, HeldByQuiet, OnwardIsNextTurn

-----------------------------------------------------------------------------
(* With one tick at a time, nobody settles a pool behind a settlement.     *)
LEMMA StartedIsOpen ==
  ASSUME DailyInv, NEW s \in Settlers, SettlerStep(s) \/ \E p \in Pools : StartSettle(s, p)
  PROVE  settler'[s].stage \in Working =>
           /\ UNCHANGED status
           /\ \/ settler[s].stage \in Working /\ settler'[s].pool = settler[s].pool
              \/ status[settler'[s].pool] \in Active
  <1>1. CASE \E p \in Pools : StartSettle(s, p)
    BY <1>1, StartEffect
  <1>2. CASE ReadParticipants(s)
    BY <1>2, ReadEffect DEF Working, PayStages
  <1>3. CASE SettleEmpty(s) \/ MarkSettled(s) \/ ReadSlice(s) \/ TransferSlice(s)
    BY <1>3, EmptyEffect, MarkEffect, SliceEffect, TransferEffect DEF Working, PayStages
  <1>4. CASE RankWinner(s) \/ CreditWinner(s) \/ RecordReward(s)
    BY <1>4, RankEffect, CreditEffect, RewardedEffect DEF Working, PayStages, SameTurn
  <1>5. CASE ReadQualification(s)
    BY <1>5, QualifyEffect DEF Working, PayStages, SameTurn, NextTurn
  <1>6. CASE WriteQualification(s)
    BY <1>6, CompleteEffect DEF Working, PayStages, NextTurn
  <1>7. QED
    BY <1>1, <1>2, <1>3, <1>4, <1>5, <1>6 DEF SettlerStep

LEMMA WorkIsOpenKept ==
  ASSUME TicksDoNotOverlap, DailyInv, WorkIsOpen, DailyNext
  PROVE  WorkIsOpen'
  <1>1. CASE OnlyPlayers
    <2>1. settler' = settler /\ \A p \in Pools : Moves(p)
      BY <1>1, AroundKeeps DEF Around
    <2>2. \A s \in Settlers : settler[s].stage \in Working => settler[s].pool \in Pools
      BY DEF DailyInv, DailyTyped, WorkTyped, Working, PayStages
    <2>3. QED
      BY <2>1, <2>2 DEF WorkIsOpen, Moves
  <1>2. CASE \E s \in Settlers : (\E p \in Pools : StartSettle(s, p)) \/ SettlerStep(s)
    <2>1. PICK s \in Settlers : (\E p \in Pools : StartSettle(s, p)) \/ SettlerStep(s)
      BY <1>2
    <2>2. \A t \in Settlers : t = s
      BY DEF TicksDoNotOverlap
    <2>3. settler'[s].stage \in Working =>
            /\ UNCHANGED status
            /\ \/ settler[s].stage \in Working /\ settler'[s].pool = settler[s].pool
               \/ status[settler'[s].pool] \in Active
      BY <2>1, StartedIsOpen
    <2>4. QED
      BY <2>2, <2>3 DEF WorkIsOpen
  <1>3. CASE Kill \/ TickFails
    <2>1. UNCHANGED status /\ \A s \in Settlers : settler'[s] = settler[s] \/ settler'[s] = Resting
      BY <1>3, FailuresLose DEF Losing, DailyInv
    <2>2. QED
      BY <2>1 DEF WorkIsOpen, Resting, Working, PayStages
  <1>4. QED
    BY <1>1, <1>2, <1>3, DailySteps

(* A settlement only gets on with its list.                                *)
LEMMA TurnsGrow ==
  ASSUME NEW old, NEW new, old.stage \in PayStages, Len(old.list) \in Nat, old.next \in 1 .. Len(old.list),
         \/ SameTurn(old, new) /\ new.stage \in PayStages
            /\ (old.stage \in {"qualify", "complete"} => new.stage \in {"qualify", "complete"})
         \/ NextTurn(old, new)
  PROVE  \A u, p : /\ PaidBy(old, u, p) => PaidBy(new, u, p)
                   /\ CountedBy(old, u, p) => CountedBy(new, u, p)
  <1>1. CASE /\ SameTurn(old, new) /\ new.stage \in PayStages
             /\ old.stage \in {"qualify", "complete"} => new.stage \in {"qualify", "complete"}
    <2>1. \A k \in 1 .. PaidTill(old) : k \in 1 .. PaidTill(new)
      BY <1>1 DEF SameTurn, PaidTill
    <2>2. \A u, p : PaidBy(old, u, p) => PaidBy(new, u, p)
      BY <1>1, <2>1 DEF SameTurn, PaidBy, PayStages
    <2>3. QED
      BY <1>1, <2>2 DEF SameTurn, CountedBy, PayStages
  <1>2. CASE NextTurn(old, new) /\ new.stage = "mark"
    BY <1>2 DEF NextTurn, PaidBy, CountedBy, PayStages
  <1>3. CASE NextTurn(old, new) /\ new.stage = "rank"
    <2>1. /\ \A k \in 1 .. PaidTill(old) : k \in 1 .. PaidTill(new)
          /\ \A k \in 1 .. old.next - 1 : k \in 1 .. new.next - 1
      BY <1>3 DEF NextTurn, PaidTill
    <2>2. \A u, p : PaidBy(old, u, p) => PaidBy(new, u, p)
      BY <1>3, <2>1 DEF NextTurn, PaidBy, PayStages
    <2>3. QED
      BY <1>3, <2>1, <2>2 DEF NextTurn, CountedBy, PayStages
  <1>4. QED
    BY <1>1, <1>2, <1>3 DEF NextTurn

LEMMA ProgressGrows ==
  ASSUME TicksDoNotOverlap, DailyInv, WorkIsOpen, NEW s \in Settlers,
         SettlerStep(s) \/ \E p \in Pools : StartSettle(s, p),
         NEW u \in Users, NEW p \in Pools
  PROVE  (Passed(u, p) => Passed(u, p)') /\ (Counted(u, p) => Counted(u, p)')
  <1>1. \A t \in Settlers : t = s
    BY DEF TicksDoNotOverlap
  <1>2. CASE /\ UNCHANGED status /\ settler[s].stage \notin PayStages /\ settler[s].stage # "mark"
    BY <1>1, <1>2 DEF Passed, Counted, PaidBy, CountedBy
  <1>3. CASE /\ settler[s].stage \in {"empty", "mark"} /\ status'[settler[s].pool] = "SETTLED"
             /\ \A q \in Pools : q # settler[s].pool => status'[q] = status[q]
    BY <1>1, <1>3 DEF Passed, Counted, PaidBy, CountedBy, PayStages
  <1>4. CASE /\ UNCHANGED status /\ settler[s].stage \in PayStages
             /\ \/ SameTurn(settler[s], settler'[s]) /\ settler'[s].stage \in PayStages
                   /\ (settler[s].stage \in {"qualify", "complete"} =>
                         settler'[s].stage \in {"qualify", "complete"})
                \/ NextTurn(settler[s], settler'[s])
    <2>1. Len(settler[s].list) \in Nat /\ settler[s].next \in 1 .. Len(settler[s].list)
      BY <1>4, TurnFacts
    <2>2. /\ PaidBy(settler[s], u, p) => PaidBy(settler'[s], u, p)
          /\ CountedBy(settler[s], u, p) => CountedBy(settler'[s], u, p)
      BY <1>4, <2>1, TurnsGrow
    <2>3. QED
      BY <1>1, <1>4, <2>2 DEF Passed, Counted
  <1>5. CASE (\E q \in Pools : StartSettle(s, q)) \/ ReadParticipants(s) \/ ReadSlice(s) \/ TransferSlice(s)
    BY <1>2, <1>5, StartEffect, ReadEffect, SliceEffect, TransferEffect DEF PayStages
  <1>6. CASE SettleEmpty(s) \/ MarkSettled(s)
    BY <1>3, <1>6, EmptyEffect, MarkEffect
  <1>7. CASE RankWinner(s) \/ CreditWinner(s) \/ RecordReward(s)
    BY <1>4, <1>7, RankEffect, CreditEffect, RewardedEffect DEF PayStages
  <1>8. CASE ReadQualification(s) \/ WriteQualification(s)
    BY <1>4, <1>8, QualifyEffect, CompleteEffect DEF PayStages
  <1>9. QED
    BY <1>5, <1>6, <1>7, <1>8 DEF SettlerStep

-----------------------------------------------------------------------------
(* The ranks.                                                              *)
LEMMA ListedRanksDiffer ==
  ASSUME NEW me, RankedSoFar(me), RankedTo(me) = Len(me.list)
  PROVE  RanksDiffer(me.pool)
  BY DEF RankedSoFar, RanksDiffer

LEMMA RankedNext ==
  ASSUME DailyInv, NEW s \in Settlers, settler[s].stage \in {"qualify", "complete"},
         RankedSoFar(settler[s]), NextTurn(settler[s], settler'[s]), rank' = rank
  PROVE  /\ settler'[s].pool = settler[s].pool
         /\ settler'[s].stage = "rank" => RankedSoFar(settler[s])' /\ settler'[s].stage # "mark"
         /\ settler'[s].stage \in {"rank", "mark"}
         /\ settler'[s].stage = "mark" => RanksDiffer(settler[s].pool)'
  <1> DEFINE old == settler[s]
             new == settler'[s]
  <1>1. old.next \in Nat /\ RankedTo(old) = old.next
    BY TurnFacts DEF PayStages, RankedTo
  <1>2. CASE new.stage = "rank" /\ new.pool = old.pool /\ new.list = old.list /\ new.next = old.next + 1
    <2>1. RankedTo(new) = RankedTo(old)
      BY <1>1, <1>2 DEF RankedTo
    <2>2. RankedSoFar(settler[s])'
      BY <1>2, <2>1 DEF RankedSoFar
    <2>3. QED
      BY <1>2, <2>2
  <1>3. CASE new.stage = "mark" /\ new.pool = old.pool /\ old.next = Len(old.list)
    <2>1. RanksDiffer(old.pool)
      BY <1>1, <1>3, ListedRanksDiffer
    <2>2. QED
      BY <1>3, <2>1 DEF RanksDiffer
  <1>4. QED
    BY <1>2, <1>3 DEF NextTurn

LEMMA RankTurn ==
  ASSUME DailyInv, NEW s \in Settlers, RankWinner(s), RankedSoFar(settler[s])
  PROVE  RankedSoFar(settler[s])'
  <1> DEFINE p == settler[s].pool
             list == settler[s].list
             n == settler[s].next
  <1>1. /\ settler[s].stage = "rank" /\ settler'[s].stage \in {"credit", "qualify"}
        /\ settler'[s].pool = p /\ settler'[s].list = list /\ settler'[s].next = n
        /\ rank' = [rank EXCEPT ![p][list[n].user] = n]
    BY RankEffect DEF SameTurn, Winner
  <1>2. /\ p \in Pools /\ n \in 1 .. Len(list) /\ list[n].user \in Users /\ Len(list) \in Nat /\ n \in Nat
        /\ \A j, k \in 1 .. Len(list) : list[j].user = list[k].user => j = k
    BY <1>1, TurnFacts DEF ListFits, Winner, PayStages
  <1>3. \A k \in 1 .. Len(list) : list[k].user \in Users
    <2>1. list \in Seq(Standing)
      BY <1>1, TurnFacts DEF PayStages
    <2>2. \A k \in 1 .. Len(list) : list[k] \in Standing
      BY <2>1
    <2>3. QED
      BY <2>2 DEF Standing
  <1>4. rank \in [Pools -> [Users -> 0 .. Cardinality(Users)]]
    BY DEF DailyInv, DailyTyped
  <1>5. RankedTo(settler[s]) = n - 1 /\ RankedTo(settler'[s]) = n
    BY <1>1 DEF RankedTo
  <1>6. /\ \A k \in 1 .. n - 1 : rank[p][list[k].user] = k
        /\ \A u \in Users : rank[p][u] > 0 => \E k \in 1 .. Len(list) : list[k].user = u
    BY <1>5 DEF RankedSoFar
  <1> HIDE DEF p, list, n
  <1>7. rank'[p][list[n].user] = n /\ \A u \in Users : u # list[n].user => rank'[p][u] = rank[p][u]
    BY <1>1, <1>2, <1>4
  <1>8. \A k \in 1 .. n : rank'[p][list[k].user] = k
    <2> SUFFICES ASSUME NEW k \in 1 .. n PROVE rank'[p][list[k].user] = k
      OBVIOUS
    <2>1. CASE k = n
      BY <1>7, <2>1
    <2>2. CASE k # n
      <3>1. k \in 1 .. n - 1 /\ k \in 1 .. Len(list)
        BY <1>2, <2>2
      <3>2. list[k].user # list[n].user /\ list[k].user \in Users
        BY <1>2, <1>3, <2>2, <3>1
      <3>3. QED
        BY <1>6, <1>7, <3>1, <3>2
    <2>3. QED
      BY <2>1, <2>2
  <1>9. \A u \in Users : rank'[p][u] > 0 => \E k \in 1 .. Len(list) : list[k].user = u
    BY <1>2, <1>6, <1>7
  <1>10. QED
    BY <1>1, <1>5, <1>8, <1>9 DEF RankedSoFar

LEMMA ReadRanks ==
  ASSUME DailyInv, NEW s \in Settlers, ReadParticipants(s), DailyInv'
  PROVE  /\ settler'[s].stage = "rank" => RankedSoFar(settler[s])'
         /\ settler'[s].stage = "empty" => \A u \in Users : rank'[settler'[s].pool][u] = 0
  <1> DEFINE p == settler[s].pool
  <1>1. /\ rank' = rank /\ p \in Pools /\ roster' = roster
        /\ settler'[s].stage # "idle" => settler'[s].pool = p
        /\ settler'[s].stage = "empty" => roster[p] = <<>>
        /\ settler'[s].stage = "rank" =>
             settler'[s].next = 1 /\ Len(settler'[s].list) = Len(roster[p])
    BY ReadEffect DEF PayTables, Held
  <1>2. /\ \A u \in Users : rank[p][u] > 0 => u \in Seated(p)
        /\ rank[p] \in [Users -> 0 .. Cardinality(Users)]
        /\ roster[p] \in Seq(Users)
    BY <1>1 DEF DailyInv, SeatsInv, DailyTyped, TypeOK
  <1>3. ASSUME settler'[s].stage = "rank"
        PROVE  RankedSoFar(settler[s])'
    <2>1. ListFits(settler[s].list, settler[s].pool)'
      BY <1>1, <1>3 DEF DailyInv, ListsFit, PayStages
    <2>2. \A i \in 1 .. Len(roster[p]) : \E k \in 1 .. Len(roster[p]) :
            settler'[s].list[k].user = roster[p][i]
      <3>1. settler'[s].pool = p /\ Len(settler'[s].list) = Len(roster[p]) /\ roster' = roster
        BY <1>1, <1>3
      <3>2. \A i \in 1 .. Len(settler'[s].list) : \E k \in 1 .. Len(settler'[s].list) :
              settler'[s].list[k].user = roster'[settler'[s].pool][i]
        BY <2>1 DEF ListFits
      <3>3. QED
        BY <3>1, <3>2
    <2>3. \A u \in Seated(p) : \E k \in 1 .. Len(roster[p]) : settler'[s].list[k].user = u
      <3>1. DOMAIN roster[p] = 1 .. Len(roster[p])
        BY <1>2
      <3>2. QED
        BY <2>2, <3>1 DEF Seated, Range
    <2>4. RankedTo(settler'[s]) = 0
      BY <1>1, <1>3 DEF RankedTo
    <2>5. settler'[s].pool = p /\ Len(settler'[s].list) = Len(roster[p])
      BY <1>1, <1>3
    <2>6. \A u \in Users : rank'[p][u] > 0 =>
            \E k \in 1 .. Len(settler'[s].list) : settler'[s].list[k].user = u
      BY <1>1, <1>2, <2>3, <2>5
    <2>7. \A k \in 1 .. RankedTo(settler'[s]) :
            rank'[settler'[s].pool][settler'[s].list[k].user] = k
      BY <2>4
    <2>8. QED
      BY <2>5, <2>6, <2>7 DEF RankedSoFar
  <1>4. ASSUME settler'[s].stage = "empty"
        PROVE  \A u \in Users : rank'[p][u] = 0
    <2>1. Seated(p) = {}
      BY <1>1, <1>4 DEF Seated, Range
    <2>2. QED
      BY <1>1, <1>2, <2>1
  <1>5. QED
    BY <1>1, <1>3, <1>4

LEMMA RanksStay ==
  ASSUME rank' = rank, NEW s \in Settlers, RankedSoFar(settler[s]),
         SameTurn(settler[s], settler'[s]), RankedTo(settler'[s]) = RankedTo(settler[s])
  PROVE  RankedSoFar(settler[s])'
  BY DEF RankedSoFar, SameTurn

(* The ranks after a step of the settlement.                               *)
LEMMA SettlementRanks ==
  ASSUME DailyInv, DailyInv', RankInv, NEW s \in Settlers,
         SettlerStep(s) \/ \E p \in Pools : StartSettle(s, p)
  PROVE  /\ settler'[s].stage \in PayStages => RankedSoFar(settler[s])'
         /\ settler'[s].stage \in {"empty", "mark"} => RanksDiffer(settler[s].pool)'
  <1>1. settler[s].stage \in PayStages => RankedSoFar(settler[s])
    BY DEF RankInv
  <1>2. CASE \E p \in Pools : StartSettle(s, p)
    BY <1>2, StartEffect DEF PayStages
  <1>3. CASE ReadParticipants(s)
    BY <1>3, ReadRanks, ReadEffect DEF RanksDiffer, PayStages
  <1>4. CASE SettleEmpty(s) \/ MarkSettled(s) \/ ReadSlice(s) \/ TransferSlice(s)
    BY <1>4, EmptyEffect, MarkEffect, SliceEffect, TransferEffect DEF PayStages
  <1>5. CASE RankWinner(s)
    BY <1>1, <1>5, RankTurn, RankEffect DEF PayStages
  <1>6. CASE CreditWinner(s) \/ RecordReward(s)
    <2>1. /\ rank' = rank /\ SameTurn(settler[s], settler'[s])
          /\ settler[s].stage \in {"credit", "record"} /\ settler'[s].stage \in {"record", "qualify"}
      BY <1>6, CreditEffect, RewardedEffect DEF PayTables
    <2>2. RankedTo(settler'[s]) = RankedTo(settler[s])
      BY <2>1 DEF RankedTo, SameTurn
    <2>3. QED
      BY <1>1, <2>1, <2>2, RanksStay DEF PayStages
  <1>7. CASE ReadQualification(s) /\ Winner(s).done
    <2>1. /\ rank' = rank /\ SameTurn(settler[s], settler'[s])
          /\ settler[s].stage = "qualify" /\ settler'[s].stage = "complete"
      BY <1>7, QualifyEffect DEF PayTables
    <2>2. RankedTo(settler'[s]) = RankedTo(settler[s])
      BY <2>1 DEF RankedTo, SameTurn
    <2>3. QED
      BY <1>1, <2>1, <2>2, RanksStay DEF PayStages
  <1>8. CASE (ReadQualification(s) /\ ~Winner(s).done) \/ WriteQualification(s)
    <2>1. /\ rank' = rank /\ NextTurn(settler[s], settler'[s])
          /\ settler[s].stage \in {"qualify", "complete"}
      BY <1>8, QualifyEffect, CompleteEffect DEF PayTables
    <2>2. QED
      BY <1>1, <2>1, RankedNext DEF PayStages
  <1>9. QED
    BY <1>2, <1>3, <1>4, <1>5, <1>6, <1>7, <1>8 DEF SettlerStep

LEMMA SettledRanksStay ==
  ASSUME DailyInv, WorkIsOpen, NEW s \in Settlers,
         SettlerStep(s) \/ \E p \in Pools : StartSettle(s, p), NEW p \in Pools,
         status[p] = "SETTLED"
  PROVE  \A u \in Users : rank'[p][u] = rank[p][u]
  <1>1. CASE RankWinner(s)
    <2>1. /\ rank' = [rank EXCEPT ![settler[s].pool][Winner(s).user] = settler[s].next]
          /\ settler[s].stage = "rank"
      BY <1>1, RankEffect
    <2>2. settler[s].pool # p
      BY <2>1 DEF WorkIsOpen, Working, PayStages, Active
    <2>3. rank \in [Pools -> [Users -> 0 .. Cardinality(Users)]]
      BY DEF DailyInv, DailyTyped
    <2>4. QED
      BY <2>1, <2>2, <2>3
  <1>2. CASE ~RankWinner(s)
    BY <1>2, StartEffect, ReadEffect, EmptyEffect, MarkEffect, SliceEffect, TransferEffect,
       CreditEffect, RewardedEffect, QualifyEffect, CompleteEffect DEF SettlerStep, PayTables
  <1>3. QED
    BY <1>1, <1>2

LEMMA RanksKept ==
  ASSUME TicksDoNotOverlap, DailyInv, DailyInv', WorkIsOpen, RankInv, DailyNext
  PROVE  RankInv'
  <1>1. CASE OnlyPlayers
    <2>1. settler' = settler /\ rank' = rank /\ \A p \in Pools : Moves(p)
      BY <1>1, AroundKeeps DEF Around
    <2>2. \A p \in Pools : status'[p] = "SETTLED" => status[p] = "SETTLED"
      BY <2>1 DEF Moves, Active
    <2>3. QED
      BY <2>1, <2>2 DEF RankInv, RankedSoFar, RanksDiffer
  <1>2. CASE \E s \in Settlers : (\E p \in Pools : StartSettle(s, p)) \/ SettlerStep(s)
    <2>1. PICK s \in Settlers : (\E p \in Pools : StartSettle(s, p)) \/ SettlerStep(s)
      BY <1>2
    <2>2. \A t \in Settlers : t = s
      BY DEF TicksDoNotOverlap
    <2>3. /\ settler'[s].stage \in PayStages => RankedSoFar(settler[s])'
          /\ settler'[s].stage \in {"empty", "mark"} => RanksDiffer(settler[s].pool)'
      BY <2>1, SettlementRanks
    <2>4. ASSUME NEW p \in Pools, status'[p] = "SETTLED"
          PROVE  RanksDiffer(p)'
      <3>1. CASE status[p] = "SETTLED"
        <4>1. RanksDiffer(p) /\ \A u \in Users : rank'[p][u] = rank[p][u]
          BY <2>1, <3>1, SettledRanksStay DEF RankInv
        <4>2. QED
          BY <4>1 DEF RanksDiffer
      <3>2. CASE status[p] # "SETTLED"
        <4>1. CASE SettleEmpty(s) \/ MarkSettled(s)
          <5>1. settler[s].pool = p /\ settler[s].stage \in {"empty", "mark"} /\ rank' = rank
            BY <2>4, <3>2, <4>1, EmptyEffect, MarkEffect DEF PayTables
          <5>2. QED
            BY <5>1 DEF RankInv, RanksDiffer
        <4>2. CASE ~(SettleEmpty(s) \/ MarkSettled(s))
          <5>1. status' = status
            BY <2>1, <4>2, StartEffect, ReadEffect, SliceEffect, TransferEffect, RankEffect,
               CreditEffect, RewardedEffect, QualifyEffect, CompleteEffect DEF SettlerStep
          <5>2. QED
            BY <2>4, <3>2, <5>1
        <4>3. QED
          BY <4>1, <4>2
      <3>3. QED
        BY <3>1, <3>2
    <2>5. QED
      BY <2>2, <2>3, <2>4 DEF RankInv
  <1>3. CASE Kill \/ TickFails
    <2>1. /\ UNCHANGED status /\ rank' = rank
          /\ \A s \in Settlers : settler'[s] = settler[s] \/ settler'[s] = Resting
      BY <1>3, FailuresLose DEF Losing, DailyInv
    <2>2. Resting.stage \notin PayStages \cup {"empty", "mark"}
      BY DEF Resting, PayStages
    <2>3. QED
      BY <2>1, <2>2 DEF RankInv, RankedSoFar, RanksDiffer
  <1>4. QED
    BY <1>1, <1>2, <1>3, DailySteps

-----------------------------------------------------------------------------
(* The reward rows.                                                        *)
LEMMA RewardRowsFinite ==
  ASSUME TypeOK, NEW u \in Users, NEW p
  PROVE  /\ RewardRows(u, p) \subseteq 1 .. Len(ledger[u])
         /\ IsFiniteSet(RewardRows(u, p)) /\ Cardinality(RewardRows(u, p)) \in Nat
  <1>1. ledger[u] \in Seq(Entries)
    BY DEF TypeOK
  <1>2. Len(ledger[u]) \in Nat /\ DOMAIN ledger[u] = 1 .. Len(ledger[u])
    BY <1>1
  <1>3. RewardRows(u, p) \in SUBSET (1 .. Len(ledger[u]))
    BY <1>2 DEF RewardRows
  <1>4. IsFiniteSet(1 .. Len(ledger[u]))
    BY <1>2, IntervalSize
  <1>5. IsFiniteSet(RewardRows(u, p))
    BY <1>3, <1>4, FS_Subset
  <1>6. QED
    BY <1>3, <1>5, FS_CardinalityType

RunsTyped == failures \in Nat /\ reopened \in [Pools -> Nat]

LEMMA RunsGrow ==
  ASSUME RunsTyped, RunsTyped', NEW p \in Pools, NEW a \in BOOLEAN, NEW b \in BOOLEAN,
         \/ failures' = failures /\ reopened'[p] = reopened[p] /\ (a => b)
         \/ failures' = failures + 1 /\ reopened'[p] = reopened[p]
         \/ failures' = failures /\ reopened'[p] = reopened[p] + 1
  PROVE  Runs(p, a) \in Nat /\ Runs(p, b)' \in Nat /\ Runs(p, a) <= Runs(p, b)'
  BY DEF RunsTyped, Runs

(* Whatever happens, a settlement may be repeated at most as often as it   *)
(* was disturbed.                                                          *)
LEMMA ChancesGrow ==
  ASSUME TicksDoNotOverlap, DailyInv, DailyInv', WorkIsOpen, DailyNext, NEW u \in Users, NEW p \in Pools
  PROVE  /\ Runs(p, Passed(u, p)) \in Nat /\ Runs(p, Passed(u, p))' \in Nat
         /\ Runs(p, Passed(u, p)) <= Runs(p, Passed(u, p))'
         /\ Runs(p, Counted(u, p)) \in Nat /\ Runs(p, Counted(u, p))' \in Nat
         /\ Runs(p, Counted(u, p)) <= Runs(p, Counted(u, p))'
  <1>1. RunsTyped /\ RunsTyped'
    BY DEF DailyInv, DailyTyped, RunsTyped
  <1>2. /\ Passed(u, p) \in BOOLEAN /\ Passed(u, p)' \in BOOLEAN
        /\ Counted(u, p) \in BOOLEAN /\ Counted(u, p)' \in BOOLEAN
    BY DEF Passed, Counted
  <1>3. CASE OnlyPlayers
    <2>1. settler' = settler /\ failures' = failures /\ Moves(p)
      BY <1>3, AroundKeeps DEF Around
    <2>2. CASE reopened'[p] = reopened[p] + 1
      BY <1>1, <1>2, <2>1, <2>2, RunsGrow
    <2>3. CASE reopened'[p] # reopened[p] + 1
      <3>1. /\ reopened'[p] = reopened[p]
            /\ status[p] = "SETTLED" => status'[p] = "SETTLED"
        BY <1>1, <2>1, <2>3 DEF Moves, RunsTyped
      <3>2. (Passed(u, p) => Passed(u, p)') /\ (Counted(u, p) => Counted(u, p)')
        BY <2>1, <3>1 DEF Passed, Counted
      <3>3. QED
        BY <1>1, <1>2, <2>1, <3>1, <3>2, RunsGrow
    <2>4. QED
      BY <2>2, <2>3
  <1>4. CASE \E s \in Settlers : (\E q \in Pools : StartSettle(s, q)) \/ SettlerStep(s)
    <2>1. PICK s \in Settlers : (\E q \in Pools : StartSettle(s, q)) \/ SettlerStep(s)
      BY <1>4
    <2>2. UNCHANGED Held
      BY <2>1, StartEffect, ReadEffect, EmptyEffect, MarkEffect, SliceEffect, TransferEffect,
         RankEffect, CreditEffect, RewardedEffect, QualifyEffect, CompleteEffect DEF SettlerStep
    <2>3. failures' = failures /\ reopened'[p] = reopened[p]
      BY <2>2 DEF Held
    <2>4. (Passed(u, p) => Passed(u, p)') /\ (Counted(u, p) => Counted(u, p)')
      BY <2>1, ProgressGrows
    <2>5. QED
      BY <1>1, <1>2, <2>3, <2>4, RunsGrow
  <1>5. CASE Kill \/ TickFails
    <2>1. failures' = failures + 1 /\ reopened'[p] = reopened[p]
      BY <1>5, FailuresLose DEF Losing, DailyInv
    <2>2. QED
      BY <1>1, <1>2, <2>1, RunsGrow
  <1>6. QED
    BY <1>3, <1>4, <1>5, DailySteps

(* The step that writes the row is the one that passes the player.         *)
LEMMA RecordPasses ==
  ASSUME TicksDoNotOverlap, DailyInv, WorkIsOpen, NEW s \in Settlers, RecordReward(s),
         NEW u, NEW p, u = Winner(s).user, p = settler[s].pool
  PROVE  ~Passed(u, p) /\ Passed(u, p)'
  <1> DEFINE me == settler[s]
  <1>1. \A t \in Settlers : t = s
    BY DEF TicksDoNotOverlap
  <1>2. /\ me.stage = "record" /\ settler'[s].stage = "qualify"
        /\ SameTurn(me, settler'[s])
        /\ me.stage \in PayStages /\ settler'[s].stage \in PayStages
    BY RewardedEffect DEF PayStages
  <1>3. /\ me.next \in 1 .. Len(me.list) /\ Len(me.list) \in Nat /\ me.next \in Nat
        /\ \A j, k \in 1 .. Len(me.list) : me.list[j].user = me.list[k].user => j = k
    BY <1>2, TurnFacts DEF ListFits
  <1>4. status[me.pool] # "SETTLED"
    BY <1>2 DEF WorkIsOpen, Working, Active
  <1>5. PaidTill(me) = me.next - 1 /\ PaidTill(settler'[s]) = me.next
    BY <1>2 DEF PaidTill, SameTurn
  <1>6. \A k \in 1 .. me.next - 1 : me.list[k].user # me.list[me.next].user
    BY <1>3
  <1>7. ~PaidBy(me, u, p)
    BY <1>2, <1>5, <1>6 DEF PaidBy, Winner
  <1>8. PaidBy(settler'[s], u, p)
    BY <1>2, <1>3, <1>5 DEF PaidBy, Winner, SameTurn
  <1>9. ~Passed(u, p)
    BY <1>1, <1>4, <1>7 DEF Passed
  <1>10. Passed(u, p)'
    BY <1>8 DEF Passed
  <1>11. QED
    BY <1>9, <1>10

LEMMA RowsKeptBound ==
  ASSUME TicksDoNotOverlap, DailyInv, DailyInv', WorkIsOpen, RowsInv, DailyNext
  PROVE  RowsInv'
  <1> SUFFICES ASSUME NEW u \in Users, NEW p \in Pools
               PROVE  Cardinality(RewardRows(u, p)') <= Runs(p, Passed(u, p))'
    BY DEF RowsInv
  <1>1. Cardinality(RewardRows(u, p)) <= Runs(p, Passed(u, p))
    BY DEF RowsInv
  <1>2. /\ Runs(p, Passed(u, p)) \in Nat /\ Runs(p, Passed(u, p))' \in Nat
        /\ Runs(p, Passed(u, p)) <= Runs(p, Passed(u, p))'
    BY ChancesGrow
  <1>3. Cardinality(RewardRows(u, p)) \in Nat
    BY RewardRowsFinite DEF DailyInv, DailyTyped
  <1>4. CASE RewardRows(u, p)' = RewardRows(u, p)
    BY <1>1, <1>2, <1>3, <1>4
  <1>5. CASE OnlyPlayers
    BY <1>4, <1>5, AroundKeeps, RewardRowsKept DEF Around
  <1>6. CASE Kill \/ TickFails
    BY <1>4, <1>6, FailuresLose DEF Losing, RewardRows, DailyInv
  <1>7. CASE \E s \in Settlers : (\E q \in Pools : StartSettle(s, q)) \/ SettlerStep(s)
    <2>1. PICK s \in Settlers : (\E q \in Pools : StartSettle(s, q)) \/ SettlerStep(s)
      BY <1>7
    <2>2. CASE ~RecordReward(s)
      <3>1. ledger' = ledger
        BY <2>1, <2>2, StartEffect, ReadEffect, EmptyEffect, MarkEffect, SliceEffect,
           TransferEffect, RankEffect, CreditEffect, QualifyEffect, CompleteEffect
           DEF SettlerStep, PayTables
      <3>2. QED
        BY <1>4, <3>1 DEF RewardRows
    <2>3. CASE RecordReward(s)
      <3> DEFINE v == Winner(s).user
                 q == settler[s].pool
                 row == RewardRow(s)
      <3>1. /\ row \in Entries /\ row.type = "REWARD" /\ row.pool = q
            /\ ledger' = [ledger EXCEPT ![v] = Append(ledger[v], row)]
            /\ v \in Users /\ q \in Pools /\ TypeOK
        BY <2>3, RecordEffect, TurnFacts DEF DailyInv, DailyTyped
      <3>2. v = u /\ q = p => ~Passed(u, p) /\ Passed(u, p)'
        BY <2>3, RecordPasses
      <3>3. UNCHANGED <<failures, reopened>>
        BY <2>3, RewardedEffect DEF Held
      <3> HIDE DEF v, q, row
      <3>4. CASE ~(v = u /\ q = p)
        BY <1>4, <3>1, <3>4, OtherRewardRows
      <3>5. CASE v = u /\ q = p
        <4>0. ledger' = [ledger EXCEPT ![u] = Append(ledger[u], row)] /\ row.pool = p
          BY <3>1, <3>5
        <4>1. /\ RewardRows(u, p)' = RewardRows(u, p) \cup {Len(ledger[u]) + 1}
              /\ Len(ledger[u]) \in Nat
          BY <3>1, <4>0, RewardEffect
        <4>2. Len(ledger[u]) + 1 \notin RewardRows(u, p) /\ IsFiniteSet(RewardRows(u, p))
          BY <3>1, <4>1, RewardRowsFinite
        <4>3. Cardinality(RewardRows(u, p)') = Cardinality(RewardRows(u, p)) + 1
          BY <4>1, <4>2, FS_AddElement
        <4>4. RunsTyped
          BY DEF DailyInv, DailyTyped, RunsTyped
        <4>5. ~Passed(u, p) /\ Passed(u, p)'
          BY <3>2, <3>5
        <4>6. Runs(p, Passed(u, p))' = Runs(p, Passed(u, p)) + 1
          BY <3>3, <4>4, <4>5 DEF Runs, RunsTyped
        <4>7. QED
          BY <1>1, <1>2, <1>3, <4>3, <4>6
      <3>6. QED
        BY <3>4, <3>5
    <2>4. QED
      BY <2>2, <2>3
  <1>8. QED
    BY <1>5, <1>6, <1>7, DailySteps

-----------------------------------------------------------------------------
(* The weekly counter of dailies, which the players who are done earn.     *)
LEMMA FinishedGrows ==
  ASSUME DailyInv, DailyNext, NEW u \in Users, NEW p \in Pools
  PROVE  Finished(u, p) => Finished(u, p)'
  <1>1. CASE OnlyPlayers
    BY <1>1, AroundKeeps DEF Around
  <1>2. CASE \E s \in Settlers : (\E q \in Pools : StartSettle(s, q)) \/ SettlerStep(s)
    <2>1. UNCHANGED Held
      BY <1>2, StartEffect, ReadEffect, EmptyEffect, MarkEffect, SliceEffect, TransferEffect,
         RankEffect, CreditEffect, RewardedEffect, QualifyEffect, CompleteEffect DEF SettlerStep
    <2>2. QED
      BY <2>1 DEF Held, Finished
  <1>3. CASE Kill \/ TickFails
    BY <1>3, FailuresLose DEF Losing, DailyInv, play, Finished
  <1>4. QED
    BY <1>1, <1>2, <1>3, DailySteps

LEMMA DueGrows ==
  ASSUME TicksDoNotOverlap, DailyInv, DailyInv', WorkIsOpen, DailyNext, NEW u \in Users, NEW p \in Pools
  PROVE  CompletionsDue(u, p) \in Nat /\ CompletionsDue(u, p)' \in Nat /\ CompletionsDue(u, p) <= CompletionsDue(u, p)'
  <1>1. /\ Runs(p, Counted(u, p)) \in Nat /\ Runs(p, Counted(u, p))' \in Nat
        /\ Runs(p, Counted(u, p)) <= Runs(p, Counted(u, p))'
    BY ChancesGrow
  <1>2. Finished(u, p) => Finished(u, p)'
    BY FinishedGrows
  <1>3. QED
    BY <1>1, <1>2 DEF CompletionsDue

LEMMA CompletePasses ==
  ASSUME TicksDoNotOverlap, DailyInv, DailyInv', WorkIsOpen, CompletionsInv,
         NEW s \in Settlers, WriteQualification(s),
         NEW u \in Users, NEW p \in Pools, u = Winner(s).user, p = settler[s].pool
  PROVE  CompletionsDue(u, p)' = CompletionsDue(u, p) + 1
  <1> DEFINE me == settler[s]
  <1>1. \A t \in Settlers : t = s
    BY DEF TicksDoNotOverlap
  <1>2. /\ me.stage = "complete" /\ me.stage \in PayStages /\ NextTurn(me, settler'[s])
        /\ UNCHANGED Held
    BY CompleteEffect DEF PayStages
  <1>3. /\ me.next \in 1 .. Len(me.list) /\ Len(me.list) \in Nat /\ me.next \in Nat
        /\ \A j, k \in 1 .. Len(me.list) : me.list[j].user = me.list[k].user => j = k
    BY <1>2, TurnFacts DEF ListFits
  <1>4. status[me.pool] # "SETTLED"
    BY <1>2 DEF WorkIsOpen, Working, Active
  <1>5. \A k \in 1 .. me.next - 1 : me.list[k].user # me.list[me.next].user
    BY <1>3
  <1>6. ~CountedBy(me, u, p)
    BY <1>2, <1>5 DEF CountedBy, Winner
  <1>7. CountedBy(settler'[s], u, p)
    <2>1. CASE settler'[s].stage = "mark" /\ settler'[s].pool = me.pool
      BY <2>1 DEF CountedBy
    <2>2. CASE /\ settler'[s].stage = "rank" /\ settler'[s].pool = me.pool
               /\ settler'[s].list = me.list /\ settler'[s].next = me.next + 1
      <3>1. me.next \in 1 .. settler'[s].next - 1
        BY <1>3, <2>2
      <3>2. QED
        BY <2>2, <3>1 DEF CountedBy, Winner, PayStages
    <2>3. QED
      BY <1>2, <2>1, <2>2 DEF NextTurn
  <1>8. ~Counted(u, p)
    BY <1>1, <1>4, <1>6 DEF Counted
  <1>9. Counted(u, p)'
    BY <1>7 DEF Counted
  <1>10. Winner(s).done
    BY <1>2 DEF CompletionsInv, Winner
  <1>11. Finished(u, p)
    BY <1>2, <1>10, TurnFacts
  <1>12. Finished(u, p)'
    BY <1>2, <1>11 DEF Held, Finished
  <1>13. RunsTyped
    BY DEF DailyInv, DailyTyped, RunsTyped
  <1>14. Runs(p, Counted(u, p))' = Runs(p, Counted(u, p)) + 1
    BY <1>2, <1>8, <1>9, <1>13 DEF Held, Runs, RunsTyped
  <1>15. QED
    BY <1>11, <1>12, <1>14 DEF CompletionsDue

LEMMA DuesGrow ==
  ASSUME TicksDoNotOverlap, DailyInv, DailyInv', WorkIsOpen, DailyNext, NEW u \in Users
  PROVE  LET before == SumFunction([p \in Pools |-> CompletionsDue(u, p)])
             after == SumFunction([p \in Pools |-> CompletionsDue(u, p)'])
         IN  before \in Int /\ after \in Int /\ before <= after
  <1> DEFINE D == [p \in Pools |-> CompletionsDue(u, p)]
             E == [p \in Pools |-> CompletionsDue(u, p)']
  <1>1. \A p \in Pools : D[p] \in Int /\ E[p] \in Int /\ D[p] <= E[p]
    BY DueGrows
  <1>2. SumFunction(D) = SumFunctionOnSet(D, Pools) /\ SumFunction(E) = SumFunctionOnSet(E, Pools)
    BY DEF SumFunction
  <1> HIDE DEF D, E
  <1>3. SumFunctionOnSet(D, Pools) <= SumFunctionOnSet(E, Pools)
    BY <1>1, FiniteTables, SumGrows
  <1>4. SumFunctionOnSet(D, Pools) \in Int /\ SumFunctionOnSet(E, Pools) \in Int
    BY <1>1, FiniteTables, SumIsInt
  <1>5. QED
    BY <1>2, <1>3, <1>4 DEF D, E

(* Where the counter grows by one, so does what the player may be due.     *)
LEMMA CompletionIsDue ==
  ASSUME TicksDoNotOverlap, DailyInv, DailyInv', WorkIsOpen, CompletionsInv, DailyNext,
         NEW s \in Settlers, WriteQualification(s),
         NEW u \in Users, u = Winner(s).user
  PROVE  SumFunction([p \in Pools |-> CompletionsDue(u, p)]) + 1 <= SumFunction([p \in Pools |-> CompletionsDue(u, p)'])
  <1> DEFINE D == [p \in Pools |-> CompletionsDue(u, p)]
             E == [p \in Pools |-> CompletionsDue(u, p)']
  <1>1. PICK q \in Pools : q = settler[s].pool
    BY CompleteEffect, TurnFacts DEF PayStages
  <1> DEFINE F == [p \in Pools |-> IF p = q THEN CompletionsDue(u, p) + 1 ELSE CompletionsDue(u, p)]
  <1>2. CompletionsDue(u, q)' = CompletionsDue(u, q) + 1
    BY <1>1, CompletePasses
  <1>3. \A p \in Pools : CompletionsDue(u, p) \in Nat /\ CompletionsDue(u, p)' \in Nat /\ CompletionsDue(u, p) <= CompletionsDue(u, p)'
    BY DueGrows
  <1>4. \A p \in Pools : D[p] \in Int /\ E[p] \in Int /\ F[p] \in Int /\ F[p] <= E[p]
    BY <1>2, <1>3
  <1>5. F[q] = D[q] + 1 /\ \A p \in Pools \ {q} : F[p] = D[p]
    OBVIOUS
  <1>6. SumFunction(D) = SumFunctionOnSet(D, Pools) /\ SumFunction(E) = SumFunctionOnSet(E, Pools)
    BY DEF SumFunction
  <1> HIDE DEF D, E, F
  <1>7. SumFunctionOnSet(F, Pools) = SumFunctionOnSet(D, Pools) + F[q] - D[q]
    BY <1>4, <1>5, FiniteTables, SumChanges
  <1>8. SumFunctionOnSet(F, Pools) <= SumFunctionOnSet(E, Pools)
    BY <1>4, FiniteTables, SumGrows
  <1>9. SumFunctionOnSet(D, Pools) \in Int /\ SumFunctionOnSet(E, Pools) \in Int
    BY <1>4, FiniteTables, SumIsInt
  <1>10. D[q] \in Int
    BY <1>4
  <1>11. SumFunctionOnSet(D, Pools) + 1 <= SumFunctionOnSet(E, Pools)
    BY <1>5, <1>7, <1>8, <1>9, <1>10
  <1>12. QED
    BY <1>6, <1>11 DEF D, E

LEMMA CountsKept ==
  ASSUME TicksDoNotOverlap, DailyInv, DailyInv', WorkIsOpen, CompletionsInv, DailyNext
  PROVE  \A u \in Users : completions'[u] <= SumFunction([p \in Pools |-> CompletionsDue(u, p)'])
  <1> SUFFICES ASSUME NEW u \in Users
               PROVE  completions'[u] <= SumFunction([p \in Pools |-> CompletionsDue(u, p)'])
    OBVIOUS
  <1> DEFINE before == SumFunction([p \in Pools |-> CompletionsDue(u, p)])
             after == SumFunction([p \in Pools |-> CompletionsDue(u, p)'])
  <1>1. before \in Int /\ after \in Int /\ before <= after
    BY DuesGrow
  <1>2. completions[u] <= before /\ completions \in [Users -> Nat]
    BY DEF CompletionsInv, DailyInv, DailyTyped
  <1>3. CASE completions'[u] = completions[u]
    <2> HIDE DEF before, after
    <2>1. completions'[u] <= after
      BY <1>1, <1>2, <1>3
    <2>2. QED
      BY <2>1 DEF after
  <1>4. CASE \E s \in Settlers : WriteQualification(s)
    <2>1. PICK s \in Settlers : WriteQualification(s)
      BY <1>4
    <2>2. /\ settler[s].stage = "complete" /\ settler[s].stage \in PayStages
          /\ completions' = [completions EXCEPT ![Winner(s).user] = settler[s].count + 1]
      BY <2>1, CompleteEffect DEF PayStages
    <2>3. settler[s].count = completions[Winner(s).user] /\ Winner(s).user \in Users
      BY <2>2, TurnFacts DEF CompletionsInv, Winner
    <2>4. CASE u = Winner(s).user
      <3>1. completions'[u] = completions[u] + 1
        BY <1>2, <2>2, <2>3, <2>4
      <3>2. before + 1 <= after
        BY <2>1, <2>4, CompletionIsDue
      <3> HIDE DEF before, after
      <3>3. completions'[u] <= after
        BY <1>1, <1>2, <3>1, <3>2
      <3>4. QED
        BY <3>3 DEF after
    <2>5. CASE u # Winner(s).user
      BY <1>2, <1>3, <2>2, <2>5
    <2>6. QED
      BY <2>4, <2>5
  <1>5. CASE OnlyPlayers
    BY <1>3, <1>5, AroundKeeps DEF Around
  <1>6. CASE Kill \/ TickFails
    BY <1>3, <1>6, FailuresLose DEF Losing, DailyInv
  <1>7. CASE \E s \in Settlers : (\E p \in Pools : StartSettle(s, p))
               \/ (SettlerStep(s) /\ ~WriteQualification(s))
    <2>1. completions' = completions
      BY <1>7, StartEffect, ReadEffect, EmptyEffect, MarkEffect, SliceEffect, TransferEffect,
         RankEffect, CreditEffect, RewardedEffect, QualifyEffect DEF SettlerStep, PayTables
    <2>2. QED
      BY <1>3, <2>1
  <1>8. QED
    BY <1>4, <1>5, <1>6, <1>7, DailySteps

LEMMA CompletionsKept ==
  ASSUME TicksDoNotOverlap, DailyInv, DailyInv', WorkIsOpen, CompletionsInv, DailyNext
  PROVE  CompletionsInv'
  <1>1. ASSUME NEW t \in Settlers, settler'[t].stage = "complete"
        PROVE  /\ settler'[t].list[settler'[t].next].done
               /\ settler'[t].count = completions'[settler'[t].list[settler'[t].next].user]
    <2>1. CASE settler'[t] = settler[t] /\ completions' = completions
      BY <1>1, <2>1 DEF CompletionsInv
    <2>2. CASE OnlyPlayers
      <3>1. settler' = settler /\ completions' = completions
        BY <2>2, AroundKeeps DEF Around
      <3>2. QED
        BY <2>1, <3>1
    <2>3. CASE Kill \/ TickFails
      <3>1. completions' = completions /\ (settler'[t] = settler[t] \/ settler'[t] = Resting)
        BY <2>3, FailuresLose DEF Losing, DailyInv
      <3>2. QED
        BY <1>1, <2>1, <3>1 DEF Resting
    <2>4. CASE \E s \in Settlers : (\E p \in Pools : StartSettle(s, p)) \/ SettlerStep(s)
      <3>1. (\E p \in Pools : StartSettle(t, p)) \/ SettlerStep(t)
        BY <2>4 DEF TicksDoNotOverlap
      <3>2. CASE ReadQualification(t)
        BY <1>1, <3>2, QualifyEffect DEF SameTurn, NextTurn, Winner, PayTables
      <3>3. CASE ~ReadQualification(t)
        <4>1. settler'[t].stage # "complete"
          BY <3>1, <3>3, StartEffect, ReadEffect, EmptyEffect, MarkEffect, SliceEffect, TransferEffect,
             RankEffect, CreditEffect, RewardedEffect, CompleteEffect DEF SettlerStep, NextTurn
        <4>2. QED
          BY <1>1, <4>1
      <3>4. QED
        BY <3>2, <3>3
    <2>5. QED
      BY <2>2, <2>3, <2>4, DailySteps
  <1>2. QED
    BY <1>1, CountsKept DEF CompletionsInv

-----------------------------------------------------------------------------
(* An undisturbed settlement pays the table.                               *)
TablesSame(p) ==
  \A u \in Users :
    /\ rank'[p][u] = rank[p][u]
    /\ RewardRows(u, p)' = RewardRows(u, p)
    /\ \A i \in RewardRows(u, p) : i \in DOMAIN ledger'[u] /\ ledger'[u][i].amount = ledger[u][i].amount

LEMMA NothingStays ==
  ASSUME NEW p \in Pools, TablesSame(p), NothingPaid(p)
  PROVE  NothingPaid(p)'
  BY DEF TablesSame, NothingPaid, NoReward

LEMMA RewardStays ==
  ASSUME NEW p \in Pools, TablesSame(p), NEW u \in Users, NEW k
  PROVE  /\ NoReward(u, p) => NoReward(u, p)'
         /\ OneReward(u, p, k) => OneReward(u, p, k)'
  BY DEF TablesSame, OneReward, NoReward

LEMMA RankedStays ==
  ASSUME NEW p \in Pools, TablesSame(p), PaidAsRanked(p),
         Len(roster[p]) \in Nat, Len(roster'[p]) \in Nat, Len(roster[p]) <= Len(roster'[p]),
         \A i \in 1 .. Len(roster[p]) : roster'[p][i] = roster[p][i]
  PROVE  PaidAsRanked(p)'
  <1>1. PICK n \in 0 .. Len(roster[p]) :
          /\ \A u \in Users : rank[p][u] > 0 <=> \E i \in 1 .. n : roster[p][i] = u
          /\ \A k \in 1 .. n : \E u \in Users : rank[p][u] = k
          /\ \A u \in Users : rank[p][u] <= n
          /\ \A u \in Users : IF rank[p][u] > 0 THEN OneReward(u, p, rank[p][u]) ELSE NoReward(u, p)
    BY DEF PaidAsRanked
  <1>2. n \in 0 .. Len(roster'[p]) /\ \A i \in 1 .. n : roster'[p][i] = roster[p][i]
    BY <1>1
  <1>3. \A u \in Users : rank'[p][u] = rank[p][u]
    BY DEF TablesSame
  <1>4. ASSUME NEW u \in Users
        PROVE  (IF rank[p][u] > 0 THEN OneReward(u, p, rank[p][u]) ELSE NoReward(u, p))'
    <2>1. PICK k : k = rank[p][u]
      OBVIOUS
    <2>2. k = rank'[p][u]
      BY <1>3, <2>1
    <2>3. CASE k > 0
      <3>1. OneReward(u, p, k)
        BY <1>1, <2>1, <2>3
      <3>2. OneReward(u, p, k)'
        BY <3>1, RewardStays
      <3>3. QED
        BY <2>2, <2>3, <3>2 DEF OneReward, NoReward
    <2>4. CASE ~(k > 0)
      <3>1. NoReward(u, p)
        BY <1>1, <2>1, <2>4
      <3>2. NoReward(u, p)'
        BY <3>1, RewardStays
      <3>3. QED
        BY <2>2, <2>4, <3>2
    <2>5. QED
      BY <2>3, <2>4
  <1>5. /\ \A u \in Users : rank'[p][u] > 0 <=> \E i \in 1 .. n : roster'[p][i] = u
        /\ \A k \in 1 .. n : \E u \in Users : rank'[p][u] = k
        /\ \A u \in Users : rank'[p][u] <= n
    <2>1. \A u \in Users : rank'[p][u] > 0 <=> \E i \in 1 .. n : roster'[p][i] = u
      <3>1. \A u \in Users : rank'[p][u] > 0 <=> \E i \in 1 .. n : roster[p][i] = u
        BY <1>1, <1>3
      <3>2. QED
        BY <1>2, <3>1
    <2>2. \A k \in 1 .. n : \E u \in Users : rank'[p][u] = k
      BY <1>1, <1>3
    <2>3. \A u \in Users : rank'[p][u] <= n
      BY <1>1, <1>3
    <2>4. QED
      BY <2>1, <2>2, <2>3
  <1>6. QED
    BY <1>2, <1>4, <1>5 DEF PaidAsRanked

LEMMA LedgerStaysTables ==
  ASSUME DailyInv, NEW p \in Pools, \A u \in Users : rank'[p][u] = rank[p][u], ledger' = ledger
  PROVE  TablesSame(p)
  BY DEF TablesSame, RewardRows

LEMMA AroundTablesSame ==
  ASSUME DailyInv, Around, NEW p \in Pools
  PROVE  TablesSame(p)
  <1>1. rank' = rank /\ \A u \in Users : RowsKept(u)
    BY DEF Around
  <1>2. \A u \in Users : RewardRows(u, p)' = RewardRows(u, p)
    BY <1>1, RewardRowsKept
  <1>3. \A u \in Users : \A i \in RewardRows(u, p) :
          i \in DOMAIN ledger'[u] /\ ledger'[u][i].amount = ledger[u][i].amount
    BY <1>1 DEF RowsKept, RewardRows
  <1>4. QED
    BY <1>1, <1>2, <1>3 DEF TablesSame

(* A step that leaves the tables of the pool and the place in the list.    *)
LEMMA SoFarStays ==
  ASSUME DailyInv, NEW s \in Settlers, settler[s].stage \in PayStages,
         NEW p \in Pools, TablesSame(p), PaidSoFar(settler[s], p),
         settler'[s].list = settler[s].list,
         RankedTo(settler'[s]) = RankedTo(settler[s]), PaidTill(settler'[s]) = PaidTill(settler[s]),
         settler'[s].stage \in {"credit", "record"} => ComputeDailyReward(settler'[s].next) > 0
  PROVE  PaidSoFar(settler[s], p)'
  <1> DEFINE list == settler[s].list
  <1>1. \A k \in 1 .. Len(list) : list[k].user \in Users
    <2>1. list \in Seq(Standing)
      BY TurnFacts
    <2>2. \A k \in 1 .. Len(list) : list[k] \in Standing
      BY <2>1
    <2>3. QED
      BY <2>2 DEF Standing
  <1>2. ASSUME NEW k \in 1 .. Len(list)
        PROVE  /\ k > RankedTo(settler[s]) => rank'[p][list[k].user] = 0
               /\ (IF k <= PaidTill(settler[s]) THEN OneReward(list[k].user, p, k)
                   ELSE NoReward(list[k].user, p))
    BY <1>1 DEF PaidSoFar, TablesSame
  <1>3. ASSUME NEW k \in 1 .. Len(list), NEW u \in Users, u = list[k].user
        PROVE  IF k <= PaidTill(settler[s]) THEN OneReward(u, p, k)' ELSE NoReward(u, p)'
    <2>1. CASE k <= PaidTill(settler[s])
      BY <1>2, <1>3, <2>1, RewardStays
    <2>2. CASE ~(k <= PaidTill(settler[s]))
      BY <1>2, <1>3, <2>2, RewardStays
    <2>3. QED
      BY <2>1, <2>2
  <1>4. \A u \in Users : rank'[p][u] = 0 => NoReward(u, p)'
    BY RewardStays DEF TablesSame, PaidSoFar
  <1>5. QED
    BY <1>1, <1>2, <1>3, <1>4 DEF PaidSoFar, OneReward, NoReward

LEMMA ListedAreUsers ==
  ASSUME DailyInv, NEW s \in Settlers, settler[s].stage \in PayStages
  PROVE  \A k \in 1 .. Len(settler[s].list) : settler[s].list[k].user \in Users
  <1> DEFINE list == settler[s].list
  <1>1. list \in Seq(Standing)
    BY TurnFacts
  <1>2. \A k \in 1 .. Len(list) : list[k] \in Standing
    BY <1>1
  <1>3. QED
    BY <1>2 DEF Standing

(* The list is read before anything is paid.                               *)
LEMMA ReadPays ==
  ASSUME DailyInv, DailyInv', NEW s \in Settlers, ReadParticipants(s), settler'[s].stage = "rank",
         NEW p \in Pools, p = settler[s].pool, NothingPaid(p)
  PROVE  PaidSoFar(settler[s], p)'
  <1>1. /\ rank' = rank /\ ledger' = ledger /\ settler'[s].next = 1
    BY ReadEffect DEF PayTables
  <1>2. \A k \in 1 .. Len(settler'[s].list) : settler'[s].list[k].user \in Users
    <2>1. settler'[s].list \in Seq(Standing)
      BY DEF DailyInv, DailyTyped, WorkTyped, PayStages
    <2>2. \A k \in 1 .. Len(settler'[s].list) : settler'[s].list[k] \in Standing
      BY <2>1
    <2>3. QED
      BY <2>2 DEF Standing
  <1>3. RankedTo(settler'[s]) = 0 /\ PaidTill(settler'[s]) = 0
    BY <1>1 DEF RankedTo, PaidTill
  <1>4. NothingPaid(p)'
    BY <1>1, NothingStays, LedgerStaysTables
  <1>5. \A k \in 1 .. Len(settler'[s].list) : ~(k <= 0)
    OBVIOUS
  <1>6. QED
    BY <1>2, <1>3, <1>4, <1>5 DEF PaidSoFar, NothingPaid

(* A place without reward is passed when it is ranked.                     *)
LEMMA RankPays ==
  ASSUME DailyInv, NEW s \in Settlers, RankWinner(s),
         NEW p \in Pools, p = settler[s].pool, PaidSoFar(settler[s], p)
  PROVE  PaidSoFar(settler[s], p)'
  <1> DEFINE list == settler[s].list
             n == settler[s].next
  <1>1. /\ settler[s].stage = "rank" /\ ledger' = ledger
        /\ settler'[s].stage = IF Reward(s) > 0 THEN "credit" ELSE "qualify"
        /\ settler'[s].pool = p /\ settler'[s].list = list /\ settler'[s].next = n
        /\ rank' = [rank EXCEPT ![p][list[n].user] = n]
        /\ Reward(s) = ComputeDailyReward(n)
    BY RankEffect DEF SameTurn, Winner, Reward
  <1>2. /\ n \in 1 .. Len(list) /\ list[n].user \in Users /\ Len(list) \in Nat /\ n \in Nat
        /\ \A j, k \in 1 .. Len(list) : list[j].user = list[k].user => j = k
    BY <1>1, TurnFacts DEF ListFits, Winner, PayStages
  <1>3. \A k \in 1 .. Len(list) : list[k].user \in Users
    BY <1>1, ListedAreUsers DEF PayStages
  <1>4. rank \in [Pools -> [Users -> 0 .. Cardinality(Users)]]
    BY DEF DailyInv, DailyTyped
  <1>5. /\ RankedTo(settler[s]) = n - 1 /\ RankedTo(settler'[s]) = n /\ PaidTill(settler[s]) = n - 1
        /\ PaidTill(settler'[s]) = IF Reward(s) > 0 THEN n - 1 ELSE n
    BY <1>1 DEF RankedTo, PaidTill
  <1>6. /\ \A k \in 1 .. Len(list) : k > n - 1 => rank[p][list[k].user] = 0
        /\ \A k \in 1 .. Len(list) : IF k <= n - 1 THEN OneReward(list[k].user, p, k) ELSE NoReward(list[k].user, p)
        /\ \A u \in Users : rank[p][u] = 0 => NoReward(u, p)
    BY <1>5 DEF PaidSoFar
  <1> HIDE DEF list, n
  <1>7. rank'[p][list[n].user] = n /\ \A u \in Users : u # list[n].user => rank'[p][u] = rank[p][u]
    BY <1>1, <1>2, <1>4
  <1>8. \A k \in 1 .. Len(list) : k > n => rank'[p][list[k].user] = 0
    <2> SUFFICES ASSUME NEW k \in 1 .. Len(list), k > n PROVE rank'[p][list[k].user] = 0
      OBVIOUS
    <2>1. list[k].user # list[n].user /\ list[k].user \in Users
      BY <1>2, <1>3
    <2>2. k > n - 1
      BY <1>2
    <2>3. QED
      BY <1>6, <1>7, <2>1, <2>2
  <1>9. \A u \in Users : RewardRows(u, p)' = RewardRows(u, p)
    BY <1>1 DEF RewardRows
  <1>10. \A u \in Users : rank'[p][u] = 0 => NoReward(u, p)'
    BY <1>2, <1>6, <1>7, <1>9 DEF NoReward
  <1>11. ASSUME NEW k \in 1 .. Len(list), k <= PaidTill(settler'[s]), NEW u \in Users, u = list[k].user
         PROVE  OneReward(u, p, k)'
    <2>1. CASE k <= n - 1
      BY <1>1, <1>6, <1>9, <1>11, <2>1 DEF OneReward, NoReward
    <2>2. CASE ~(k <= n - 1)
      <3>1. k = n /\ ~(Reward(s) > 0)
        BY <1>2, <1>5, <1>11, <2>2
      <3>2. NoReward(u, p)
        BY <1>6, <1>11, <2>2
      <3>3. QED
        BY <1>1, <1>9, <3>1, <3>2 DEF OneReward, NoReward
    <2>3. QED
      BY <2>1, <2>2
  <1> DEFINE PaidAt(k, u) == IF k <= PaidTill(settler'[s]) THEN OneReward(u, p, k)' ELSE NoReward(u, p)'
  <1>12. ASSUME NEW k \in 1 .. Len(list), ~(k <= PaidTill(settler'[s])), NEW u \in Users, u = list[k].user
         PROVE  NoReward(u, p)'
    <2>1. ~(k <= n - 1)
      BY <1>2, <1>5, <1>12
    <2>2. NoReward(u, p)
      BY <1>6, <1>12, <2>1
    <2>3. QED
      BY <1>9, <2>2 DEF NoReward
  <1>13. settler'[s].stage \in {"credit", "record"} => ComputeDailyReward(settler'[s].next) > 0
    BY <1>1
  <1>14. \A k \in 1 .. Len(list), u \in Users : u = list[k].user => PaidAt(k, u)
    BY <1>11, <1>12
  <1>15. QED
    BY <1>1, <1>3, <1>5, <1>8, <1>10, <1>13, <1>14 DEF PaidSoFar, OneReward, NoReward

(* The row that is written is the one reward of the place.                 *)
LEMMA RecordPays ==
  ASSUME DailyInv, NEW s \in Settlers, RecordReward(s), RankedSoFar(settler[s]),
         NEW p \in Pools, p = settler[s].pool, PaidSoFar(settler[s], p)
  PROVE  PaidSoFar(settler[s], p)'
  <1> DEFINE list == settler[s].list
             n == settler[s].next
             row == RewardRow(s)
  <1>1. /\ settler[s].stage = "record" /\ settler'[s].stage = "qualify" /\ rank' = rank
        /\ settler'[s].pool = p /\ settler'[s].list = list /\ settler'[s].next = n
    BY RewardedEffect DEF SameTurn
  <1>2. /\ n \in 1 .. Len(list) /\ list[n].user \in Users /\ Len(list) \in Nat /\ n \in Nat
        /\ \A j, k \in 1 .. Len(list) : list[j].user = list[k].user => j = k
    BY <1>1, TurnFacts DEF ListFits, Winner, PayStages
  <1>3. \A k \in 1 .. Len(list) : list[k].user \in Users
    BY <1>1, ListedAreUsers DEF PayStages
  <1>4. PICK w \in Users : w = list[n].user
    BY <1>2
  <1>5. /\ row \in Entries /\ row.type = "REWARD" /\ row.pool = p /\ row.amount = ComputeDailyReward(n)
        /\ ledger' = [ledger EXCEPT ![w] = Append(ledger[w], row)] /\ TypeOK
    BY <1>4, RecordEffect DEF RewardRow, Winner, Reward, DailyInv, DailyTyped
  <1>6. /\ RankedTo(settler[s]) = n /\ RankedTo(settler'[s]) = n /\ PaidTill(settler[s]) = n - 1
        /\ PaidTill(settler'[s]) = n
    BY <1>1 DEF RankedTo, PaidTill
  <1>7. /\ \A k \in 1 .. Len(list) : k > n => rank[p][list[k].user] = 0
        /\ \A k \in 1 .. Len(list) : IF k <= n - 1 THEN OneReward(list[k].user, p, k) ELSE NoReward(list[k].user, p)
        /\ \A u \in Users : rank[p][u] = 0 => NoReward(u, p)
        /\ ComputeDailyReward(n) > 0
    BY <1>1, <1>6 DEF PaidSoFar
  <1>8. rank[p][w] = n
    BY <1>2, <1>4, <1>6 DEF RankedSoFar
  <1> HIDE DEF list, n, row
  <1>9. OneReward(w, p, n)'
    <2>1. NoReward(w, p)
      <3>1. ~(n <= n - 1)
        BY <1>2
      <3>2. QED
        BY <1>2, <1>4, <1>7, <3>1
    <2>2. /\ ledger'[w][Len(ledger[w]) + 1] = row
          /\ DOMAIN ledger'[w] = DOMAIN ledger[w] \cup {Len(ledger[w]) + 1}
          /\ RewardRows(w, p)' = RewardRows(w, p) \cup {Len(ledger[w]) + 1}
      BY <1>5, RewardEffect
    <2>3. RewardRows(w, p)' = {Len(ledger[w]) + 1} /\ Len(ledger[w]) + 1 \in DOMAIN ledger'[w]
      BY <2>1, <2>2 DEF NoReward
    <2>4. ledger'[w][Len(ledger[w]) + 1].amount = ComputeDailyReward(n)
      BY <1>5, <2>2
    <2>5. n' = n
      BY <1>1 DEF n
    <2>6. QED
      BY <1>7, <2>3, <2>4, <2>5 DEF OneReward
  <1>10. ASSUME NEW u \in Users, u # w, NEW k
         PROVE  /\ NoReward(u, p) => NoReward(u, p)'
                /\ OneReward(u, p, k) => OneReward(u, p, k)'
    <2>1. RewardRows(u, p)' = RewardRows(u, p)
      BY <1>5, <1>10, OtherRewardRows
    <2>2. ledger'[u] = ledger[u]
      BY <1>5, <1>10 DEF TypeOK
    <2>3. QED
      BY <2>1, <2>2 DEF OneReward, NoReward
  <1>11. ASSUME NEW k \in 1 .. Len(list), k <= n, NEW u \in Users, u = list[k].user
         PROVE  OneReward(u, p, k)'
    <2>1. CASE k = n
      BY <1>1, <1>4, <1>9, <1>11, <2>1 DEF OneReward, NoReward, n
    <2>2. CASE k # n
      <3>1. u # w /\ k <= n - 1
        BY <1>2, <1>4, <1>11, <2>2
      <3>2. QED
        BY <1>7, <1>10, <1>11, <3>1
    <2>3. QED
      BY <2>1, <2>2
  <1>12. ASSUME NEW k \in 1 .. Len(list), ~(k <= n), NEW u \in Users, u = list[k].user
         PROVE  NoReward(u, p)'
    <2>1. u # w /\ ~(k <= n - 1)
      BY <1>2, <1>4, <1>12
    <2>2. QED
      BY <1>7, <1>10, <1>12, <2>1
  <1> DEFINE PaidAt(k, u) == IF k <= n THEN OneReward(u, p, k)' ELSE NoReward(u, p)'
  <1>13. \A k \in 1 .. Len(list), u \in Users : u = list[k].user => PaidAt(k, u)
    BY <1>11, <1>12
  <1>14. \A u \in Users : rank'[p][u] = 0 => NoReward(u, p)'
    <2> SUFFICES ASSUME NEW u \in Users, rank'[p][u] = 0 PROVE NoReward(u, p)'
      OBVIOUS
    <2>1. u # w /\ NoReward(u, p)
      BY <1>1, <1>2, <1>7, <1>8
    <2>2. QED
      BY <1>10, <2>1
  <1>15. \A k \in 1 .. Len(list) : k > n => rank'[p][list[k].user] = 0
    BY <1>1, <1>7
  <1>16. settler'[s].stage \notin {"credit", "record"}
    BY <1>1
  <1>17. QED
    BY <1>1, <1>3, <1>6, <1>13, <1>14, <1>15, <1>16 DEF PaidSoFar, OneReward, NoReward

(* The last turn leaves the pool paid as it is ranked.                     *)
LEMMA LastTurnPays ==
  ASSUME DailyInv, NEW s \in Settlers, settler[s].stage \in {"qualify", "complete"},
         RankedSoFar(settler[s]), settler[s].next = Len(settler[s].list),
         NEW p \in Pools, p = settler[s].pool, PaidSoFar(settler[s], p)
  PROVE  PaidAsRanked(p)
  <1> DEFINE list == settler[s].list
             n == Len(list)
  <1>1. /\ n \in Nat /\ ListFits(list, p) /\ settler[s].next \in 1 .. n
    BY TurnFacts DEF PayStages
  <1>2. \A k \in 1 .. n : list[k].user \in Users
    BY ListedAreUsers DEF PayStages
  <1>3. RankedTo(settler[s]) = n /\ PaidTill(settler[s]) = n
    BY DEF RankedTo, PaidTill
  <1>4. /\ \A k \in 1 .. n : rank[p][list[k].user] = k
        /\ \A u \in Users : rank[p][u] > 0 => \E k \in 1 .. n : list[k].user = u
    BY <1>3 DEF RankedSoFar
  <1>5. /\ \A k \in 1 .. n : k <= n => OneReward(list[k].user, p, k)
        /\ \A u \in Users : rank[p][u] = 0 => NoReward(u, p)
    BY <1>3 DEF PaidSoFar
  <1>6. /\ n <= Len(roster[p])
        /\ \A k \in 1 .. n : \E i \in 1 .. n : roster[p][i] = list[k].user
        /\ \A i \in 1 .. n : \E k \in 1 .. n : list[k].user = roster[p][i]
    BY <1>1 DEF ListFits
  <1>7. rank[p] \in [Users -> 0 .. Cardinality(Users)] /\ roster[p] \in Seq(Users)
    BY DEF DailyInv, DailyTyped, TypeOK
  <1>8. n \in 0 .. Len(roster[p])
    BY <1>1, <1>6, <1>7
  <1> HIDE DEF list, n
  <1>9. \A u \in Users : rank[p][u] > 0 <=> \E i \in 1 .. n : roster[p][i] = u
    <2>1. ASSUME NEW u \in Users, rank[p][u] > 0
          PROVE  \E i \in 1 .. n : roster[p][i] = u
      <3>1. PICK k \in 1 .. n : list[k].user = u
        BY <1>4, <2>1
      <3>2. QED
        BY <1>6, <3>1
    <2>2. ASSUME NEW u \in Users, NEW i \in 1 .. n, roster[p][i] = u
          PROVE  rank[p][u] > 0
      <3>1. PICK k \in 1 .. n : list[k].user = roster[p][i]
        BY <1>6
      <3>2. rank[p][u] = k
        BY <1>4, <2>2, <3>1
      <3>3. QED
        BY <1>1, <3>2
    <2>3. QED
      BY <2>1, <2>2
  <1>10. \A k \in 1 .. n : \E u \in Users : rank[p][u] = k
    BY <1>2, <1>4
  <1>11. \A u \in Users : rank[p][u] <= n
    <2> SUFFICES ASSUME NEW u \in Users PROVE rank[p][u] <= n
      OBVIOUS
    <2>1. rank[p][u] \in 0 .. Cardinality(Users)
      BY <1>7
    <2>2. CASE rank[p][u] > 0
      BY <1>1, <1>4, <2>2
    <2>3. CASE ~(rank[p][u] > 0)
      <3>1. rank[p][u] = 0
        BY <1>1, <1>7, <2>1, <2>3, PlayersFit DEF DailyInv, DailyTyped, SeatsInv
      <3>2. QED
        BY <1>1, <3>1
    <2>4. QED
      BY <2>2, <2>3
  <1>12. ASSUME NEW u \in Users
         PROVE  IF rank[p][u] > 0 THEN OneReward(u, p, rank[p][u]) ELSE NoReward(u, p)
    <2>1. CASE rank[p][u] > 0
      <3>1. PICK k \in 1 .. n : list[k].user = u
        BY <1>4, <2>1
      <3>2. k <= n /\ rank[p][u] = k
        BY <1>1, <1>4, <3>1
      <3>3. QED
        BY <1>5, <2>1, <3>1, <3>2
    <2>2. CASE ~(rank[p][u] > 0)
      <3>1. rank[p][u] = 0
        BY <1>7, <2>2, PlayersFit DEF DailyInv, DailyTyped, SeatsInv
      <3>2. QED
        BY <1>5, <2>2, <3>1
    <2>3. QED
      BY <2>1, <2>2
  <1>13. QED
    BY <1>8, <1>9, <1>10, <1>11, <1>12 DEF PaidAsRanked

(* What a step leaves exact, put together.                                 *)
LEMMA ExactNow ==
  ASSUME TicksDoNotOverlap, NEW s \in Settlers, NEW p \in Pools,
         settler'[s].stage \in PayStages /\ settler'[s].pool = p => PaidSoFar(settler[s], p)',
         settler'[s].stage = "mark" /\ settler'[s].pool = p => PaidAsRanked(p)',
         status'[p] = "SETTLED" => PaidAsRanked(p)',
         \/ status'[p] = "SETTLED"
         \/ settler'[s].stage \in PayStages \cup {"mark"} /\ settler'[s].pool = p
         \/ NothingPaid(p)'
  PROVE  ExactAt(p)'
  <1>1. \A t \in Settlers : t = s
    BY DEF TicksDoNotOverlap
  <1>2. QED
    BY <1>1 DEF ExactAt

LEMMA ExactQuiet ==
  ASSUME TicksDoNotOverlap, DailyInv, DailyInv', NEW s \in Settlers, NEW p \in Pools, ExactAt(p),
         TablesSame(p), UNCHANGED roster, status'[p] = status[p],
         ~(settler[s].stage \in PayStages \cup {"mark"} /\ settler[s].pool = p),
         ~(settler'[s].stage \in PayStages \cup {"mark"} /\ settler'[s].pool = p)
  PROVE  ExactAt(p)'
  <1>1. \A t \in Settlers : t = s
    BY DEF TicksDoNotOverlap
  <1>2. roster[p] \in Seq(Users) /\ roster'[p] = roster[p]
    BY DEF DailyInv, DailyTyped, TypeOK
  <1>3. PaidAsRanked(p) => PaidAsRanked(p)'
    BY <1>2, RankedStays
  <1>4. NothingPaid(p) => NothingPaid(p)'
    BY NothingStays
  <1>5. /\ status[p] = "SETTLED" => PaidAsRanked(p)
        /\ status[p] = "SETTLED" \/ NothingPaid(p)
    BY <1>1 DEF ExactAt
  <1>6. /\ status'[p] = "SETTLED" => PaidAsRanked(p)'
        /\ status'[p] = "SETTLED" \/ NothingPaid(p)'
    BY <1>3, <1>4, <1>5
  <1>7. QED
    BY <1>6, ExactNow

LEMMA OtherTablesSame ==
  ASSUME DailyInv, NEW s \in Settlers, SettlerStep(s) \/ \E q \in Pools : StartSettle(s, q),
         NEW p \in Pools, RankWinner(s) \/ RecordReward(s) => settler[s].pool # p
  PROVE  TablesSame(p)
  <1>1. CASE RankWinner(s)
    <2>1. /\ rank' = [rank EXCEPT ![settler[s].pool][Winner(s).user] = settler[s].next]
          /\ ledger' = ledger
      BY <1>1, RankEffect
    <2>2. rank \in [Pools -> [Users -> 0 .. Cardinality(Users)]]
      BY DEF DailyInv, DailyTyped
    <2>3. \A u \in Users : rank'[p][u] = rank[p][u]
      BY <1>1, <2>1, <2>2
    <2>4. QED
      BY <2>1, <2>3, LedgerStaysTables
  <1>2. CASE RecordReward(s)
    <2> DEFINE row == RewardRow(s)
    <2>1. PICK w \in Users, q \in Pools : w = Winner(s).user /\ q = settler[s].pool
      BY <1>2, RewardedEffect, TurnFacts DEF PayStages
    <2>2. /\ row \in Entries /\ row.type = "REWARD" /\ row.pool = q /\ q # p
          /\ ledger' = [ledger EXCEPT ![w] = Append(ledger[w], row)]
          /\ rank' = rank /\ TypeOK
      BY <1>2, <2>1, RecordEffect, RewardedEffect DEF DailyInv, DailyTyped
    <2> HIDE DEF row
    <2>3. \A u \in Users : RewardRows(u, p)' = RewardRows(u, p)
      BY <2>2, OtherRewardRows
    <2>4. /\ \A u \in Users : u # w => ledger'[u] = ledger[u]
          /\ \A i \in DOMAIN ledger[w] : ledger'[w][i] = ledger[w][i]
          /\ DOMAIN ledger'[w] = DOMAIN ledger[w] \cup {Len(ledger[w]) + 1}
      BY <2>2, RewardEffect
    <2>5. \A u \in Users : \A i \in RewardRows(u, p) :
            i \in DOMAIN ledger'[u] /\ ledger'[u][i].amount = ledger[u][i].amount
      <3> SUFFICES ASSUME NEW u \in Users, NEW i \in RewardRows(u, p)
                   PROVE  i \in DOMAIN ledger'[u] /\ ledger'[u][i].amount = ledger[u][i].amount
        OBVIOUS
      <3>1. i \in DOMAIN ledger[u]
        BY DEF RewardRows
      <3>2. CASE u = w
        BY <2>4, <3>1, <3>2
      <3>3. CASE u # w
        BY <2>4, <3>1, <3>3
      <3>4. QED
        BY <3>2, <3>3
    <2>6. QED
      BY <2>2, <2>3, <2>5 DEF TablesSame
  <1>3. CASE ~RankWinner(s) /\ ~RecordReward(s)
    <2>1. rank' = rank /\ ledger' = ledger
      BY <1>3, StartEffect, ReadEffect, EmptyEffect, MarkEffect, SliceEffect, TransferEffect,
         CreditEffect, QualifyEffect, CompleteEffect DEF SettlerStep, PayTables
    <2>2. QED
      BY <2>1, LedgerStaysTables
  <1>4. QED
    BY <1>1, <1>2, <1>3

LEMMA ExactElsewhere ==
  ASSUME TicksDoNotOverlap, DailyInv, DailyInv', NEW s \in Settlers,
         SettlerStep(s) \/ \E q \in Pools : StartSettle(s, q),
         NEW p \in Pools, ExactAt(p),
         \/ \E q \in Pools : StartSettle(s, q)
         \/ ReadSlice(s) \/ TransferSlice(s)
         \/ ReadParticipants(s) /\ settler'[s].stage # "rank"
         \/ SettlerStep(s) /\ settler[s].pool # p
  PROVE  ExactAt(p)'
  <1>1. UNCHANGED roster
    BY StartEffect, ReadEffect, EmptyEffect, MarkEffect, SliceEffect, TransferEffect,
       RankEffect, CreditEffect, RewardedEffect, QualifyEffect, CompleteEffect DEF SettlerStep, Held
  <1>2. CASE (\E q \in Pools : StartSettle(s, q)) \/ ReadSlice(s) \/ TransferSlice(s)
               \/ (ReadParticipants(s) /\ settler'[s].stage # "rank")
    <2>1. /\ UNCHANGED status
          /\ settler[s].stage \notin PayStages \cup {"mark"}
          /\ settler'[s].stage \notin PayStages \cup {"mark"}
      BY <1>2, StartEffect, ReadEffect, SliceEffect, TransferEffect DEF PayStages
    <2>2. ~RankWinner(s) /\ ~RecordReward(s)
      BY <2>1, RankEffect, RewardedEffect DEF PayStages
    <2>3. TablesSame(p)
      BY <2>2, OtherTablesSame
    <2>4. QED
      BY <1>1, <2>1, <2>3, ExactQuiet
  <1>3. CASE SettlerStep(s) /\ settler[s].pool # p
    <2>1. TablesSame(p)
      BY <1>3, OtherTablesSame
    <2>2. CASE SettleEmpty(s) \/ MarkSettled(s)
      <3>1. /\ status'[p] = status[p]
            /\ settler'[s].stage \notin PayStages \cup {"mark"}
        BY <1>3, <2>2, EmptyEffect, MarkEffect DEF PayStages
      <3>2. QED
        BY <1>1, <1>3, <2>1, <3>1, ExactQuiet
    <2>3. CASE ~(SettleEmpty(s) \/ MarkSettled(s)) /\ ~ReadSlice(s) /\ ~TransferSlice(s)
      <3>1. UNCHANGED status
        BY <1>3, <2>3, ReadEffect, RankEffect, CreditEffect, RewardedEffect, QualifyEffect, CompleteEffect
           DEF SettlerStep
      <3>2. settler'[s].stage \in PayStages \cup {"mark"} => settler'[s].pool = settler[s].pool
        BY <1>3, <2>3, ReadEffect, RankEffect, CreditEffect, RewardedEffect, QualifyEffect, CompleteEffect
           DEF SettlerStep, SameTurn, NextTurn, PayStages
      <3>3. QED
        BY <1>1, <1>3, <2>1, <3>1, <3>2, ExactQuiet
    <2>4. QED
      BY <1>2, <2>2, <2>3
  <1>4. QED
    BY <1>2, <1>3

(* A turn of the loop over the players of a pool.                          *)
LEMMA ExactTurn ==
  ASSUME TicksDoNotOverlap, DailyInv, DailyInv', WorkIsOpen, RankInv, NEW s \in Settlers,
         \/ RankWinner(s) \/ CreditWinner(s) \/ RecordReward(s)
         \/ ReadQualification(s) \/ WriteQualification(s),
         NEW p \in Pools, p = settler[s].pool, ExactAt(p)
  PROVE  ExactAt(p)'
  <1>1. /\ settler[s].stage \in PayStages /\ UNCHANGED status /\ UNCHANGED roster
        /\ settler'[s].pool = p
        /\ settler'[s].stage \in PayStages \cup {"mark"}
    BY RankEffect, CreditEffect, RewardedEffect, QualifyEffect, CompleteEffect
       DEF SameTurn, NextTurn, PayStages, Held
  <1>2. status'[p] # "SETTLED"
    BY <1>1 DEF WorkIsOpen, Working, PayStages, Active
  <1>3. PaidSoFar(settler[s], p) /\ RankedSoFar(settler[s])
    BY <1>1 DEF ExactAt, RankInv
  <1>4. settler[s].next \in Nat
    BY <1>1, TurnFacts
  <1>5. CASE settler'[s].stage # "mark" /\ PaidSoFar(settler[s], p)'
    BY <1>1, <1>2, <1>5, ExactNow
  <1>6. CASE RankWinner(s)
    BY <1>3, <1>5, <1>6, RankPays, RankEffect
  <1>7. CASE RecordReward(s)
    BY <1>3, <1>5, <1>7, RecordPays, RewardedEffect
  <1>8. ASSUME TablesSame(p), SameTurn(settler[s], settler'[s]),
               RankedTo(settler'[s]) = RankedTo(settler[s]), PaidTill(settler'[s]) = PaidTill(settler[s]),
               settler'[s].stage # "mark",
               settler'[s].stage \in {"credit", "record"} => settler[s].stage \in {"credit", "record"}
        PROVE  ExactAt(p)'
    <2>1. settler'[s].stage \in {"credit", "record"} => ComputeDailyReward(settler'[s].next) > 0
      BY <1>3, <1>8 DEF SameTurn, PaidSoFar
    <2>2. PaidSoFar(settler[s], p)'
      BY <1>1, <1>3, <1>8, <2>1, SoFarStays DEF SameTurn
    <2>3. QED
      BY <1>5, <1>8, <2>2
  <1>9. CASE CreditWinner(s)
    <2>1. /\ settler[s].stage = "credit" /\ settler'[s].stage = "record"
          /\ SameTurn(settler[s], settler'[s])
      BY <1>9, CreditEffect
    <2>2. RankedTo(settler'[s]) = RankedTo(settler[s]) /\ PaidTill(settler'[s]) = PaidTill(settler[s])
      BY <2>1 DEF RankedTo, PaidTill, SameTurn
    <2>3. TablesSame(p)
      BY <1>9, CreditEffect, LedgerStaysTables DEF PayTables
    <2>4. QED
      BY <1>8, <2>1, <2>2, <2>3
  <1>10. CASE ReadQualification(s) /\ Winner(s).done
    <2>1. /\ settler[s].stage = "qualify" /\ settler'[s].stage = "complete"
          /\ SameTurn(settler[s], settler'[s])
      BY <1>10, QualifyEffect
    <2>2. RankedTo(settler'[s]) = RankedTo(settler[s]) /\ PaidTill(settler'[s]) = PaidTill(settler[s])
      BY <2>1 DEF RankedTo, PaidTill, SameTurn
    <2>3. TablesSame(p)
      BY <1>10, QualifyEffect, LedgerStaysTables DEF PayTables
    <2>4. QED
      BY <1>8, <2>1, <2>2, <2>3
  <1>11. CASE (ReadQualification(s) /\ ~Winner(s).done) \/ WriteQualification(s)
    <2>1. /\ settler[s].stage \in {"qualify", "complete"} /\ NextTurn(settler[s], settler'[s])
          /\ rank' = rank /\ ledger' = ledger
      BY <1>11, QualifyEffect, CompleteEffect DEF PayTables
    <2>2. TablesSame(p)
      BY <2>1, LedgerStaysTables
    <2>3. CASE settler'[s].stage = "rank" /\ settler'[s].list = settler[s].list
                 /\ settler'[s].next = settler[s].next + 1
      <3>1. RankedTo(settler'[s]) = RankedTo(settler[s]) /\ PaidTill(settler'[s]) = PaidTill(settler[s])
        BY <1>4, <2>1, <2>3 DEF RankedTo, PaidTill
      <3>2. PaidSoFar(settler[s], p)'
        BY <1>1, <1>3, <2>2, <2>3, <3>1, SoFarStays
      <3>3. QED
        BY <1>5, <2>3, <3>2
    <2>4. CASE settler'[s].stage = "mark" /\ settler[s].next = Len(settler[s].list)
      <3>1. PaidAsRanked(p)
        BY <1>3, <2>1, <2>4, LastTurnPays
      <3>2. roster[p] \in Seq(Users)
        BY DEF DailyInv, DailyTyped, TypeOK
      <3>3. PaidAsRanked(p)'
        BY <1>1, <2>2, <3>1, <3>2, RankedStays
      <3>4. QED
        BY <1>1, <1>2, <2>4, <3>3, ExactNow DEF PayStages
    <2>5. QED
      BY <2>1, <2>3, <2>4 DEF NextTurn
  <1>12. QED
    BY <1>6, <1>7, <1>9, <1>10, <1>11

(* The steps before and after the loop.                                    *)
LEMMA ExactEnds ==
  ASSUME TicksDoNotOverlap, DailyInv, DailyInv', WorkIsOpen, NEW s \in Settlers,
         \/ ReadParticipants(s) /\ settler'[s].stage = "rank"
         \/ SettleEmpty(s) \/ MarkSettled(s),
         NEW p \in Pools, p = settler[s].pool, ExactAt(p)
  PROVE  ExactAt(p)'
  <1>1. rank' = rank /\ ledger' = ledger /\ UNCHANGED roster
        /\ settler[s].stage \in {"read", "empty", "mark"}
    BY ReadEffect, EmptyEffect, MarkEffect DEF PayTables, Held
  <1>2. TablesSame(p)
    BY <1>1, LedgerStaysTables
  <1>3. roster[p] \in Seq(Users) /\ roster'[p] = roster[p]
    BY <1>1 DEF DailyInv, DailyTyped, TypeOK
  <1>4. status[p] # "SETTLED"
    BY <1>1 DEF WorkIsOpen, Working, Active
  <1>5. settler[s].stage # "mark" => NothingPaid(p)
    BY <1>1, <1>4 DEF ExactAt, TicksDoNotOverlap, PayStages
  <1>6. CASE ReadParticipants(s) /\ settler'[s].stage = "rank"
    <2>1. settler[s].stage = "read" /\ UNCHANGED status /\ settler'[s].pool = p
      BY <1>6, ReadEffect
    <2>2. PaidSoFar(settler[s], p)'
      BY <1>5, <1>6, <2>1, ReadPays
    <2>3. QED
      BY <1>4, <1>6, <2>1, <2>2, ExactNow DEF PayStages
  <1>7. CASE SettleEmpty(s)
    <2>1. settler'[s].stage = "idle" /\ settler[s].stage = "empty"
      BY <1>7, EmptyEffect
    <2>2. NothingPaid(p)'
      BY <1>2, <1>5, <2>1, NothingStays
    <2>3. PaidAsRanked(p)'
      <3>1. 0 \in 0 .. Len(roster'[p])
        BY <1>3
      <3>2. QED
        BY <2>2, <3>1 DEF PaidAsRanked, NothingPaid
    <2>4. status'[p] = "SETTLED"
      BY <1>7, EmptyEffect
    <2>5. QED
      BY <2>1, <2>3, <2>4, ExactNow DEF PayStages
  <1>8. CASE MarkSettled(s)
    <2>1. /\ settler'[s].stage = "contribute" /\ settler[s].stage = "mark" /\ status'[p] = "SETTLED"
      BY <1>8, MarkEffect
    <2>2. PaidAsRanked(p)
      BY <2>1 DEF ExactAt
    <2>3. PaidAsRanked(p)'
      BY <1>2, <1>3, <2>2, RankedStays
    <2>4. QED
      BY <2>1, <2>3, ExactNow DEF PayStages
  <1>9. QED
    BY <1>6, <1>7, <1>8

LEMMA ExactAround ==
  ASSUME DailyInv, DailyInv', Around, NEW p \in Pools, ExactAt(p), reopened[p] = 0, reopened'[p] = 0
  PROVE  ExactAt(p)'
  <1>1. settler' = settler /\ Moves(p) /\ Grows(p) /\ TablesSame(p)
    BY AroundTablesSame DEF Around
  <1>2. status'[p] = "SETTLED" <=> status[p] = "SETTLED"
    BY <1>1 DEF Moves, Active
  <1>3. roster[p] \in Seq(Users) /\ roster'[p] \in Seq(Users)
    BY DEF DailyInv, DailyTyped, TypeOK
  <1>4. PaidAsRanked(p) => PaidAsRanked(p)'
    BY <1>1, <1>3, RankedStays DEF Grows
  <1>5. NothingPaid(p) => NothingPaid(p)'
    BY <1>1, NothingStays
  <1>6. ASSUME NEW s \in Settlers, settler[s].stage \in PayStages, settler[s].pool = p
        PROVE  PaidSoFar(settler[s], p)'
    <2>1. PaidSoFar(settler[s], p)
      BY <1>6 DEF ExactAt
    <2>2. settler'[s] = settler[s]
      BY <1>1
    <2>3. settler[s].stage \in {"credit", "record"} => ComputeDailyReward(settler[s].next) > 0
      BY <2>1 DEF PaidSoFar
    <2>4. QED
      BY <1>1, <1>6, <2>1, <2>2, <2>3, SoFarStays
  <1>7. QED
    BY <1>1, <1>2, <1>4, <1>5, <1>6 DEF ExactAt

LEMMA ExactKept ==
  ASSUME TicksDoNotOverlap, DailyInv, DailyInv', WorkIsOpen, RankInv, ExactInv, DailyNext
  PROVE  ExactInv'
  <1> SUFFICES ASSUME NEW p \in Pools, failures' = 0, reopened'[p] = 0
               PROVE  ExactAt(p)'
    BY DEF ExactInv
  <1>1. RunsTyped /\ RunsTyped'
    BY DEF DailyInv, DailyTyped, RunsTyped
  <1>2. CASE OnlyPlayers
    <2>1. Around /\ failures' = failures /\ Moves(p)
      BY <1>2, AroundKeeps DEF Around
    <2>2. reopened[p] = 0
      BY <1>1, <2>1 DEF Moves, RunsTyped
    <2>3. QED
      BY <2>1, <2>2, ExactAround DEF ExactInv
  <1>3. CASE Kill \/ TickFails
    BY <1>1, <1>3, FailuresLose DEF Losing, DailyInv, RunsTyped
  <1>4. CASE \E s \in Settlers : (\E q \in Pools : StartSettle(s, q)) \/ SettlerStep(s)
    <2>1. PICK s \in Settlers : (\E q \in Pools : StartSettle(s, q)) \/ SettlerStep(s)
      BY <1>4
    <2>2. UNCHANGED Held
      BY <2>1, StartEffect, ReadEffect, EmptyEffect, MarkEffect, SliceEffect, TransferEffect,
         RankEffect, CreditEffect, RewardedEffect, QualifyEffect, CompleteEffect DEF SettlerStep
    <2>3. ExactAt(p)
      BY <2>2 DEF Held, ExactInv
    <2>4. CASE \/ \E q \in Pools : StartSettle(s, q)
               \/ ReadSlice(s) \/ TransferSlice(s)
               \/ ReadParticipants(s) /\ settler'[s].stage # "rank"
               \/ SettlerStep(s) /\ settler[s].pool # p
      BY <2>1, <2>3, <2>4, ExactElsewhere
    <2>5. CASE settler[s].pool = p /\ (RankWinner(s) \/ CreditWinner(s) \/ RecordReward(s)
                                       \/ ReadQualification(s) \/ WriteQualification(s))
      BY <2>3, <2>5, ExactTurn
    <2>6. CASE settler[s].pool = p /\ ((ReadParticipants(s) /\ settler'[s].stage = "rank")
                                       \/ SettleEmpty(s) \/ MarkSettled(s))
      BY <2>3, <2>6, ExactEnds
    <2>7. QED
      BY <2>1, <2>4, <2>5, <2>6 DEF SettlerStep
  <1>5. QED
    BY <1>2, <1>3, <1>4, DailySteps

(* What was paid, out of the rows.                                         *)
LEMMA NoRewardPaysNothing ==
  ASSUME NEW u, NEW p, NoReward(u, p)
  PROVE  PaidTo(u, p) = 0
  BY SumEmpty DEF NoReward, PaidTo

LEMMA OneRewardPaysPlace ==
  ASSUME TypeOK, NEW u \in Users, NEW p, NEW k \in Nat, OneReward(u, p, k)
  PROVE  PaidTo(u, p) = ComputeDailyReward(k)
  <1>1. ComputeDailyReward(k) \in Nat
    BY RewardIsNatural
  <1>2. CASE ComputeDailyReward(k) > 0
    <2>1. PICK i \in DOMAIN ledger[u] : RewardRows(u, p) = {i} /\ ledger[u][i].amount = ComputeDailyReward(k)
      BY <1>2 DEF OneReward
    <2>2. Amounts(u)[i] = ComputeDailyReward(k)
      BY <2>1 DEF Amounts
    <2>3. SumFunctionOnSet(Amounts(u), {i}) = Amounts(u)[i]
      BY <1>1, <2>2, SumOfOne
    <2>4. QED
      BY <2>1, <2>2, <2>3 DEF PaidTo
  <1>3. CASE ~(ComputeDailyReward(k) > 0)
    BY <1>1, <1>3, NoRewardPaysNothing DEF OneReward
  <1>4. QED
    BY <1>2, <1>3

LEMMA RankedCount ==
  ASSUME DailyInv, NEW p \in Pools, NEW n \in 0 .. Len(roster[p])
  PROVE  Cardinality({roster[p][i] : i \in 1 .. n}) = n
  <1> DEFINE seat == [i \in 1 .. n |-> roster[p][i]]
             T == {roster[p][i] : i \in 1 .. n}
  <1>1. /\ roster[p] \in Seq(Users) /\ Len(roster[p]) \in Nat
        /\ DOMAIN roster[p] = 1 .. Len(roster[p]) /\ IsInjective(roster[p])
    BY DEF DailyInv, DailyTyped, TypeOK, SeatsInv
  <1>2. n \in Nat /\ \A i \in 1 .. n : i \in DOMAIN roster[p]
    BY <1>1
  <1>3. seat \in Bijection(1 .. n, T)
    <2>1. seat \in [1 .. n -> T] /\ \A t \in T : \E i \in 1 .. n : seat[i] = t
      OBVIOUS
    <2>2. \A i, j \in 1 .. n : seat[i] = seat[j] => i = j
      BY <1>1, <1>2 DEF IsInjective
    <2> HIDE DEF seat, T
    <2>3. QED
      BY <2>1, <2>2 DEF Bijection, Injection, Surjection, IsInjective
  <1>4. IsFiniteSet(1 .. n) /\ Cardinality(1 .. n) = n
    BY <1>2, IntervalSize
  <1> HIDE DEF seat, T
  <1>5. Cardinality(T) = Cardinality(1 .. n)
    BY <1>3, <1>4, FS_Bijection DEF ExistsBijection
  <1>6. QED
    BY <1>4, <1>5 DEF T

ExactPayment(p) ==
  LET ranked == {u \in Users : rank[p][u] > 0}
  IN  /\ ranked = {roster[p][i] : i \in 1 .. Cardinality(ranked)}
      /\ {rank[p][u] : u \in ranked} = 1 .. Cardinality(ranked)
      /\ \A u \in ranked : PaidTo(u, p) = ComputeDailyReward(rank[p][u])
      /\ \A u \in Users \ ranked : RewardRows(u, p) = {}

LEMMA PaidAsRankedIsExact ==
  ASSUME DailyInv, NEW p \in Pools, PaidAsRanked(p)
  PROVE  ExactPayment(p)
  <1> DEFINE ranked == {u \in Users : rank[p][u] > 0}
  <1>1. PICK n \in 0 .. Len(roster[p]) :
          /\ \A u \in Users : rank[p][u] > 0 <=> \E i \in 1 .. n : roster[p][i] = u
          /\ \A k \in 1 .. n : \E u \in Users : rank[p][u] = k
          /\ \A u \in Users : rank[p][u] <= n
          /\ \A u \in Users : IF rank[p][u] > 0 THEN OneReward(u, p, rank[p][u]) ELSE NoReward(u, p)
    BY DEF PaidAsRanked
  <1>2. /\ roster[p] \in Seq(Users) /\ Len(roster[p]) \in Nat /\ rank[p] \in [Users -> 0 .. Cardinality(Users)]
        /\ Cardinality(Users) \in Nat /\ n \in Nat /\ TypeOK
    BY FiniteTables, FS_CardinalityType DEF DailyInv, DailyTyped, TypeOK
  <1>3. \A i \in 1 .. n : roster[p][i] \in Users
    BY <1>2
  <1>4. ranked = {roster[p][i] : i \in 1 .. n}
    BY <1>1, <1>3
  <1>5. Cardinality(ranked) = n
    BY <1>4, RankedCount
  <1>6. \A u \in Users : rank[p][u] \in Nat
    BY <1>2
  <1>7. {rank[p][u] : u \in ranked} = 1 .. n
    <2>1. \A u \in ranked : rank[p][u] \in 1 .. n
      BY <1>1, <1>2, <1>6
    <2>2. \A k \in 1 .. n : \E u \in ranked : rank[p][u] = k
      BY <1>1, <1>2
    <2> HIDE DEF ranked
    <2>3. QED
      BY <2>1, <2>2
  <1>8. ASSUME NEW u \in ranked
        PROVE  PaidTo(u, p) = ComputeDailyReward(rank[p][u])
    <2>1. PICK k \in Nat : k = rank[p][u]
      BY <1>6
    <2>2. OneReward(u, p, k)
      BY <1>1, <2>1
    <2>3. QED
      BY <1>2, <2>1, <2>2, OneRewardPaysPlace
  <1>9. \A u \in Users \ ranked : RewardRows(u, p) = {}
    BY <1>1 DEF NoReward
  <1>10. QED
    BY <1>4, <1>5, <1>7, <1>8, <1>9 DEF ExactPayment

-----------------------------------------------------------------------------
(* The slices: what the jackpot received, and what the pools hold.         *)
LEMMA SlicesAreNaturals ==
  ASSUME TypeOK, NEW p \in Pools
  PROVE  SliceOf(p) \in Nat /\ jackpotSlice[p] \in Nat
  BY DEF SliceOf, TypeOK

LEMMA SlicesSum ==
  ASSUME TypeOK, TypeOK', \A p \in Pools : SliceOf(p) <= SliceOf(p)'
  PROVE  /\ SumFunction([p \in Pools |-> SliceOf(p)]) \in Int
         /\ SumFunction([p \in Pools |-> SliceOf(p)]) <= SumFunction([p \in Pools |-> SliceOf(p)'])
         /\ SumFunction([p \in Pools |-> SliceOf(p)']) \in Int
  <1> DEFINE D == [p \in Pools |-> SliceOf(p)]
             E == [p \in Pools |-> SliceOf(p)']
  <1>1. \A p \in Pools : SliceOf(p) \in Int /\ SliceOf(p)' \in Int
    BY DEF SliceOf, TypeOK
  <1>2. \A p \in Pools : D[p] \in Int /\ E[p] \in Int /\ D[p] <= E[p]
    BY <1>1
  <1>3. SumFunction(D) = SumFunctionOnSet(D, Pools) /\ SumFunction(E) = SumFunctionOnSet(E, Pools)
    BY DEF SumFunction
  <1> HIDE DEF D, E
  <1>4. SumFunctionOnSet(D, Pools) <= SumFunctionOnSet(E, Pools)
    BY <1>2, FiniteTables, SumGrows
  <1>5. SumFunctionOnSet(D, Pools) \in Int /\ SumFunctionOnSet(E, Pools) \in Int
    BY <1>2, FiniteTables, SumIsInt
  <1>6. QED
    BY <1>3, <1>4, <1>5 DEF D, E

LEMMA SliceMoves ==
  ASSUME TypeOK, TypeOK', NEW p \in Pools, UNCHANGED jackpotSlice,
         ~contributed[p], contributed' = [contributed EXCEPT ![p] = TRUE],
         contributed \in [Pools -> BOOLEAN]
  PROVE  SumFunction([q \in Pools |-> SliceOf(q)'])
           = SumFunction([q \in Pools |-> SliceOf(q)]) + jackpotSlice[p]
  <1> DEFINE D == [q \in Pools |-> SliceOf(q)]
             E == [q \in Pools |-> SliceOf(q)']
  <1>1. \A q \in Pools : SliceOf(q) \in Int /\ SliceOf(q)' \in Int
    BY DEF SliceOf, TypeOK
  <1>2. SliceOf(p) = 0
    BY DEF SliceOf
  <1>3. contributed'[p] /\ \A q \in Pools : q # p => contributed'[q] = contributed[q]
    BY Zenon
  <1>4. SliceOf(p)' = jackpotSlice[p]
    BY <1>3 DEF SliceOf
  <1>5. \A q \in Pools : q # p => SliceOf(q)' = SliceOf(q)
    BY <1>3 DEF SliceOf
  <1>6. /\ \A q \in Pools : D[q] \in Int /\ E[q] \in Int
        /\ D[p] = 0 /\ E[p] = jackpotSlice[p]
        /\ \A q \in Pools \ {p} : E[q] = D[q]
    BY <1>1, <1>2, <1>4, <1>5
  <1>7. SumFunction(D) = SumFunctionOnSet(D, Pools) /\ SumFunction(E) = SumFunctionOnSet(E, Pools)
    BY DEF SumFunction
  <1>8. jackpotSlice[p] \in Int
    BY DEF TypeOK
  <1> HIDE DEF D, E
  <1>9. SumFunctionOnSet(E, Pools) = SumFunctionOnSet(D, Pools) + E[p] - D[p]
    BY <1>6, FiniteTables, SumChanges
  <1>10. SumFunctionOnSet(D, Pools) \in Int
    BY <1>6, FiniteTables, SumIsInt
  <1>11. SumFunctionOnSet(E, Pools) = SumFunctionOnSet(D, Pools) + jackpotSlice[p]
    BY <1>6, <1>8, <1>9, <1>10
  <1>12. QED
    BY <1>7, <1>11 DEF D, E

LEMMA QuietJackpot ==
  ASSUME DailyInv, DailyInv', JackpotIsPaidFor, UNCHANGED <<jackpot, contributed>>,
         \A p \in Pools : jackpotSlice[p] <= jackpotSlice'[p]
  PROVE  JackpotIsPaidFor'
  <1>1. TypeOK /\ TypeOK' /\ jackpot \in Nat
    BY DEF DailyInv, DailyTyped
  <1>2. \A p \in Pools : SliceOf(p) <= SliceOf(p)'
    BY DEF SliceOf
  <1>3. PICK a \in Int : a = SumFunction([p \in Pools |-> SliceOf(p)])
    BY <1>1, <1>2, SlicesSum
  <1>4. PICK b \in Int : b = SumFunction([p \in Pools |-> SliceOf(p)'])
    BY <1>1, <1>2, SlicesSum
  <1>5. a <= b
    BY <1>1, <1>2, <1>3, <1>4, SlicesSum
  <1>6. jackpot <= a
    BY <1>3 DEF JackpotIsPaidFor
  <1>7. jackpot' <= b
    BY <1>1, <1>5, <1>6
  <1>8. QED
    BY <1>4, <1>7 DEF JackpotIsPaidFor

LEMMA SliceKept ==
  ASSUME TicksDoNotOverlap, DailyInv, DailyInv', SliceInv, DailyNext
  PROVE  SliceInv'
  <1>1. TypeOK /\ TypeOK' /\ jackpot \in Nat /\ jackpotSlice \in [Pools -> Nat] /\ jackpotSlice' \in [Pools -> Nat]
        /\ contributed \in [Pools -> BOOLEAN]
    BY DEF DailyInv, DailyTyped, TypeOK
  <1>2. ASSUME UNCHANGED <<jackpot, contributed>>, \A p \in Pools : jackpotSlice[p] <= jackpotSlice'[p],
               NEW s \in Settlers, settler'[s] = settler[s], settler[s].stage = "transfer"
        PROVE  ~contributed'[settler'[s].pool] /\ settler'[s].amount <= jackpotSlice'[settler'[s].pool]
    <2>1. settler[s].pool \in Pools /\ settler[s].amount \in Nat
      BY <1>2 DEF DailyInv, DailyTyped, WorkTyped
    <2>2. ~contributed[settler[s].pool] /\ settler[s].amount <= jackpotSlice[settler[s].pool]
      BY <1>2 DEF SliceInv, SliceIsDue
    <2>3. jackpotSlice[settler[s].pool] \in Nat /\ jackpotSlice'[settler[s].pool] \in Nat
          /\ jackpotSlice[settler[s].pool] <= jackpotSlice'[settler[s].pool]
      BY <1>1, <1>2, <2>1
    <2>4. settler[s].amount <= jackpotSlice'[settler[s].pool]
      BY <2>1, <2>2, <2>3
    <2>5. QED
      BY <1>2, <2>2, <2>4
  <1>3. CASE OnlyPlayers
    <2>1. /\ UNCHANGED <<jackpot, contributed, settler>>
          /\ \A p \in Pools : jackpotSlice[p] <= jackpotSlice'[p]
      BY <1>3, AroundKeeps DEF Around
    <2>2. SliceIsDue'
      BY <1>2, <2>1 DEF SliceIsDue
    <2>3. QED
      BY <2>1, <2>2, QuietJackpot DEF SliceInv
  <1>4. CASE Kill \/ TickFails
    <2>1. /\ UNCHANGED <<jackpot, contributed, jackpotSlice>>
          /\ \A s \in Settlers : settler'[s] = settler[s] \/ settler'[s] = Resting
      BY <1>4, FailuresLose DEF Losing, DailyInv
    <2>2. \A p \in Pools : jackpotSlice[p] <= jackpotSlice'[p]
      BY <1>1, <2>1
    <2>3. Resting.stage # "transfer"
      BY DEF Resting
    <2>4. SliceIsDue'
      BY <1>2, <2>1, <2>2, <2>3 DEF SliceIsDue
    <2>5. QED
      BY <2>1, <2>2, <2>4, QuietJackpot DEF SliceInv
  <1>5. CASE \E s \in Settlers : (\E p \in Pools : StartSettle(s, p)) \/ SettlerStep(s)
    <2>1. PICK s \in Settlers : (\E p \in Pools : StartSettle(s, p)) \/ SettlerStep(s)
      BY <1>5
    <2>2. \A t \in Settlers : t = s
      BY DEF TicksDoNotOverlap
    <2>3. UNCHANGED jackpotSlice
      BY <2>1, StartEffect, ReadEffect, EmptyEffect, MarkEffect, SliceEffect, TransferEffect,
         RankEffect, CreditEffect, RewardedEffect, QualifyEffect, CompleteEffect DEF SettlerStep, Held
    <2>4. \A p \in Pools : jackpotSlice[p] <= jackpotSlice'[p]
      BY <1>1, <2>3
    <2>5. CASE TransferSlice(s)
      <3>1. PICK p \in Pools : p = settler[s].pool
        BY <2>5, TransferEffect
      <3>2. /\ settler[s].stage = "transfer" /\ settler'[s].stage = "idle"
            /\ settler[s].amount \in Nat /\ jackpot' = jackpot + settler[s].amount
            /\ contributed' = [contributed EXCEPT ![p] = TRUE]
        BY <2>5, <3>1, TransferEffect
      <3>3. ~contributed[p] /\ settler[s].amount <= jackpotSlice[p]
        BY <3>1, <3>2 DEF SliceInv, SliceIsDue
      <3>4. \A q \in Pools : SliceOf(q) <= SliceOf(q)'
        BY <1>1, <2>3, <3>2, <3>3 DEF SliceOf
      <3>5. PICK a \in Int : a = SumFunction([q \in Pools |-> SliceOf(q)])
        BY <1>1, <3>4, SlicesSum
      <3>6. SumFunction([q \in Pools |-> SliceOf(q)'])
              = SumFunction([q \in Pools |-> SliceOf(q)]) + jackpotSlice[p]
        BY <1>1, <2>3, <3>2, <3>3, SliceMoves
      <3>7. jackpot <= a
        BY <3>5 DEF SliceInv, JackpotIsPaidFor
      <3>8. jackpot' <= a + jackpotSlice[p]
        BY <1>1, <3>2, <3>3, <3>7
      <3>9. JackpotIsPaidFor'
        BY <3>5, <3>6, <3>8 DEF JackpotIsPaidFor
      <3>10. SliceIsDue'
        BY <2>2, <3>2 DEF SliceIsDue
      <3>11. QED
        BY <3>9, <3>10 DEF SliceInv
    <2>6. CASE ~TransferSlice(s)
      <3>1. UNCHANGED <<jackpot, contributed>>
        BY <2>1, <2>6, StartEffect, ReadEffect, EmptyEffect, MarkEffect, SliceEffect, RankEffect,
           CreditEffect, RewardedEffect, QualifyEffect, CompleteEffect DEF SettlerStep, PayTables
      <3>2. ASSUME settler'[s].stage = "transfer"
            PROVE  ~contributed'[settler'[s].pool] /\ settler'[s].amount <= jackpotSlice'[settler'[s].pool]
        <4>1. ReadSlice(s)
          BY <2>1, <2>6, <3>2, StartEffect, ReadEffect, EmptyEffect, MarkEffect, RankEffect,
             CreditEffect, RewardedEffect, QualifyEffect, CompleteEffect DEF SettlerStep, NextTurn
        <4>2. /\ settler'[s].pool \in Pools /\ ~contributed[settler'[s].pool]
              /\ settler'[s].amount = jackpotSlice[settler'[s].pool]
          BY <3>2, <4>1, SliceEffect
        <4>3. QED
          BY <1>1, <2>3, <3>1, <4>2
      <3>3. SliceIsDue'
        BY <2>2, <3>2 DEF SliceIsDue
      <3>4. QED
        BY <2>4, <3>1, <3>3, QuietJackpot DEF SliceInv
    <2>7. QED
      BY <2>5, <2>6
  <1>6. QED
    BY <1>3, <1>4, <1>5, DailySteps

-----------------------------------------------------------------------------
(* The balances, however many ticks run.                                   *)
LEMMA UnrecordedIsNatural ==
  ASSUME DailyInv, NEW s \in Settlers, NEW u \in Users
  PROVE  Unrecorded(s, u) \in Nat
  <1>1. settler[s].stage = "record" => Reward(s) \in Nat
    BY TurnFacts DEF PayStages
  <1>2. QED
    BY <1>1 DEF Unrecorded

(* A step of one tick changes what is on its way by its own part.          *)
LEMMA OnItsWayMoves ==
  ASSUME DailyInv, DailyInv', NEW s \in Settlers, NEW u \in Users,
         \A t \in Settlers : t # s => settler'[t] = settler[t]
  PROVE  /\ OnItsWay(u) \in Int
         /\ OnItsWay(u)' = OnItsWay(u) + Unrecorded(s, u)' - Unrecorded(s, u)
  <1> DEFINE D == [t \in Settlers |-> Unrecorded(t, u)]
             E == [t \in Settlers |-> Unrecorded(t, u)']
  <1>1. \A t \in Settlers : Unrecorded(t, u) \in Int /\ Unrecorded(t, u)' \in Int
    <2>1. \A t \in Settlers : Unrecorded(t, u) \in Nat
      BY UnrecordedIsNatural
    <2>2. \A t \in Settlers : Unrecorded(t, u)' \in Nat
      <3> SUFFICES ASSUME NEW t \in Settlers PROVE Unrecorded(t, u)' \in Nat
        OBVIOUS
      <3>1. settler'[t].stage = "record" => settler'[t].next \in Nat
        BY DEF DailyInv, DailyTyped, WorkTyped, PayStages
      <3>2. settler'[t].stage = "record" => ComputeDailyReward(settler'[t].next) \in Nat
        BY <3>1, RewardIsNatural
      <3>3. QED
        BY <3>2 DEF Unrecorded, Reward
    <2>3. QED
      BY <2>1, <2>2
  <1>2. \A t \in Settlers : t # s => Unrecorded(t, u)' = Unrecorded(t, u)
    BY DEF Unrecorded, Winner, Reward
  <1>3. /\ \A t \in Settlers : D[t] \in Int /\ E[t] \in Int
        /\ D[s] = Unrecorded(s, u) /\ E[s] = Unrecorded(s, u)'
        /\ \A t \in Settlers \ {s} : E[t] = D[t]
    BY <1>1, <1>2
  <1>4. /\ OnItsWay(u) = SumFunctionOnSet(D, Settlers)
        /\ OnItsWay(u)' = SumFunctionOnSet(E, Settlers)
    BY DEF OnItsWay, SumFunction
  <1> HIDE DEF D, E
  <1>5. SumFunctionOnSet(E, Settlers) = SumFunctionOnSet(D, Settlers) + E[s] - D[s]
    BY <1>3, DailyConstants, SumChanges
  <1>6. SumFunctionOnSet(D, Settlers) \in Int
    BY <1>3, DailyConstants, SumIsInt
  <1>7. QED
    BY <1>3, <1>4, <1>5, <1>6

LEMMA CreditBalances ==
  ASSUME DailyInv, DailyInv', NEW s \in Settlers, CreditWinner(s), NEW u \in Users,
         Book(u) = OpeningBalance[u] + OnItsWay(u)
  PROVE  Book(u)' = OpeningBalance[u] + OnItsWay(u)'
  <1>1. /\ settler[s].stage = "credit" /\ settler[s].stage \in PayStages /\ settler'[s].stage = "record"
        /\ SameTurn(settler[s], settler'[s]) /\ ledger' = ledger
    BY CreditEffect DEF PayTables, PayStages
  <1>2. /\ Winner(s).user \in Users /\ Reward(s) \in Nat
        /\ balance \in [Users -> Int]
    BY <1>1, TurnFacts DEF DailyInv, DailyTyped, TypeOK
  <1>3. balance' = [balance EXCEPT ![Winner(s).user] = balance[Winner(s).user] + Reward(s)]
    BY DEF CreditWinner
  <1>4. \A t \in Settlers : t # s => settler'[t] = settler[t]
    BY SettlerMoves DEF CreditWinner, DailyInv
  <1>5. Unrecorded(s, u) = 0 /\ Unrecorded(s, u)' = IF Winner(s).user = u THEN Reward(s) ELSE 0
    BY <1>1 DEF Unrecorded, Winner, Reward, SameTurn
  <1>6. balance'[u] = balance[u] + IF Winner(s).user = u THEN Reward(s) ELSE 0
    BY <1>2, <1>3
  <1>7. PICK r \in Int : r = IF Winner(s).user = u THEN Reward(s) ELSE 0
    BY <1>2
  <1>8. balance'[u] = balance[u] + r /\ Unrecorded(s, u)' = r
    BY <1>5, <1>6, <1>7
  <1>9. OnItsWay(u) \in Int /\ OnItsWay(u)' = OnItsWay(u) + Unrecorded(s, u)' - Unrecorded(s, u)
    BY <1>4, OnItsWayMoves
  <1>10. SumFunction(Amounts(u))' = SumFunction(Amounts(u)) /\ SumFunction(Amounts(u)) \in Int
    BY <1>1, AmountsAddUp DEF Amounts, DailyInv, DailyTyped
  <1>11. Book(u)' = Book(u) + r /\ Book(u) \in Int
    BY <1>2, <1>8, <1>10 DEF Book
  <1>12. OpeningBalance[u] \in Int
    BY PoolConstants
  <1>13. OnItsWay(u)' = OnItsWay(u) + r
    BY <1>5, <1>7, <1>8, <1>9
  <1>14. QED
    BY <1>7, <1>9, <1>11, <1>12, <1>13

LEMMA RecordBalances ==
  ASSUME DailyInv, DailyInv', NEW s \in Settlers, RecordReward(s), NEW u \in Users,
         Book(u) = OpeningBalance[u] + OnItsWay(u)
  PROVE  Book(u)' = OpeningBalance[u] + OnItsWay(u)'
  <1> DEFINE row == RewardRow(s)
  <1>1. /\ settler[s].stage = "record" /\ settler[s].stage \in PayStages /\ settler'[s].stage = "qualify"
        /\ balance' = balance
    BY RewardedEffect DEF PayStages
  <1>2. /\ Winner(s).user \in Users /\ Reward(s) \in Nat
        /\ balance \in [Users -> Int] /\ TypeOK /\ TypeOK'
    BY <1>1, TurnFacts DEF DailyInv, DailyTyped, TypeOK
  <1>3. /\ row \in Entries /\ row.amount = Reward(s)
        /\ ledger' = [ledger EXCEPT ![Winner(s).user] = Append(ledger[Winner(s).user], row)]
    BY RecordEffect DEF RewardRow
  <1>4. \A t \in Settlers : t # s => settler'[t] = settler[t]
    BY RecordEffect, SettlerMoves DEF DailyInv
  <1>5. Unrecorded(s, u)' = 0 /\ Unrecorded(s, u) = IF Winner(s).user = u THEN Reward(s) ELSE 0
    BY <1>1 DEF Unrecorded
  <1>6. OnItsWay(u) \in Int /\ OnItsWay(u)' = OnItsWay(u) + Unrecorded(s, u)' - Unrecorded(s, u)
    BY <1>4, OnItsWayMoves
  <1>7. SumFunction(Amounts(u)) \in Int /\ OpeningBalance[u] \in Int /\ balance[u] \in Int
    BY <1>2, AmountsAddUp, PoolConstants
  <1> HIDE DEF row
  <1>8. CASE Winner(s).user = u
    <2>1. ledger'[u] = Append(ledger[u], row)
      BY <1>2, <1>3, <1>8 DEF TypeOK
    <2>2. SumFunction(Amounts(u))' = SumFunction(Amounts(u)) + row.amount
      BY <1>2, <1>3, <2>1, AmountsGrow
    <2>3. Book(u)' = Book(u) - Reward(s) /\ Book(u) \in Int
      BY <1>1, <1>2, <1>3, <1>7, <2>2 DEF Book
    <2>4. OnItsWay(u)' = OnItsWay(u) - Reward(s)
      BY <1>2, <1>5, <1>6, <1>8
    <2>5. QED
      BY <1>2, <1>6, <1>7, <2>3, <2>4
  <1>9. CASE Winner(s).user # u
    <2>1. ledger'[u] = ledger[u]
      BY <1>2, <1>3, <1>9 DEF TypeOK
    <2>2. Book(u)' = Book(u)
      BY <1>1, <2>1 DEF Book, Amounts
    <2>3. OnItsWay(u)' = OnItsWay(u)
      BY <1>5, <1>6, <1>9
    <2>4. QED
      BY <2>2, <2>3
  <1>10. QED
    BY <1>8, <1>9

LEMMA BalanceKept ==
  ASSUME DailyInv, DailyInv', BalanceInv, DailyNext
  PROVE  BalanceInv'
  <1> SUFFICES ASSUME failures' = 0, NEW u \in Users
               PROVE  Book(u)' = OpeningBalance[u] + OnItsWay(u)'
    BY DEF BalanceInv
  <1>1. failures \in Nat /\ failures' \in Nat
    BY DEF DailyInv, DailyTyped
  <1>2. CASE OnlyPlayers
    <2>1. failures' = failures /\ settler' = settler /\ Book(u)' = Book(u)
      BY <1>2, AroundKeeps DEF Around, BooksFollow
    <2>2. OnItsWay(u)' = OnItsWay(u)
      BY <2>1 DEF OnItsWay, Unrecorded, Winner, Reward
    <2>3. QED
      BY <2>1, <2>2 DEF BalanceInv
  <1>3. CASE Kill \/ TickFails
    BY <1>1, <1>3, FailuresLose DEF Losing, DailyInv
  <1>4. CASE \E s \in Settlers : (\E p \in Pools : StartSettle(s, p)) \/ SettlerStep(s)
    <2>1. PICK s \in Settlers : (\E p \in Pools : StartSettle(s, p)) \/ SettlerStep(s)
      BY <1>4
    <2>2. UNCHANGED failures
      BY <2>1, StartEffect, ReadEffect, EmptyEffect, MarkEffect, SliceEffect, TransferEffect,
         RankEffect, CreditEffect, RewardedEffect, QualifyEffect, CompleteEffect DEF SettlerStep, Held
    <2>3. Book(u) = OpeningBalance[u] + OnItsWay(u)
      BY <2>2 DEF BalanceInv
    <2>4. CASE CreditWinner(s) \/ RecordReward(s)
      BY <2>3, <2>4, CreditBalances, RecordBalances
    <2>5. CASE ~CreditWinner(s) /\ ~RecordReward(s)
      <3>1. settler[s].stage # "record" /\ settler'[s].stage # "record"
        BY <2>1, <2>5, StartEffect, ReadEffect, EmptyEffect, MarkEffect, SliceEffect, TransferEffect,
           RankEffect, QualifyEffect, CompleteEffect DEF SettlerStep, NextTurn
      <3>2. UNCHANGED <<balance, ledger>>
        BY <2>1, <2>5 DEF SettlerStep, StartSettle, ReadParticipants, SettleEmpty, RankWinner, ReadQualification,
           WriteQualification, MarkSettled, ReadSlice, TransferSlice, vars
      <3>3. \E next : SettlerGoes(s, next)
        BY <2>1, <2>5, NextWinnerIsOnward DEF SettlerStep, StartSettle, ReadParticipants, SettleEmpty, RankWinner, PayStage,
           ReadQualification, WriteQualification, MarkSettled, ReadSlice, TransferSlice
      <3>4. \A t \in Settlers : t # s => settler'[t] = settler[t]
        BY <3>3, SettlerMoves DEF DailyInv
      <3>5. OnItsWay(u) \in Int /\ OnItsWay(u)' = OnItsWay(u) + Unrecorded(s, u)' - Unrecorded(s, u)
        BY <3>4, OnItsWayMoves
      <3>6. Unrecorded(s, u) = 0 /\ Unrecorded(s, u)' = 0
        BY <3>1 DEF Unrecorded
      <3>7. OnItsWay(u)' = OnItsWay(u)
        BY <3>5, <3>6
      <3>8. Book(u)' = Book(u)
        BY <3>2, SameBooks DEF BooksFollow
      <3>9. QED
        BY <2>3, <3>7, <3>8
    <2>6. QED
      BY <2>4, <2>5
  <1>5. QED
    BY <1>2, <1>3, <1>4, DailySteps

-----------------------------------------------------------------------------
(* Together, and what follows from it.                                     *)
LEMMA NothingAtFirst ==
  ASSUME DailyInit
  PROVE  /\ \A u \in Users, p \in Pools : rank[p][u] = 0 /\ RewardRows(u, p) = {} /\ ~Finished(u, p)
         /\ \A s \in Settlers : settler[s] = Resting
         /\ \A p \in Pools : status[p] # "SETTLED"
         /\ failures = 0 /\ (\A p \in Pools : reopened[p] = 0)
         /\ jackpot = 0 /\ (\A p \in Pools : ~contributed[p])
         /\ \A u \in Users : completions[u] = 0 /\ balance[u] = OpeningBalance[u] /\ ledger[u] = <<>>
  BY DEF DailyInit, Init, RewardRows, Finished, NotPlayed

LEMMA SettledInvAtFirst ==
  ASSUME DailyInit
  PROVE  SettledInv
  <1>1. \A s \in Settlers : settler[s].stage = "idle"
    BY NothingAtFirst DEF Resting
  <1>2. WorkIsOpen /\ RankInv
    BY <1>1, NothingAtFirst DEF WorkIsOpen, Working, RankInv, PayStages
  <1>3. RowsInv
    <2>1. \A u \in Users, p \in Pools : Cardinality(RewardRows(u, p)) = 0
      BY NothingAtFirst, FS_EmptySet
    <2>2. \A u \in Users, p \in Pools : Runs(p, Passed(u, p)) \in Nat
      BY NothingAtFirst DEF Runs
    <2>3. QED
      BY <2>1, <2>2 DEF RowsInv
  <1>4. CompletionsInv
    <2>1. ASSUME NEW u \in Users
          PROVE  SumFunction([p \in Pools |-> CompletionsDue(u, p)]) = 0
      <3> DEFINE D == [p \in Pools |-> CompletionsDue(u, p)]
      <3>1. \A p \in Pools : D[p] = 0
        BY NothingAtFirst DEF CompletionsDue
      <3>2. SumFunction(D) = SumFunctionOnSet(D, Pools)
        BY DEF SumFunction
      <3> HIDE DEF D
      <3>3. SumFunctionOnSet(D, Pools) = 0
        BY <3>1, FiniteTables, SumOfZeros
      <3>4. QED
        BY <3>2, <3>3 DEF D
    <2>2. \A u \in Users : completions[u] = 0
      BY NothingAtFirst
    <2>3. QED
      BY <1>1, <2>1, <2>2 DEF CompletionsInv
  <1>5. ExactInv
    BY <1>1, NothingAtFirst DEF ExactInv, ExactAt, NothingPaid, NoReward, PayStages
  <1>6. SliceInv
    <2> DEFINE D == [p \in Pools |-> SliceOf(p)]
    <2>1. \A p \in Pools : D[p] = 0
      BY NothingAtFirst DEF SliceOf
    <2>2. SumFunction(D) = SumFunctionOnSet(D, Pools)
      BY DEF SumFunction
    <2> HIDE DEF D
    <2>3. SumFunctionOnSet(D, Pools) = 0
      BY <2>1, FiniteTables, SumOfZeros
    <2>4. jackpot <= SumFunction(D)
      BY <2>2, <2>3, NothingAtFirst
    <2>5. QED
      BY <1>1, <2>4 DEF SliceInv, JackpotIsPaidFor, SliceIsDue, D
  <1>7. QED
    BY <1>2, <1>3, <1>4, <1>5, <1>6 DEF SettledInv

LEMMA BalanceInvAtFirst ==
  ASSUME DailyInit
  PROVE  BalanceInv
  <1> SUFFICES ASSUME NEW u \in Users PROVE Book(u) = OpeningBalance[u] + OnItsWay(u)
    BY DEF BalanceInv
  <1>1. balance[u] = OpeningBalance[u] /\ OpeningBalance[u] \in Int /\ ledger[u] = <<>>
    BY NothingAtFirst, PoolConstants
  <1>2. SumFunction(Amounts(u)) = 0
    <2>1. DOMAIN Amounts(u) = {}
      BY <1>1 DEF Amounts
    <2>2. SumFunction(Amounts(u)) = SumFunctionOnSet(Amounts(u), {})
      BY <2>1 DEF SumFunction
    <2>3. QED
      BY <2>2, SumEmpty
  <1>3. OnItsWay(u) = 0
    <2> DEFINE D == [s \in Settlers |-> Unrecorded(s, u)]
    <2>1. \A s \in Settlers : D[s] = 0
      BY NothingAtFirst DEF Unrecorded, Resting
    <2>2. SumFunction(D) = SumFunctionOnSet(D, Settlers)
      BY DEF SumFunction
    <2>3. OnItsWay(u) = SumFunction(D)
      BY DEF OnItsWay
    <2> HIDE DEF D
    <2>4. QED
      BY <2>1, <2>2, <2>3, DailyConstants, SumOfZeros
  <1>4. QED
    BY <1>1, <1>2, <1>3 DEF Book

LEMMA BalanceStutters ==
  ASSUME UNCHANGED dailyVars, DailyInv, DailyInv', BalanceInv
  PROVE  BalanceInv'
  <1>1. UNCHANGED <<balance, ledger, failures, settler>>
    BY DEF dailyVars, vars, daily
  <1>2. ASSUME NEW u \in Users, NEW s \in Settlers PROVE Unrecorded(s, u)' = Unrecorded(s, u)
    <2>1. Winner(s)' = Winner(s) /\ Reward(s)' = Reward(s) /\ settler'[s] = settler[s]
      BY <1>1 DEF Winner, Reward
    <2>2. QED
      BY <2>1 DEF Unrecorded
  <1>3. ASSUME NEW u \in Users PROVE OnItsWay(u)' = OnItsWay(u) /\ Book(u)' = Book(u)
    <2>1. [s \in Settlers |-> Unrecorded(s, u)'] = [s \in Settlers |-> Unrecorded(s, u)]
      BY <1>2
    <2>2. OnItsWay(u)' = SumFunction([s \in Settlers |-> Unrecorded(s, u)'])
      BY DEF OnItsWay
    <2>3. OnItsWay(u) = SumFunction([s \in Settlers |-> Unrecorded(s, u)])
      BY DEF OnItsWay
    <2>4. OnItsWay(u)' = OnItsWay(u)
      BY <2>1, <2>2, <2>3, Zenon
    <2>5. Book(u)' = Book(u)
      BY <1>1, SameBooks DEF BooksFollow
    <2>6. QED
      BY <2>4, <2>5
  <1>4. QED
    BY <1>1, <1>3 DEF BalanceInv

LEMMA SettledInvStutters ==
  ASSUME UNCHANGED dailyVars, DailyInv, DailyInv', SettledInv
  PROVE  SettledInv'
  <1>1. UNCHANGED vars /\ UNCHANGED daily
    BY DEF dailyVars
  <1>2. /\ UNCHANGED <<balance, ledger, status, jackpotSlice, roster>>
        /\ UNCHANGED <<results, rank, contributed, jackpot, completions, settler, failures, reopened, undone>>
    BY <1>1 DEF vars, daily
  <1>3. WorkIsOpen' /\ RankInv'
    BY <1>2 DEF SettledInv, WorkIsOpen, RankInv, RanksDiffer, RankedSoFar
  <1>4. \A u \in Users, p \in Pools : /\ RewardRows(u, p)' = RewardRows(u, p)
                                     /\ Passed(u, p)' = Passed(u, p) /\ Counted(u, p)' = Counted(u, p)
                                     /\ Finished(u, p)' = Finished(u, p)
    BY <1>2 DEF RewardRows, Passed, Counted, PaidBy, CountedBy, Finished
  <1>5. RowsInv'
    BY <1>2, <1>4 DEF SettledInv, RowsInv, Runs
  <1>6. CompletionsInv'
    BY <1>2, <1>4 DEF SettledInv, CompletionsInv, CompletionsDue, Runs
  <1>7. ExactInv'
    <2>1. \A p \in Pools : Grows(p) /\ jackpotSlice[p] <= jackpotSlice'[p]
      BY <1>2, SameGrows, SameSlices DEF DailyInv, DailyTyped
    <2>2. \A p \in Pools : Moves(p)
      BY <1>2 DEF Moves
    <2>3. BooksFollow /\ \A u \in Users : RowsKept(u)
      BY <1>2, SameBooks, SameRows
    <2>4. Around
      <3>1. \A p \in Pools, u \in Users : Finished(u, p) => Finished(u, p)'
        BY <1>2 DEF Finished
      <3>2. UNCHANGED <<settler, rank, completions, contributed, jackpot, failures>>
            /\ \A p \in Pools : age[p] = "expired" => age'[p] = "expired"
        BY <1>1 DEF daily
      <3>3. QED
        BY <2>1, <2>2, <2>3, <3>1, <3>2 DEF Around
    <2>5. ASSUME NEW p \in Pools, failures' = 0, reopened'[p] = 0
          PROVE  ExactAt(p)'
      <3>1. failures = 0 /\ reopened[p] = 0
        BY <1>2, <2>5
      <3>2. ExactAt(p)
        BY <3>1 DEF SettledInv, ExactInv
      <3>3. QED
        BY <2>4, <2>5, <3>1, <3>2, ExactAround
    <2>6. QED
      BY <2>5 DEF ExactInv
  <1>8. SliceInv'
    BY <1>2 DEF SettledInv, SliceInv, JackpotIsPaidFor, SliceIsDue, SliceOf
  <1>9. QED
    BY <1>3, <1>5, <1>6, <1>7, <1>8 DEF SettledInv

LEMMA SettledInvKept ==
  ASSUME TicksDoNotOverlap, DailyInv, DailyInv', SettledInv, [DailyNext]_dailyVars
  PROVE  SettledInv'
  <1>1. CASE DailyNext
    <2>1. WorkIsOpen /\ RankInv /\ RowsInv /\ CompletionsInv /\ ExactInv /\ SliceInv
      BY DEF SettledInv
    <2>2. WorkIsOpen'
      BY <1>1, <2>1, WorkIsOpenKept
    <2>3. RankInv'
      BY <1>1, <2>1, RanksKept
    <2>4. RowsInv'
      BY <1>1, <2>1, RowsKeptBound
    <2>5. CompletionsInv'
      BY <1>1, <2>1, CompletionsKept
    <2>6. ExactInv'
      BY <1>1, <2>1, ExactKept
    <2>7. SliceInv'
      BY <1>1, <2>1, SliceKept
    <2>8. QED
      BY <2>2, <2>3, <2>4, <2>5, <2>6, <2>7 DEF SettledInv
  <1>2. CASE UNCHANGED dailyVars
    BY <1>2, SettledInvStutters
  <1>3. QED
    BY <1>1, <1>2

(* What the invariants hold of every reachable state.                      *)
LEMMA SettledInvHolds ==
  ASSUME TicksDoNotOverlap
  PROVE  DailySpec => [](DailyInv /\ SettledInv)
  <1>1. DailyInit => DailyInv /\ SettledInv
    BY DailyInitHolds, SettledInvAtFirst
  <1>2. DailyInv /\ SettledInv /\ [DailyNext]_dailyVars => (DailyInv /\ SettledInv)'
    BY DailyStepKeeps, SettledInvKept
  <1>3. QED
    BY <1>1, <1>2, PTL DEF DailySpec

(* Debits and rewards lose no update of a balance, however many settlement *)
(* ticks overlap: what its ledger does not explain is on its way.          *)
THEOREM BalancesFollowLedgers == DailySpec => []BalanceInv
  <1>1. DailyInit => DailyInv /\ BalanceInv
    BY DailyInitHolds, BalanceInvAtFirst
  <1>2. ASSUME DailyInv, BalanceInv, [DailyNext]_dailyVars
        PROVE  (DailyInv /\ BalanceInv)'
    <2>1. DailyInv'
      BY <1>2, DailyStepKeeps
    <2>2. CASE DailyNext
      BY <1>2, <2>1, <2>2, BalanceKept
    <2>3. CASE UNCHANGED dailyVars
      BY <1>2, <2>1, <2>3, BalanceStutters
    <2>4. QED
      BY <1>2, <2>1, <2>2, <2>3
  <1>3. DailyInv /\ BalanceInv /\ [DailyNext]_dailyVars => (DailyInv /\ BalanceInv)'
    BY <1>2
  <1>4. QED
    BY <1>1, <1>3, PTL DEF DailySpec

(* A reward goes only to a player of the pool who finished or whose time   *)
(* is over, and no two players of a settled pool hold the same rank.       *)
THEOREM RewardsGoToFinishers ==
  ASSUME TicksDoNotOverlap
  PROVE  DailySpec => []RewardsAreEarned
  <1>1. DailyInv /\ SettledInv => RewardsAreEarned
    BY DEF DailyInv, SeatsInv, SettledInv, RankInv, RanksDiffer, RewardsAreEarned
  <1>2. QED
    BY <1>1, SettledInvHolds, PTL

(* A settlement pays a player at most once each time it runs, and counts   *)
(* the pool for a player who finished at most as often.                    *)
THEOREM SettlementsPayOnce ==
  ASSUME TicksDoNotOverlap
  PROVE  DailySpec => []PaidOncePerRun
  <1>1. ASSUME DailyInv, SettledInv PROVE PaidOncePerRun
    <2> SUFFICES ASSUME NEW u \in Users
                 PROVE  /\ \A p \in Pools : Cardinality(RewardRows(u, p)) <= 1 + Repeats(p)
                        /\ completions[u] <= SumFunction([p \in Pools |-> IF Finished(u, p) THEN 1 + Repeats(p) ELSE 0])
      BY DEF PaidOncePerRun
    <2>1. failures \in Nat /\ reopened \in [Pools -> Nat] /\ completions[u] \in Nat
      BY <1>1 DEF DailyInv, DailyTyped
    <2>2. \A p \in Pools, b \in BOOLEAN : Runs(p, b) \in Nat /\ Runs(p, b) <= 1 + Repeats(p) /\ Repeats(p) \in Nat
      BY <2>1 DEF Runs, Repeats
    <2>3. ASSUME NEW p \in Pools PROVE Cardinality(RewardRows(u, p)) <= 1 + Repeats(p)
      <3>1. Cardinality(RewardRows(u, p)) <= Runs(p, Passed(u, p))
        BY <1>1 DEF SettledInv, RowsInv
      <3>2. Cardinality(RewardRows(u, p)) \in Nat
        BY <1>1, RewardRowsFinite DEF DailyInv, DailyTyped
      <3>3. Passed(u, p) \in BOOLEAN
        BY DEF Passed
      <3>4. QED
        BY <2>2, <3>1, <3>2, <3>3
    <2>4. completions[u] <= SumFunction([p \in Pools |-> IF Finished(u, p) THEN 1 + Repeats(p) ELSE 0])
      <3> DEFINE D == [p \in Pools |-> CompletionsDue(u, p)]
                 E == [p \in Pools |-> IF Finished(u, p) THEN 1 + Repeats(p) ELSE 0]
      <3>1. completions[u] <= SumFunction(D)
        BY <1>1 DEF SettledInv, CompletionsInv
      <3>2. ASSUME NEW p \in Pools PROVE D[p] \in Int /\ E[p] \in Int /\ D[p] <= E[p]
        <4>1. Counted(u, p) \in BOOLEAN
          BY DEF Counted
        <4>2. Runs(p, Counted(u, p)) \in Nat /\ Runs(p, Counted(u, p)) <= 1 + Repeats(p) /\ Repeats(p) \in Nat
          BY <2>2, <4>1
        <4>3. QED
          BY <4>2 DEF CompletionsDue
      <3>3. SumFunction(D) = SumFunctionOnSet(D, Pools) /\ SumFunction(E) = SumFunctionOnSet(E, Pools)
        BY DEF SumFunction
      <3> HIDE DEF D, E
      <3>4. SumFunctionOnSet(D, Pools) <= SumFunctionOnSet(E, Pools)
        BY <3>2, FiniteTables, SumGrows
      <3>5. SumFunctionOnSet(D, Pools) \in Int /\ SumFunctionOnSet(E, Pools) \in Int
        BY <3>2, FiniteTables, SumIsInt
      <3>6. completions[u] <= SumFunction(E)
        BY <2>1, <3>1, <3>3, <3>4, <3>5
      <3>7. QED
        BY <3>6 DEF E
    <2>5. QED
      BY <2>3, <2>4
  <1>2. DailyInv /\ SettledInv => PaidOncePerRun
    BY <1>1
  <1>3. QED
    BY <1>2, SettledInvHolds, PTL

(* A settlement that nothing disturbed paid exactly the reward table.      *)
THEOREM UndisturbedSettlementIsExact ==
  ASSUME TicksDoNotOverlap
  PROVE  DailySpec => []SettledExactly
  <1>1. ASSUME DailyInv, SettledInv PROVE SettledExactly
    <2>1. DailyTypeOK
      BY <1>1 DEF DailyInv, DailyTyped, DailyTypeOK, WorkTyped, SettlerStages, AgentStages
    <2>2. ASSUME NEW p \in Pools, status[p] = "SETTLED", Repeats(p) = 0
          PROVE  ExactPayment(p)
      <3>1. failures = 0 /\ reopened[p] = 0
        BY <1>1, <2>2 DEF DailyInv, DailyTyped, Repeats
      <3>2. PaidAsRanked(p)
        BY <1>1, <2>2, <3>1 DEF SettledInv, ExactInv, ExactAt
      <3>3. QED
        BY <1>1, <3>2, PaidAsRankedIsExact
    <2>3. QED
      BY <2>1, <2>2 DEF SettledExactly, ExactPayment
  <1>2. DailyInv /\ SettledInv => SettledExactly
    BY <1>1
  <1>3. QED
    BY <1>2, SettledInvHolds, PTL

(* Balances follow the ledgers while nothing failed, and the weekly        *)
(* jackpot holds no more than the slices of the pools that gave theirs.    *)
THEOREM DailyLedgersAgree ==
  ASSUME TicksDoNotOverlap
  PROVE  DailySpec => []LedgersAgree
  <1>1. ASSUME DailyInv, SettledInv, BalanceInv PROVE LedgersAgree
    <2>1. ASSUME failures = 0, NEW u \in Users
          PROVE  balance[u] = OpeningBalance[u] + SumFunction(Amounts(u))
                              + SumFunction([s \in Settlers |-> Unrecorded(s, u)])
      <3> DEFINE D == [s \in Settlers |-> Unrecorded(s, u)]
      <3>1. balance[u] \in Int /\ OpeningBalance[u] \in Int /\ SumFunction(Amounts(u)) \in Int
        BY <1>1, AmountsAddUp, PoolConstants DEF DailyInv, DailyTyped, TypeOK
      <3>2. balance[u] - SumFunction(Amounts(u)) = OpeningBalance[u] + SumFunction(D)
        BY <1>1, <2>1 DEF BalanceInv, Book, OnItsWay
      <3>3. SumFunction(D) \in Int
        <4>1. \A s \in Settlers : D[s] \in Int
          BY <1>1, UnrecordedIsNatural
        <4>2. SumFunction(D) = SumFunctionOnSet(D, Settlers)
          BY DEF SumFunction
        <4> HIDE DEF D
        <4>3. QED
          BY <4>1, <4>2, DailyConstants, SumIsInt
      <3> HIDE DEF D
      <3>4. balance[u] = OpeningBalance[u] + SumFunction(Amounts(u)) + SumFunction(D)
        BY <3>1, <3>2, <3>3
      <3>5. QED
        BY <3>4 DEF D
    <2>2. jackpot <= SumFunction([p \in Pools |-> IF contributed[p] THEN jackpotSlice[p] ELSE 0])
      BY <1>1 DEF SettledInv, SliceInv, JackpotIsPaidFor, SliceOf
    <2>3. QED
      BY <2>1, <2>2 DEF LedgersAgree
  <1>2. DailyInv /\ SettledInv /\ BalanceInv => LedgersAgree
    BY <1>1
  <1>3. QED
    BY <1>2, SettledInvHolds, BalancesFollowLedgers, PTL
=============================================================================
