---------------------------- MODULE CreditBridge ----------------------------
(***************************************************************************)
(* Credits for OKB and OKB for credits: the swap contracts                 *)
(* (ArcadeContracts), the deposit dialog that sends a swap and has it      *)
(* credited, the backend that verifies swaps and pays withdrawals out of   *)
(* the vault (routes/credits.ts, services/swapVerify.ts, okbPayout.ts),    *)
(* and the price both sides go by (okbPrice.ts, priceSync.ts).             *)
(*                                                                         *)
(* Every await of a request lets the others, the chain and the price sync  *)
(* run.  A request goes on when its caller has gone.                       *)
(***************************************************************************)
EXTENDS ArcadeContracts, Integers, Functions

CONSTANTS
  None,
  Requests,      \* the requests the backend may handle at one time
  Txs,           \* the swaps that are ever made
  Withdrawals,   \* the credits a player asks to withdraw
  Opening,       \* the balance of every account at the beginning
  VaultOpening,  \* the OKB in the vault and in the deployer's wallet
  MaxPayouts,    \* bound: payouts that are ever sent
  MaxRetries,    \* bound: deposits the dialog posts for one swap
  MaxFailures    \* bound: how often the backend dies

(* A mined swap: who paid what for what, at which price, in a block with   *)
(* which price, and what the pool and the hook took of it.                 *)
Swaps == [by : Accounts, value : Amounts, minted : Nat, at : Prices,
          blockPrice : Prices \cup {None}, pooled : BOOLEAN, routed : BOOLEAN]

(* Credits are 32-bit integers, so there is a largest amount.              *)
ASSUME BridgeConstants ==
  /\ IsFiniteSet(Requests) /\ IsFiniteSet(Txs) /\ Requests # {}
  /\ None \notin Nat /\ None \notin Swaps
  /\ Withdrawals \subseteq Nat \ {0}
  /\ \E most \in Withdrawals \cup {0} : \A c \in Withdrawals : c <= most
  /\ {Opening, VaultOpening, MaxPayouts, MaxRetries, MaxFailures} \subseteq Nat

VARIABLES
  swap,        \* the mined swaps
  spot,        \* external: the market price
  cached,      \* okbPrice's cache, with its freshness
  syncing,     \* syncOkbPriceToRouter: the prices it is about to set
  dialog,      \* the deposit dialog
  balance,     \* User.creditBalance
  deposited,   \* the DEPOSIT rows of each swap
  withdrawn,   \* the WITHDRAW rows of each account, summed
  request,
  payouts,     \* the transfers that were sent and are not mined
  wallet,      \* the OKB of the deployer's wallet
  outcome,     \* history: how many payouts were mined, reverted, sent unknown
  failures

chain == <<contracts, swap, wallet>>
prices == <<spot, cached, syncing>>
books == <<balance, deposited, withdrawn>>
bridgeVars == <<chain, prices, dialog, books, request, payouts, outcome, failures>>

Idle == [stage |-> "idle"]
Closed == [stage |-> "closed"]
DepositStages == {"check", "verify", "credit", "record", "refused", "known"}
WithdrawStages == {"balance", "price", "treasury", "debit", "send", "submit", "refund", "log"}

BridgeTypeOK ==
  /\ ContractsTypeOK
  /\ swap \in [Txs -> Swaps \cup {None}]
  /\ spot \in Prices
  /\ cached \in [price : Prices \cup {None}, fresh : BOOLEAN]
  /\ syncing \subseteq Prices
  /\ dialog.stage \in {"closed", "open", "sent", "confirmed", "failed"}
  /\ balance \in [Accounts -> Int]
  /\ deposited \in [Txs -> Nat] /\ withdrawn \in [Accounts -> Nat]
  /\ \A r \in Requests : request[r].stage \in {"idle"} \cup DepositStages \cup WithdrawStages
  /\ \A p \in payouts : p.from \in {"vault", "wallet"} /\ p.amount \in Nat
  /\ wallet \in Nat
  /\ outcome \in [mined : Nat, reverted : Nat, unknown : Nat, logged : Nat]
  /\ failures \in 0 .. MaxFailures

BridgeInit ==
  /\ ContractsInit
  /\ swap = [t \in Txs |-> None]
  /\ spot \in Prices
  /\ cached = [price |-> None, fresh |-> FALSE]
  /\ syncing = {}
  /\ dialog = Closed
  /\ balance = [a \in Accounts |-> Opening]
  /\ deposited = [t \in Txs |-> 0]
  /\ withdrawn = [a \in Accounts |-> 0]
  /\ request = [r \in Requests |-> Idle]
  /\ payouts = {}
  /\ wallet = VaultOpening
  /\ outcome = [mined |-> 0, reverted |-> 0, unknown |-> 0, logged |-> 0]
  /\ failures = 0

-----------------------------------------------------------------------------
(* The price: getOkbUsdPrice and the worker that sets it on the router.    *)

OkbFor(amount, atPrice) == (amount * CreditScale) \div (atPrice * CREDITS_PER_USD)
CreditsFor(value, atPrice) == (value * atPrice * CREDITS_PER_USD) \div CreditScale

(* A fresh price is taken from the cache, else a feed is asked; when both  *)
(* feeds fail an old price serves, and without one there is none.          *)
Quotes ==
  IF cached.fresh THEN {cached.price} ELSE {spot} \cup {cached.price}

GetOkbUsdPrice(p) ==
  /\ p \in Quotes
  /\ cached' = IF p = spot /\ ~cached.fresh THEN [price |-> p, fresh |-> TRUE] ELSE cached

MarketMoves ==
  /\ spot' \in Prices \ {spot}
  /\ cached' = [cached EXCEPT !.fresh = FALSE]
  /\ UNCHANGED <<chain, syncing, dialog, books, request, payouts, outcome, failures>>

(* Whoever asks what a withdrawal or a deposit is worth fills the cache.   *)
QuotePrice ==
  /\ \E p \in Quotes \ {None} : GetOkbUsdPrice(p)
  /\ UNCHANGED <<chain, spot, syncing, dialog, books, request, payouts, outcome, failures>>

(* The worker runs every minute, whether or not the last run is through.   *)
SyncReads ==
  /\ \E p \in Quotes \ {None, price} : GetOkbUsdPrice(p) /\ syncing' = syncing \cup {p}
  /\ UNCHANGED <<chain, spot, dialog, books, request, payouts, outcome, failures>>

(* The transaction is mined, in the block of whatever swaps it meets.      *)
SyncIsMined ==
  /\ \E p \in syncing : SetOkbUsdPrice(p) /\ syncing' = syncing \ {p}
  /\ UNCHANGED <<swap, wallet, spot, cached, dialog, books, request, payouts, outcome, failures>>

MineBlock ==
  /\ \E t \in Txs : swap[t] # None /\ swap[t].blockPrice = None
  /\ swap' = [t \in Txs |-> IF swap[t] = None \/ swap[t].blockPrice # None THEN swap[t]
                            ELSE [swap[t] EXCEPT !.blockPrice = price]]
  /\ UNCHANGED <<contracts, wallet, prices, dialog, books, request, payouts, outcome, failures>>

LiquidityChanges ==
  /\ \E a \in Amounts \cup {0} : a # liquidity /\ ChangeLiquidity(a)
  /\ UNCHANGED <<swap, wallet, prices, dialog, books, request, payouts, outcome, failures>>

VaultIsFunded ==
  /\ vault.deposited = 0
  /\ DepositToVault(VaultOpening)
  /\ UNCHANGED <<swap, wallet, prices, dialog, books, request, payouts, outcome, failures>>

-----------------------------------------------------------------------------
(* DepositModal.                                                           *)
DialogElse == <<wallet, prices, books, payouts, outcome, failures>>

OpenDialog(u) ==
  /\ dialog = Closed
  /\ \E a \in Amounts : dialog' = [stage |-> "open", by |-> u, amount |-> a, rate |-> None]
  /\ UNCHANGED <<contracts, swap, request, DialogElse>>

(* GET /deposit/config, every minute: the price of the feeds, or when they *)
(* tell none the one on the router, which may not be set either.           *)
LoadConfig ==
  /\ dialog.stage = "open"
  /\ \E p \in Quotes :
       /\ GetOkbUsdPrice(p)
       /\ dialog' = [dialog EXCEPT !.rate =
            IF p # None THEN p ELSE IF price > 0 THEN price ELSE None]
  /\ UNCHANGED <<contracts, swap, request, wallet, spot, syncing, books, payouts, outcome,
                 failures>>

(* Until the backend answers, the dialog goes by the router itself.        *)
ReadRouterPrice ==
  /\ dialog.stage = "open"
  /\ dialog.rate = None /\ price > 0
  /\ dialog' = [dialog EXCEPT !.rate = price]
  /\ UNCHANGED <<contracts, swap, request, DialogElse>>

(* Closing forgets the transaction.                                        *)
CloseDialog ==
  /\ dialog.stage \in {"open", "sent", "confirmed", "failed"}
  /\ dialog' = Closed
  /\ UNCHANGED <<contracts, swap, request, DialogElse>>

(* The amount can be edited while the swap is under way.                   *)
EditAmount ==
  /\ dialog.stage \in {"sent", "failed"}
  /\ \E a \in Amounts \ {dialog.amount} : dialog' = [dialog EXCEPT !.amount = a]
  /\ UNCHANGED <<contracts, swap, request, DialogElse>>

(* The price shown may not be the router's any more, or not yet.           *)
WorthConverting == dialog.rate # None /\ CreditsFor(dialog.amount, dialog.rate) > 0

(* A post of theirs the page waits for keeps the button disabled.          *)
Posting(u) ==
  \E r \in Requests : request[r].stage \in DepositStages /\ request[r].by = u /\ request[r].heard

Convert ==
  /\ dialog.stage = "open"
  /\ WorthConverting
  /\ ~Posting(dialog.by)
  /\ \E t \in Txs :
       /\ swap[t] = None
       /\ SwapForCredits(dialog.by, dialog.amount)
       /\ swap' = [swap EXCEPT ![t] =
            [by |-> dialog.by, value |-> dialog.amount, minted |-> ComputeCredits(dialog.amount),
             at |-> price, blockPrice |-> None, pooled |-> liquidity > 0,
             routed |-> HookFee(Spent(dialog.amount)) > 0]]
       /\ dialog' = [stage |-> "sent", by |-> dialog.by, amount |-> dialog.amount, tx |-> t,
                     posts |-> 0]
  /\ UNCHANGED <<request, DialogElse>>

(* The receipt arrives and the effect posts the deposit; after a failed    *)
(* post the player may post again.                                         *)
PostDeposit ==
  /\ \/ dialog.stage = "sent" /\ swap[dialog.tx].blockPrice # None
     \/ dialog.stage = "failed"
  /\ ~Posting(dialog.by)
  /\ dialog.posts < MaxRetries
  /\ \E r \in Requests :
       /\ request[r] = Idle
       /\ request' = [request EXCEPT ![r] =
            [stage |-> "check", by |-> dialog.by, tx |-> dialog.tx, amount |-> dialog.amount,
             read |-> TRUE, heard |-> TRUE]]
  /\ dialog' = [dialog EXCEPT !.stage = "confirmed", !.posts = @ + 1]
  /\ UNCHANGED <<contracts, swap, DialogElse>>

-----------------------------------------------------------------------------
(* POST /api/credits/deposit.                                              *)
DepositElse == <<chain, prices, payouts, outcome, failures>>
Goes(r, next) == request' = [request EXCEPT ![r] = next]
At(r, stage) == request[r].stage = stage

(* An error concerns the dialog that waits for this post.  Credits close   *)
(* the player's dialog whatever it shows: it may have been opened anew.    *)
Waits(r) == dialog.stage = "confirmed" /\ dialog.tx = request[r].tx
ErrorIsShown(r) == dialog' = IF Waits(r) THEN [dialog EXCEPT !.stage = "failed"] ELSE dialog
CreditIsShown(r) ==
  dialog' = IF dialog # Closed /\ dialog.by = request[r].by THEN Closed ELSE dialog

(* The connection is lost: the page hears no answer, the request goes on.  *)
PostIsLost(r) ==
  /\ request[r].stage \in DepositStages
  /\ request[r].heard
  /\ ErrorIsShown(r)
  /\ Goes(r, [request[r] EXCEPT !.heard = FALSE])
  /\ UNCHANGED <<books, DepositElse>>

IsTxAlreadyCredited(t) == deposited[t] > 0

CheckDeposit(r) ==
  /\ At(r, "check")
  /\ Goes(r, [request[r] EXCEPT !.stage =
                IF IsTxAlreadyCredited(request[r].tx) THEN "known" ELSE "verify"])
  /\ UNCHANGED <<dialog, books, DepositElse>>

(* Mutation: the price is the one of now.                                  *)
VerifiedAtPriceOfNow(r, priceIsRead) ==
  LET tx == swap[request[r].tx]
  IN  /\ tx.by = request[r].by
      /\ tx.value = request[r].amount
      /\ tx.pooled =>
           /\ tx.routed
           /\ priceIsRead => tx.minted = ComputeCredits(tx.value)

(* verifySwapCreditTx: the receipt, the sender, the value and the events;  *)
(* and, of a swap through the pool, the credits at the price of its block, *)
(* unless the node fails to tell that price.                               *)
Verified(r, priceIsRead) ==
  LET tx == swap[request[r].tx]
  IN  /\ tx.by = request[r].by
      /\ tx.value = request[r].amount
      /\ tx.pooled =>
           /\ tx.routed
           /\ priceIsRead => tx.minted = CreditsFor(tx.value, tx.blockPrice)

(* A node that tells neither the receipt nor the transaction makes it      *)
(* throw, which is answered like a swap that does not verify.              *)
VerifyDeposit(r) ==
  /\ At(r, "verify")
  /\ \E chainIsRead, priceIsRead \in BOOLEAN :
       Goes(r, [request[r] EXCEPT
         !.stage = IF chainIsRead /\ Verified(r, priceIsRead) THEN "credit" ELSE "refused",
         !.read = chainIsRead])
  /\ UNCHANGED <<dialog, books, DepositElse>>

Refuse(r) ==
  /\ At(r, "refused") \/ At(r, "known")
  /\ IF request[r].heard THEN ErrorIsShown(r) ELSE UNCHANGED dialog
  /\ Goes(r, Idle)
  /\ UNCHANGED <<books, DepositElse>>

CreditDeposit(r) ==
  /\ At(r, "credit")
  /\ balance' = [balance EXCEPT ![request[r].by] = @ + swap[request[r].tx].minted]
  /\ Goes(r, [request[r] EXCEPT !.stage = "record"])
  /\ UNCHANGED <<dialog, deposited, withdrawn, DepositElse>>

RecordDeposit(r) ==
  /\ At(r, "record")
  /\ deposited' = [deposited EXCEPT ![request[r].tx] = @ + 1]
  /\ IF request[r].heard THEN CreditIsShown(r) ELSE UNCHANGED dialog
  /\ Goes(r, Idle)
  /\ UNCHANGED <<balance, withdrawn, DepositElse>>

DepositStep(r) ==
  \/ CheckDeposit(r) \/ VerifyDeposit(r) \/ Refuse(r) \/ CreditDeposit(r) \/ RecordDeposit(r)
  \/ PostIsLost(r)

-----------------------------------------------------------------------------
(* POST /api/credits/withdraw.                                             *)
WithdrawElse == <<contracts, swap, spot, syncing, dialog, deposited, failures>>

Withdraw(r, u) ==
  /\ request[r] = Idle
  /\ \E c \in Withdrawals : Goes(r, [stage |-> "balance", by |-> u, amount |-> c])
  /\ UNCHANGED <<wallet, cached, balance, withdrawn, payouts, outcome, WithdrawElse>>

(* Mutation: an account may ask for more than it has.                      *)
HasCreditsAlways(r) == TRUE

HasCredits(r) == balance[request[r].by] >= request[r].amount

CheckBalance(r) ==
  /\ At(r, "balance")
  /\ Goes(r, IF HasCredits(r) THEN [request[r] EXCEPT !.stage = "price"] ELSE Idle)
  /\ UNCHANGED <<wallet, cached, balance, withdrawn, payouts, outcome, WithdrawElse>>

PriceWithdrawal(r) ==
  /\ At(r, "price")
  /\ \E p \in Quotes :
       /\ GetOkbUsdPrice(p)
       /\ LET me == request[r]
          IN  Goes(r, IF p = None \/ OkbFor(me.amount, p) = 0 THEN Idle
                      ELSE [stage |-> "treasury", by |-> me.by, amount |-> me.amount,
                            okb |-> OkbFor(me.amount, p)])
  /\ UNCHANGED <<wallet, balance, withdrawn, payouts, outcome, WithdrawElse>>

(* getPayoutWalletBalance: the vault's, the wallet's when that has none or *)
(* cannot be read.  A wallet that cannot be read ends the process: Crash.  *)
CheckTreasury(r) ==
  /\ At(r, "treasury")
  /\ \E source \in {okb.vault, wallet} :
       /\ okb.vault = 0 => source = wallet
       /\ Goes(r, IF source >= request[r].okb THEN [request[r] EXCEPT !.stage = "debit"]
                  ELSE Idle)
  /\ UNCHANGED <<wallet, cached, balance, withdrawn, payouts, outcome, WithdrawElse>>

(* A decrement with no condition.                                          *)
DebitCredits(r) ==
  /\ At(r, "debit")
  /\ balance' = [balance EXCEPT ![request[r].by] = @ - request[r].amount]
  /\ Goes(r, [request[r] EXCEPT !.stage = "send"])
  /\ UNCHANGED <<wallet, cached, withdrawn, payouts, outcome, WithdrawElse>>

(* sendOkbPayout chooses the vault if that has enough now, else the        *)
(* wallet, else it throws, as it does when a balance cannot be read.       *)
ChooseSource(r) ==
  /\ At(r, "send")
  /\ LET me == request[r]
         From(source) == [stage |-> "submit", by |-> me.by, amount |-> me.amount,
                          okb |-> me.okb, from |-> source]
     IN  \/ Goes(r, IF okb.vault >= me.okb THEN From("vault")
                    ELSE IF wallet >= me.okb THEN From("wallet")
                    ELSE [me EXCEPT !.stage = "refund"])
         \/ Goes(r, [me EXCEPT !.stage = "refund"])
  /\ UNCHANGED <<wallet, cached, balance, withdrawn, payouts, outcome, WithdrawElse>>

Sent(r) == [by |-> request[r].by, amount |-> request[r].okb, from |-> request[r].from, r |-> r,
            n |-> Cardinality(payouts) + outcome.mined + outcome.reverted]

(* Mutation: a transaction the node refuses is logged like one it takes.   *)
SubmitPayoutUnheard(r) ==
  /\ At(r, "submit")
  /\ Sent(r).n < MaxPayouts
  /\ payouts' \in {payouts, payouts \cup {Sent(r)}}
  /\ Goes(r, [request[r] EXCEPT !.stage = "log"])
  /\ UNCHANGED <<wallet, cached, balance, withdrawn, outcome, WithdrawElse>>

(* The node takes the transaction and answers with its hash, at once; or   *)
(* it takes it and the answer is lost; or it refuses.                      *)
SubmitPayout(r) ==
  /\ At(r, "submit")
  /\ Sent(r).n < MaxPayouts
  /\ \/ /\ payouts' = payouts \cup {Sent(r)}
        /\ Goes(r, [request[r] EXCEPT !.stage = "log"])
        /\ UNCHANGED outcome
     \/ /\ payouts' = payouts \cup {Sent(r)}
        /\ Goes(r, [request[r] EXCEPT !.stage = "refund"])
        /\ outcome' = [outcome EXCEPT !.unknown = @ + 1]
     \/ /\ Goes(r, [request[r] EXCEPT !.stage = "refund"])
        /\ UNCHANGED <<payouts, outcome>>
  /\ UNCHANGED <<wallet, cached, balance, withdrawn, WithdrawElse>>

(* Mutation: the credits are not given back.                               *)
RefundNothing(r) ==
  /\ At(r, "refund")
  /\ Goes(r, Idle)
  /\ UNCHANGED <<wallet, cached, balance, withdrawn, payouts, outcome, WithdrawElse>>

Refund(r) ==
  /\ At(r, "refund")
  /\ balance' = [balance EXCEPT ![request[r].by] = @ + request[r].amount]
  /\ Goes(r, Idle)
  /\ UNCHANGED <<wallet, cached, withdrawn, payouts, outcome, WithdrawElse>>

(* The hash is logged; whether the transfer succeeds is not looked at.     *)
LogWithdrawal(r) ==
  /\ At(r, "log")
  /\ withdrawn' = [withdrawn EXCEPT ![request[r].by] = @ + request[r].amount]
  /\ outcome' = [outcome EXCEPT !.logged = @ + 1]
  /\ Goes(r, Idle)
  /\ UNCHANGED <<wallet, cached, balance, payouts, WithdrawElse>>

WithdrawStep(r) ==
  \/ \E u \in Accounts : Withdraw(r, u)
  \/ CheckBalance(r) \/ PriceWithdrawal(r) \/ CheckTreasury(r) \/ DebitCredits(r)
  \/ ChooseSource(r) \/ SubmitPayout(r) \/ Refund(r) \/ LogWithdrawal(r)

WalletPays(amount) == wallet >= amount /\ wallet' = wallet - amount

(* A payout is mined.  The balance it was sent on may be gone.             *)
PayoutIsMined(p) ==
  /\ payouts' = payouts \ {p}
  /\ \/ /\ p.from = "vault" /\ WithdrawTo(p.amount)
        /\ outcome' = [outcome EXCEPT !.mined = @ + 1]
        /\ UNCHANGED wallet
     \/ /\ p.from = "wallet" /\ WalletPays(p.amount)
        /\ outcome' = [outcome EXCEPT !.mined = @ + 1]
        /\ UNCHANGED contracts
     \/ /\ (IF p.from = "vault" THEN okb.vault ELSE wallet) < p.amount
        /\ outcome' = [outcome EXCEPT !.reverted = @ + 1]
        /\ UNCHANGED <<contracts, wallet>>
  /\ UNCHANGED <<swap, prices, dialog, books, request, failures>>

(* A price that was sent to the router may be mined all the same.          *)
Crash ==
  /\ failures < MaxFailures
  /\ failures' = failures + 1
  /\ request' = [r \in Requests |-> Idle]
  /\ cached' = [price |-> None, fresh |-> FALSE]
  /\ syncing' \in SUBSET syncing
  /\ dialog' = IF dialog.stage = "confirmed" THEN [dialog EXCEPT !.stage = "failed"] ELSE dialog
  /\ UNCHANGED <<chain, spot, books, payouts, outcome>>

BridgeNext ==
  \/ MarketMoves \/ QuotePrice \/ SyncReads \/ SyncIsMined
  \/ MineBlock \/ LiquidityChanges \/ VaultIsFunded
  \/ (\E u \in Accounts : OpenDialog(u))
  \/ LoadConfig \/ ReadRouterPrice \/ CloseDialog \/ EditAmount
  \/ Convert \/ PostDeposit
  \/ \E r \in Requests : DepositStep(r) \/ WithdrawStep(r)
  \/ \E p \in payouts : PayoutIsMined(p)
  \/ Crash

BridgeSpec == BridgeInit /\ [][BridgeNext]_bridgeVars

-----------------------------------------------------------------------------
(* Properties.                                                             *)

InStage(stages) == {r \in Requests : request[r].stage \in stages}

(* What the DEPOSIT rows of a swap add to an account, and what a request   *)
(* has added to it or taken from it that no row tells yet.                 *)
Recorded(t, u) == IF swap[t] # None /\ swap[t].by = u THEN deposited[t] * swap[t].minted ELSE 0
UnderWay(asks, u) ==
  CASE asks.stage = "record" /\ asks.by = u -> swap[asks.tx].minted
    [] asks.stage \in {"send", "submit", "refund", "log"} /\ asks.by = u -> -asks.amount
    [] OTHER -> 0

(* A balance is what the ledger says, plus a deposit that is credited and  *)
(* not recorded, less the withdrawals that are debited and neither         *)
(* refunded nor logged: no interleaving of deposits, payouts and refunds   *)
(* makes or loses credits.  Only a backend that dies between two           *)
(* statements does.                                                        *)
BalanceIsLedger ==
  /\ BridgeTypeOK
  /\ failures = 0 => \A u \in Accounts :
       balance[u] = Opening - withdrawn[u]
                    + SumFunctionOnSet([t \in Txs |-> Recorded(t, u)], Txs)
                    + SumFunctionOnSet([r \in Requests |-> UnderWay(request[r], u)], Requests)

(* A swap is credited at most once for each request that was handled at    *)
(* the time: posts one after the other credit it once.  And a balance goes *)
(* below zero only by withdrawals that were checked at the same time, one  *)
(* of which it covers.                                                     *)
RacesBounded ==
  /\ \A t \in Txs : deposited[t] <= Cardinality(Requests)
  /\ \A u \in Accounts :
       balance[u] >= -(Cardinality(Requests) - 1) * Max(Withdrawals \cup {0})

(* Every logged withdrawal has a payout that was sent, and every payout    *)
(* that was sent is logged, about to be, or its answer was lost - in that  *)
(* case the credits are refunded and the OKB is paid all the same.         *)
PayoutsAccounted ==
  LET sent == Cardinality(payouts) + outcome.mined + outcome.reverted
  IN  /\ outcome.logged <= sent
      /\ failures = 0 =>
           sent = outcome.logged + outcome.unknown + Cardinality(InStage({"log"}))

(* A deposit of a mined swap is refused only when the node did not tell    *)
(* the swap, the amount in the dialog was edited after the swap was sent,  *)
(* the price was set in the block of the swap, or the pool took so little  *)
(* of it that the hook had no fee to report.                               *)
RefusedForAReason ==
  \A r \in InStage({"refused"}) :
    LET tx == swap[request[r].tx]
    IN  \/ ~request[r].read
        \/ request[r].amount # tx.value
        \/ tx.at # tx.blockPrice
        \/ tx.pooled /\ ~tx.routed

(* "Transaction already credited" (apps/backend/src/routes/credits.ts:157): *)
(* a swap is credited once.                                                *)
CreditedOnce == \A t \in Txs : deposited[t] <= 1
=============================================================================
