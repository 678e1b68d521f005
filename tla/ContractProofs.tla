--------------------------- MODULE ContractProofs ---------------------------
(***************************************************************************)
(* The two systems around the contracts: the deposits and withdrawals of   *)
(* CreditBridge, then the books and the indexer of OnChainArcade.          *)
(***************************************************************************)
EXTENDS CreditBridge, OnChainArcade, EconomyProofs, FiniteSetTheorems, SequenceTheorems

-----------------------------------------------------------------------------
(***************************************************************************)
(* CreditBridge: why a deposit is refused, what requests that run at one   *)
(* time do to the books, and that every payout is accounted for: for any   *)
(* accounts, amounts, prices, swaps, requests and retries, whatever the    *)
(* pool takes and the feeds quote, and however often the backend dies.     *)
(***************************************************************************)

(* A swap minted what it was worth at the price of its moment, and none is *)
(* made before there is a price.                                           *)
SwapsPriced ==
  /\ swap \in [Txs -> Swaps \cup {None}]
  /\ \A t \in Txs : swap[t] # None =>
       swap[t].minted = CreditsFor(swap[t].value, swap[t].at)
  /\ price = 0 => \A t \in Txs : swap[t] = None

PricesKnown ==
  /\ price \in Prices \cup {0}
  /\ spot \in Prices
  /\ cached \in [price : Prices \cup {None}, fresh : BOOLEAN]
  /\ syncing \subseteq Prices

(* A dialog past "open" shows a swap of its own player, and one that has   *)
(* posted shows a mined one.                                               *)
DialogIsOfSwap ==
  /\ dialog.stage \in {"closed", "open", "sent", "confirmed", "failed"}
  /\ dialog.stage = "open" =>
       dialog \in [stage : {"open"}, by : Accounts, amount : Amounts, rate : Prices \cup {None}]
  /\ dialog.stage \in {"sent", "confirmed", "failed"} =>
       /\ dialog \in [stage : {"sent", "confirmed", "failed"}, by : Accounts,
                      amount : Amounts, tx : Txs, posts : Nat]
       /\ swap[dialog.tx] # None
       /\ swap[dialog.tx].by = dialog.by
  /\ dialog.stage \in {"confirmed", "failed"} => swap[dialog.tx].blockPrice # None

(* A deposit is of a mined swap of the player who posts it.                *)
DepositOfSwap(r) ==
  /\ request[r] \in [stage : DepositStages, by : Accounts, tx : Txs, amount : Amounts,
                     read : BOOLEAN, heard : BOOLEAN]
  /\ swap[request[r].tx] # None
  /\ swap[request[r].tx].by = request[r].by
  /\ swap[request[r].tx].blockPrice # None

(* What may be said of a deposit that was refused.                         *)
Reason(r) ==
  LET tx == swap[request[r].tx]
  IN  \/ ~request[r].read
      \/ request[r].amount # tx.value
      \/ tx.at # tx.blockPrice
      \/ tx.pooled /\ ~tx.routed

RequestOK(r) ==
  /\ "stage" \in DOMAIN request[r]
  /\ request[r].stage \in DepositStages => DepositOfSwap(r)
  /\ request[r].stage = "refused" => Reason(r)

DepositsAreOfSwaps ==
  /\ DOMAIN request = Requests
  /\ \A r \in Requests : RequestOK(r)

BridgeInv == SwapsPriced /\ PricesKnown /\ DialogIsOfSwap /\ DepositsAreOfSwaps

-----------------------------------------------------------------------------
(* What changes what.                                                      *)

LEMMA OnlySwapsSwap == BridgeNext => MineBlock \/ Convert \/ UNCHANGED swap
  <1>1. \A r \in Requests : DepositStep(r) => UNCHANGED swap
    BY DEF DepositStep, CheckDeposit, VerifyDeposit, Refuse, CreditDeposit, RecordDeposit,
           PostIsLost, DepositElse, chain
  <1>2. \A r \in Requests : WithdrawStep(r) => UNCHANGED swap
    BY DEF WithdrawStep, Withdraw, CheckBalance, PriceWithdrawal, CheckTreasury, DebitCredits,
           ChooseSource, SubmitPayout, Refund, LogWithdrawal, WithdrawElse
  <1>3. (\/ MarketMoves \/ QuotePrice \/ SyncReads \/ SyncIsMined
         \/ LiquidityChanges \/ VaultIsFunded \/ Crash) => UNCHANGED swap
    BY DEF MarketMoves, QuotePrice, SyncReads, SyncIsMined, LiquidityChanges, VaultIsFunded,
       Crash, chain
  <1>4. (\/ (\E u \in Accounts : OpenDialog(u)) \/ LoadConfig \/ ReadRouterPrice
         \/ CloseDialog \/ EditAmount \/ PostDeposit) => UNCHANGED swap
    BY DEF OpenDialog, LoadConfig, ReadRouterPrice, CloseDialog, EditAmount, PostDeposit
  <1>5. \A p \in payouts : PayoutIsMined(p) => UNCHANGED swap
    BY DEF PayoutIsMined
  <1>6. QED
    BY <1>1, <1>2, <1>3, <1>4, <1>5 DEF BridgeNext

(* A swap stays what it is; only the price of its block becomes known.     *)
LEMMA SwapsLast ==
  ASSUME SwapsPriced, PricesKnown, BridgeNext \/ UNCHANGED bridgeVars, NEW t \in Txs, swap[t] # None
  PROVE  /\ swap'[t] # None
         /\ swap'[t].by = swap[t].by /\ swap'[t].value = swap[t].value
         /\ swap'[t].at = swap[t].at /\ swap'[t].minted = swap[t].minted
         /\ swap'[t].pooled = swap[t].pooled /\ swap'[t].routed = swap[t].routed
         /\ swap[t].blockPrice # None => swap'[t].blockPrice = swap[t].blockPrice
  <1>1. swap[t] \in Swaps
    BY DEF SwapsPriced
  <1>2. CASE UNCHANGED swap
    BY <1>2
  <1>3. CASE MineBlock
    <2>1. swap'[t] = swap[t] \/ swap'[t] = [swap[t] EXCEPT !.blockPrice = price]
      BY <1>3 DEF MineBlock
    <2>2. price \in Prices
      BY DEF SwapsPriced, PricesKnown
    <2>3. swap'[t] \in Swaps
      BY <1>1, <2>1, <2>2 DEF Swaps
    <2>4. QED
      BY <1>1, <1>3, <2>1, <2>3, BridgeConstants DEF MineBlock, Swaps, SwapsPriced
  <1>4. CASE Convert
    BY <1>4 DEF Convert, SwapsPriced
  <1>5. QED
    BY <1>2, <1>3, <1>4, OnlySwapsSwap DEF bridgeVars, chain
-----------------------------------------------------------------------------
(* The invariant is kept.                                                  *)

LEMMA CreditsAreCounted ==
  ASSUME NEW a \in Amounts, price \in Prices
  PROVE  ComputeCredits(a) \in Nat
  <1>1. a \in Nat /\ price \in Nat /\ CreditScale \in Nat \ {0}
    BY ContractConstants
  <1>2. a * price \in Nat
    BY <1>1
  <1> DEFINE n == a * price * CREDITS_PER_USD
  <1>3. n \in Nat
    BY <1>2 DEF CREDITS_PER_USD
  <1> HIDE DEF n
  <1>4. n \div CreditScale \in Nat
    BY <1>1, <1>3
  <1>5. QED
    BY <1>4 DEF n, ComputeCredits

LEMMA OnlyFeedsPrice ==
  BridgeNext => \/ MarketMoves \/ QuotePrice \/ LoadConfig \/ SyncReads \/ SyncIsMined \/ Crash
                \/ \E r \in Requests : PriceWithdrawal(r)
                \/ UNCHANGED <<price, prices>>
  <1>1. ASSUME NEW r \in Requests, DepositStep(r)
        PROVE  UNCHANGED <<price, prices>>
    BY <1>1 DEF DepositStep, CheckDeposit, VerifyDeposit, Refuse, CreditDeposit, RecordDeposit,
           PostIsLost, DepositElse, chain, contracts, swapping
  <1>2. ASSUME NEW r \in Requests, WithdrawStep(r), ~PriceWithdrawal(r)
        PROVE  UNCHANGED <<price, prices>>
    BY <1>2 DEF WithdrawStep, Withdraw, CheckBalance, CheckTreasury, DebitCredits, ChooseSource,
           SubmitPayout, Refund, LogWithdrawal, WithdrawElse, contracts, swapping, prices
  <1>3. CASE MineBlock \/ ReadRouterPrice \/ CloseDialog \/ EditAmount \/ PostDeposit
    BY <1>3 DEF MineBlock, ReadRouterPrice, CloseDialog, EditAmount, PostDeposit, DialogElse,
           contracts, swapping
  <1>4. CASE LiquidityChanges \/ VaultIsFunded \/ Convert
    BY <1>4 DEF LiquidityChanges, ChangeLiquidity, VaultIsFunded, DepositToVault, Convert,
           SwapForCredits, DialogElse
  <1>5. ASSUME NEW u \in Accounts, OpenDialog(u)
        PROVE  UNCHANGED <<price, prices>>
    BY <1>5 DEF OpenDialog, DialogElse, contracts, swapping
  <1>6. ASSUME NEW p \in payouts, PayoutIsMined(p)
        PROVE  UNCHANGED <<price, prices>>
    BY <1>6 DEF PayoutIsMined, WithdrawTo, contracts, swapping
  <1>7. QED
    BY <1>1, <1>2, <1>3, <1>4, <1>5, <1>6 DEF BridgeNext

LEMMA PricesStep ==
  ASSUME PricesKnown, BridgeNext \/ UNCHANGED bridgeVars
  PROVE  PricesKnown'
  <1>1. Quotes \subseteq Prices \cup {None}
    BY DEF Quotes, PricesKnown
  <1>2. ASSUME NEW p, GetOkbUsdPrice(p)
        PROVE  /\ cached' \in [price : Prices \cup {None}, fresh : BOOLEAN]
               /\ p \in Prices \cup {None}
    BY <1>1, <1>2 DEF GetOkbUsdPrice, PricesKnown
  <1>3. CASE UNCHANGED <<price, prices>>
    BY <1>3 DEF PricesKnown, prices
  <1>4. CASE MarketMoves
    BY <1>4 DEF MarketMoves, PricesKnown, chain, contracts, swapping
  <1>4a. CASE QuotePrice \/ LoadConfig
    BY <1>2, <1>4a DEF QuotePrice, LoadConfig, PricesKnown, chain, contracts, swapping
  <1>5. CASE SyncReads
    <2>1. PICK p \in Quotes \ {None, price} :
            GetOkbUsdPrice(p) /\ syncing' = syncing \cup {p}
      BY <1>5 DEF SyncReads
    <2>2. UNCHANGED <<price, spot>>
      BY <1>5 DEF SyncReads, chain, contracts, swapping
    <2>3. QED
      BY <1>2, <2>1, <2>2 DEF PricesKnown
  <1>6. CASE SyncIsMined
    BY <1>6 DEF SyncIsMined, SetOkbUsdPrice, PricesKnown
  <1>7. CASE Crash
    BY <1>7 DEF Crash, PricesKnown, chain, contracts, swapping
  <1>8. ASSUME NEW r \in Requests, PriceWithdrawal(r)
        PROVE  PricesKnown'
    BY <1>2, <1>8 DEF PriceWithdrawal, PricesKnown, WithdrawElse, contracts, swapping
  <1>9. QED
    BY <1>3, <1>4, <1>5, <1>6, <1>7, <1>8, <1>4a, OnlyFeedsPrice DEF bridgeVars, chain,
       contracts, swapping

LEMMA SwapsStep ==
  ASSUME SwapsPriced, PricesKnown, DialogIsOfSwap, BridgeNext \/ UNCHANGED bridgeVars
  PROVE  SwapsPriced'
  <1>1. CASE UNCHANGED <<swap, price>>
    BY <1>1 DEF SwapsPriced
  <1>2. CASE MineBlock
    <2>1. price \in Prices /\ UNCHANGED price
      BY <1>2 DEF MineBlock, SwapsPriced, PricesKnown, contracts, swapping
    <2>2. ASSUME NEW t \in Txs
          PROVE  swap'[t] \in Swaps \cup {None}
      <3>1. swap'[t] = swap[t] \/
              (swap[t] # None /\ swap'[t] = [swap[t] EXCEPT !.blockPrice = price])
        BY <1>2 DEF MineBlock
      <3>2. swap[t] \in Swaps \cup {None}
        BY DEF SwapsPriced
      <3>3. QED
        BY <2>1, <3>1, <3>2 DEF Swaps
    <2>3. swap' \in [Txs -> Swaps \cup {None}]
      BY <1>2, <2>2 DEF MineBlock
    <2>4. ASSUME NEW t \in Txs, swap'[t] # None
          PROVE  /\ swap[t] # None
                 /\ swap'[t].minted = CreditsFor(swap'[t].value, swap'[t].at)
      <3>1. swap[t] # None
        BY <1>2, <2>4 DEF MineBlock
      <3>2. QED
        BY <1>2, <3>1, SwapsLast DEF SwapsPriced
    <2>5. QED
      BY <2>1, <2>3, <2>4, ContractConstants DEF SwapsPriced
  <1>3. CASE Convert
    <2>1. PICK t \in Txs :
            /\ SwapForCredits(dialog.by, dialog.amount)
            /\ swap' = [swap EXCEPT ![t] =
                 [by |-> dialog.by, value |-> dialog.amount,
                  minted |-> ComputeCredits(dialog.amount), at |-> price, blockPrice |-> None,
                  pooled |-> liquidity > 0, routed |-> HookFee(Spent(dialog.amount)) > 0]]
      BY <1>3 DEF Convert
    <2>2. price \in Prices /\ UNCHANGED price /\ price # 0
      BY <2>1, ContractConstants DEF SwapForCredits, PricesKnown
    <2>3. dialog.by \in Accounts /\ dialog.amount \in Amounts
      BY <1>3 DEF Convert, DialogIsOfSwap
    <2>4. ComputeCredits(dialog.amount) \in Nat
      BY <2>2, <2>3, CreditsAreCounted
    <2> DEFINE new == [by |-> dialog.by, value |-> dialog.amount,
                       minted |-> ComputeCredits(dialog.amount), at |-> price, blockPrice |-> None,
                       pooled |-> liquidity > 0, routed |-> HookFee(Spent(dialog.amount)) > 0]
    <2>5. new \in Swaps
      BY <2>2, <2>3, <2>4 DEF Swaps
    <2>6. new.minted = CreditsFor(new.value, new.at)
      BY DEF ComputeCredits, CreditsFor
    <2>7. swap' = [swap EXCEPT ![t] = new]
      BY <2>1
    <2> HIDE DEF new
    <2>8. QED
      BY <2>2, <2>5, <2>6, <2>7 DEF SwapsPriced
  <1>4. CASE SyncIsMined
    <2>1. price' \in Prices /\ UNCHANGED swap
      BY <1>4 DEF SyncIsMined, SetOkbUsdPrice, PricesKnown
    <2>2. price' # 0
      BY <2>1, ContractConstants
    <2>3. QED
      BY <2>1, <2>2 DEF SwapsPriced
  <1>5. CASE UNCHANGED swap /\ ~SyncIsMined /\ BridgeNext
    <2>1. UNCHANGED price
      BY <1>5, OnlyFeedsPrice DEF MarketMoves, QuotePrice, LoadConfig, SyncReads, Crash,
         PriceWithdrawal, WithdrawElse,
         chain, contracts, swapping
    <2>2. QED
      BY <1>1, <1>5, <2>1
  <1>6. QED
    BY <1>1, <1>2, <1>3, <1>4, <1>5, OnlySwapsSwap DEF bridgeVars, chain, contracts, swapping

(* A swap of somebody stays a swap of theirs.                              *)
LEMMA DialogStep ==
  ASSUME SwapsPriced, PricesKnown, DialogIsOfSwap, BridgeNext \/ UNCHANGED bridgeVars
  PROVE  DialogIsOfSwap'
  <1> DEFINE Past(d) ==
        /\ d \in [stage : {"sent", "confirmed", "failed"}, by : Accounts,
                  amount : Amounts, tx : Txs, posts : Nat]
        /\ swap'[d.tx] # None
        /\ swap'[d.tx].by = d.by
        /\ d.stage \in {"confirmed", "failed"} => swap'[d.tx].blockPrice # None
  <1>1. dialog.stage \in {"sent", "confirmed", "failed"} => Past(dialog)
    BY SwapsLast DEF DialogIsOfSwap
  <1> DEFINE Fits(d) ==
        /\ d.stage \in {"closed", "open", "sent", "confirmed", "failed"}
        /\ d.stage = "open" =>
             d \in [stage : {"open"}, by : Accounts, amount : Amounts, rate : Prices \cup {None}]
        /\ d.stage \in {"sent", "confirmed", "failed"} => Past(d)
  <1>2. Fits(dialog) /\ Fits(Closed)
    BY <1>1 DEF DialogIsOfSwap, Closed
  <1>3. SUFFICES Fits(dialog')
    BY DEF DialogIsOfSwap
  <1>4. ASSUME dialog.stage \in {"confirmed", "failed"}
        PROVE  Fits([dialog EXCEPT !.stage = "failed"])
    BY <1>1, <1>4
  <1> HIDE DEF Fits
  <1>5. CASE dialog' \in {dialog, Closed}
    BY <1>2, <1>5
  <1>6. CASE dialog' = [dialog EXCEPT !.stage = "failed"] /\ dialog.stage = "confirmed"
    BY <1>4, <1>6
  <1>7. ASSUME NEW u \in Accounts, OpenDialog(u)
        PROVE  Fits(dialog')
    BY <1>7 DEF OpenDialog, Fits
  <1>7a. CASE LoadConfig \/ ReadRouterPrice
    <2>1. /\ dialog \in [stage : {"open"}, by : Accounts, amount : Amounts,
                          rate : Prices \cup {None}]
          /\ dialog.stage = "open"
      BY <1>7a DEF LoadConfig, ReadRouterPrice, DialogIsOfSwap
    <2>2. Quotes \subseteq Prices \cup {None} /\ (price > 0 => price \in Prices)
      BY ContractConstants DEF Quotes, PricesKnown
    <2>3. PICK rate \in Prices \cup {None} : dialog' = [dialog EXCEPT !.rate = rate]
      BY <1>7a, <2>2 DEF LoadConfig, ReadRouterPrice
    <2>4. QED
      BY <2>1, <2>3 DEF Fits
  <1>8. CASE EditAmount
    <2>1. PICK a \in Amounts : dialog' = [dialog EXCEPT !.amount = a]
      BY <1>8 DEF EditAmount
    <2>2. Past(dialog) /\ dialog.stage \in {"sent", "failed"}
      BY <1>1, <1>8 DEF EditAmount
    <2>3. Past(dialog')
      BY <2>1, <2>2
    <2>4. dialog'.stage = dialog.stage
      BY <2>1, <2>2
    <2>5. QED
      BY <2>2, <2>3, <2>4 DEF Fits
  <1>9. CASE Convert
    <2>1. PICK t \in Txs :
            /\ swap[t] = None
            /\ swap' = [swap EXCEPT ![t] =
                 [by |-> dialog.by, value |-> dialog.amount,
                  minted |-> ComputeCredits(dialog.amount), at |-> price, blockPrice |-> None,
                  pooled |-> liquidity > 0, routed |-> HookFee(Spent(dialog.amount)) > 0]]
            /\ dialog' = [stage |-> "sent", by |-> dialog.by, amount |-> dialog.amount, tx |-> t,
                          posts |-> 0]
      BY <1>9 DEF Convert
    <2>2. dialog.by \in Accounts /\ dialog.amount \in Amounts
      BY <1>9 DEF Convert, DialogIsOfSwap
    <2>3. swap'[t] # None /\ swap'[t].by = dialog.by
      <3>1. swap'[t].by = dialog.by
        BY <2>1 DEF SwapsPriced
      <3>2. price \in Prices /\ ComputeCredits(dialog.amount) \in Nat
        BY <1>9, <2>2, CreditsAreCounted DEF Convert, SwapForCredits, PricesKnown
      <3>3. swap'[t] \in Swaps
        BY <2>1, <2>2, <3>2 DEF SwapsPriced, Swaps
      <3>4. QED
        BY <3>1, <3>3, BridgeConstants
    <2>4. QED
      BY <2>1, <2>2, <2>3 DEF Fits
  <1>10. CASE PostDeposit
    <2>1. Past(dialog) /\ (dialog.stage = "sent" => swap[dialog.tx].blockPrice # None)
      BY <1>1, <1>10 DEF PostDeposit
    <2>2. dialog' = [dialog EXCEPT !.stage = "confirmed", !.posts = @ + 1]
      BY <1>10 DEF PostDeposit
    <2>3. UNCHANGED swap
      BY <1>10 DEF PostDeposit
    <2>4. dialog.stage \in {"sent", "failed"}
      BY <1>10 DEF PostDeposit
    <2>5. /\ dialog' \in [stage : {"sent", "confirmed", "failed"}, by : Accounts,
                          amount : Amounts, tx : Txs, posts : Nat]
          /\ dialog'.stage = "confirmed" /\ dialog'.tx = dialog.tx /\ dialog'.by = dialog.by
      <3> DEFINE heard == [dialog EXCEPT !.stage = "confirmed"]
      <3>1. /\ heard \in [stage : {"sent", "confirmed", "failed"}, by : Accounts,
                          amount : Amounts, tx : Txs, posts : Nat]
            /\ heard.stage = "confirmed" /\ heard.tx = dialog.tx /\ heard.by = dialog.by
        BY <2>1
      <3>2. dialog.posts + 1 \in Nat /\ dialog' = [heard EXCEPT !.posts = dialog.posts + 1]
        BY <2>1, <2>2
      <3> HIDE DEF heard
      <3>3. QED
        BY <3>1, <3>2
    <2>6. swap'[dialog.tx].blockPrice # None
      BY <2>1, <2>3, <2>4
    <2>7. Past(dialog')
      BY <2>1, <2>5, <2>6
    <2>8. QED
      BY <2>5, <2>7 DEF Fits
  <1>11. ASSUME NEW r \in Requests, DepositStep(r) \/ WithdrawStep(r)
         PROVE  \/ dialog' \in {dialog, Closed}
                \/ dialog' = [dialog EXCEPT !.stage = "failed"] /\ dialog.stage = "confirmed"
    <2>1. CASE DepositStep(r)
      BY <2>1 DEF DepositStep, CheckDeposit, VerifyDeposit, Refuse, CreditDeposit, RecordDeposit,
             PostIsLost, CreditIsShown, ErrorIsShown, Waits
    <2>2. CASE WithdrawStep(r)
      BY <2>2 DEF WithdrawStep, Withdraw, CheckBalance, PriceWithdrawal, CheckTreasury,
             DebitCredits, ChooseSource, SubmitPayout, Refund, LogWithdrawal, WithdrawElse
    <2>3. QED
      BY <1>11, <2>1, <2>2
  <1>12. CASE Crash \/ CloseDialog
    BY <1>5, <1>6, <1>12 DEF Crash, CloseDialog
  <1>13. CASE \/ MarketMoves \/ QuotePrice \/ SyncReads \/ SyncIsMined
              \/ MineBlock \/ LiquidityChanges \/ VaultIsFunded
    BY <1>5, <1>13 DEF MarketMoves, QuotePrice, SyncReads, SyncIsMined, MineBlock,
       LiquidityChanges, VaultIsFunded
  <1>14. ASSUME NEW p \in payouts, PayoutIsMined(p)
         PROVE  dialog' = dialog
    BY <1>14 DEF PayoutIsMined
  <1>15. QED
    BY <1>5, <1>6, <1>7, <1>8, <1>9, <1>10, <1>11, <1>12, <1>13, <1>14, <1>7a
       DEF BridgeNext, bridgeVars

(* A request that is left alone stays what it is.                          *)
LEMMA RestIsKept ==
  ASSUME SwapsPriced, PricesKnown, BridgeNext \/ UNCHANGED bridgeVars,
         NEW r \in Requests, request'[r] = request[r], RequestOK(r)
  PROVE  RequestOK(r)'
  <1>1. CASE request[r].stage \in DepositStages
    BY <1>1, SwapsLast DEF RequestOK, DepositOfSwap, Reason
  <1>2. CASE request[r].stage \notin DepositStages
    BY <1>2 DEF RequestOK, DepositStages
  <1>3. QED
    BY <1>1, <1>2

(* The backend refuses what does not verify, for what is left to differ.   *)
LEMMA RefusalHasReason ==
  ASSUME SwapsPriced, NEW r \in Requests, DepositOfSwap(r), NEW known \in BOOLEAN, ~Verified(r, known)
  PROVE  LET tx == swap[request[r].tx]
         IN  \/ request[r].amount # tx.value
             \/ tx.at # tx.blockPrice
             \/ tx.pooled /\ ~tx.routed
  BY DEF SwapsPriced, DepositOfSwap, Verified

LEMMA RequestsStep ==
  ASSUME BridgeInv, BridgeNext \/ UNCHANGED bridgeVars
  PROVE  DepositsAreOfSwaps'
  <1>1. /\ DOMAIN request = Requests
        /\ \A r \in Requests : RequestOK(r)
        /\ \A r \in Requests : request'[r] = request[r] => RequestOK(r)'
    BY RestIsKept DEF BridgeInv, DepositsAreOfSwaps
  <1>2. CASE UNCHANGED request
    BY <1>1, <1>2 DEF DepositsAreOfSwaps
  <1>3. ASSUME NEW r \in Requests, NEW next, Goes(r, next), RequestOK(r)'
        PROVE  DepositsAreOfSwaps'
    BY <1>1, <1>3 DEF Goes, DepositsAreOfSwaps
  <1>4. ASSUME NEW r \in Requests, NEW next, Goes(r, next),
               "stage" \in DOMAIN next, next.stage \notin DepositStages
        PROVE  DepositsAreOfSwaps'
    <2>1. request'[r] = next
      BY <1>1, <1>4 DEF Goes
    <2>2. RequestOK(r)'
      BY <1>4, <2>1 DEF RequestOK, DepositStages
    <2>3. QED
      BY <1>3, <1>4, <2>2
  <1>5. ASSUME NEW r \in Requests, Goes(r, Idle)
        PROVE  DepositsAreOfSwaps'
    BY <1>4, <1>5 DEF Idle, DepositStages
  <1>6. ASSUME NEW r \in Requests, NEW stage \in DepositStages, UNCHANGED swap,
               request[r].stage \in DepositStages,
               Goes(r, [request[r] EXCEPT !.stage = stage]), stage = "refused" => Reason(r)
        PROVE  DepositsAreOfSwaps'
    <2>1. DepositOfSwap(r)
      BY <1>1, <1>6 DEF RequestOK
    <2>2. request'[r] = [request[r] EXCEPT !.stage = stage]
      BY <1>1, <1>6 DEF Goes
    <2>3. RequestOK(r)'
      BY <1>6, <2>1, <2>2 DEF RequestOK, DepositOfSwap, Reason
    <2>4. QED
      BY <1>3, <1>6, <2>3
  <1>7. ASSUME NEW r \in Requests, DepositStep(r)
        PROVE  DepositsAreOfSwaps'
    <2>1. UNCHANGED swap
      BY <1>7 DEF DepositStep, CheckDeposit, VerifyDeposit, Refuse, CreditDeposit, RecordDeposit,
             PostIsLost, DepositElse, chain
    <2>2. CASE CheckDeposit(r)
      BY <1>6, <2>1, <2>2 DEF CheckDeposit, At, DepositStages
    <2>3. CASE VerifyDeposit(r)
      <3>1. PICK told \in BOOLEAN, known \in BOOLEAN :
              Goes(r, [request[r] EXCEPT
                !.stage = IF told /\ Verified(r, known) THEN "credit" ELSE "refused",
                !.read = told])
        BY <2>3 DEF VerifyDeposit
      <3>2. DepositOfSwap(r)
        BY <1>1, <2>3 DEF VerifyDeposit, At, DepositStages, RequestOK
      <3> DEFINE verdict == IF told /\ Verified(r, known) THEN "credit" ELSE "refused"
      <3>3. request'[r] = [request[r] EXCEPT !.stage = verdict, !.read = told]
        BY <1>1, <3>1 DEF Goes
      <3>4. verdict \in DepositStages
        BY DEF DepositStages
      <3>5. ~told \/ (~Verified(r, known) <=> verdict = "refused")
        OBVIOUS
      <3>6. ~Verified(r, known) => LET tx == swap[request[r].tx]
                                   IN  \/ request[r].amount # tx.value
                                       \/ tx.at # tx.blockPrice
                                       \/ tx.pooled /\ ~tx.routed
        BY <3>2, RefusalHasReason DEF BridgeInv
      <3> HIDE DEF verdict
      <3>7. /\ request'[r] \in [stage : DepositStages, by : Accounts, tx : Txs, amount : Amounts,
                                read : BOOLEAN, heard : BOOLEAN]
            /\ request'[r].stage = verdict /\ request'[r].read = told
            /\ request'[r].tx = request[r].tx /\ request'[r].by = request[r].by
            /\ request'[r].amount = request[r].amount
        BY <3>2, <3>3, <3>4 DEF DepositOfSwap
      <3>8. DepositOfSwap(r)'
        BY <2>1, <3>2, <3>7 DEF DepositOfSwap
      <3>9. verdict = "refused" => Reason(r)'
        BY <2>1, <3>5, <3>6, <3>7 DEF Reason
      <3>10. RequestOK(r)'
        BY <3>7, <3>8, <3>9 DEF RequestOK
      <3>11. QED
        BY <1>3, <3>1, <3>10
    <2>4. CASE Refuse(r)
      BY <1>5, <2>4 DEF Refuse
    <2>5. CASE CreditDeposit(r)
      BY <1>6, <2>1, <2>5 DEF CreditDeposit, At, DepositStages
    <2>6. CASE RecordDeposit(r)
      BY <1>5, <2>6 DEF RecordDeposit
    <2>6a. CASE PostIsLost(r)
      <3>1. DepositOfSwap(r) /\ request[r].stage \in DepositStages
        BY <1>1, <2>6a DEF PostIsLost, RequestOK
      <3>2. Goes(r, [request[r] EXCEPT !.heard = FALSE])
        BY <2>6a DEF PostIsLost
      <3>3. request'[r] = [request[r] EXCEPT !.heard = FALSE]
        BY <1>1, <3>2 DEF Goes
      <3>4. /\ request'[r] \in [stage : DepositStages, by : Accounts, tx : Txs, amount : Amounts,
                                read : BOOLEAN, heard : BOOLEAN]
            /\ request'[r].stage = request[r].stage /\ request'[r].read = request[r].read
            /\ request'[r].tx = request[r].tx /\ request'[r].by = request[r].by
            /\ request'[r].amount = request[r].amount
        BY <3>1, <3>3 DEF DepositOfSwap
      <3>5. request[r].stage = "refused" => Reason(r)
        BY <1>1 DEF RequestOK
      <3>6. RequestOK(r)'
        BY <2>1, <3>1, <3>4, <3>5 DEF RequestOK, DepositOfSwap, Reason
      <3>7. QED
        BY <1>3, <3>2, <3>6
    <2>7. QED
      BY <1>7, <2>2, <2>3, <2>4, <2>5, <2>6, <2>6a DEF DepositStep
  <1>8. ASSUME NEW r \in Requests, WithdrawStep(r)
        PROVE  DepositsAreOfSwaps'
    <2>1. ASSUME NEW stage, stage \notin DepositStages, Goes(r, [request[r] EXCEPT !.stage = stage])
          PROVE  DepositsAreOfSwaps'
      BY <1>1, <1>4, <2>1 DEF RequestOK
    <2>2. ASSUME NEW u \in Accounts, Withdraw(r, u)
          PROVE  DepositsAreOfSwaps'
      BY <1>4, <2>2 DEF Withdraw, DepositStages
    <2>3. CASE CheckBalance(r)
      BY <1>5, <2>1, <2>3 DEF CheckBalance, DepositStages
    <2>4. CASE PriceWithdrawal(r)
      BY <1>4, <1>5, <2>4 DEF PriceWithdrawal, DepositStages
    <2>5. CASE CheckTreasury(r)
      BY <1>5, <2>1, <2>5 DEF CheckTreasury, DepositStages
    <2>6. CASE DebitCredits(r)
      BY <2>1, <2>6 DEF DebitCredits, DepositStages
    <2>7. CASE ChooseSource(r)
      BY <1>4, <2>1, <2>7 DEF ChooseSource, DepositStages
    <2>8. CASE SubmitPayout(r)
      BY <2>1, <2>8 DEF SubmitPayout, DepositStages
    <2>9. CASE Refund(r) \/ LogWithdrawal(r)
      BY <1>5, <2>9 DEF Refund, LogWithdrawal
    <2>10. QED
      BY <1>8, <2>2, <2>3, <2>4, <2>5, <2>6, <2>7, <2>8, <2>9 DEF WithdrawStep
  <1>9. CASE PostDeposit
    <2>1. PICK r \in Requests :
            Goes(r, [stage |-> "check", by |-> dialog.by, tx |-> dialog.tx,
                     amount |-> dialog.amount, read |-> TRUE, heard |-> TRUE])
      BY <1>9 DEF PostDeposit, Goes
    <2>2. /\ dialog.by \in Accounts /\ dialog.tx \in Txs /\ dialog.amount \in Amounts
          /\ swap[dialog.tx] # None /\ swap[dialog.tx].by = dialog.by
          /\ swap[dialog.tx].blockPrice # None
          /\ UNCHANGED swap
      BY <1>9 DEF PostDeposit, BridgeInv, DialogIsOfSwap
    <2>3. request'[r] = [stage |-> "check", by |-> dialog.by, tx |-> dialog.tx,
                         amount |-> dialog.amount, read |-> TRUE, heard |-> TRUE]
      BY <1>1, <2>1 DEF Goes
    <2>4. RequestOK(r)'
      BY <2>2, <2>3 DEF RequestOK, DepositOfSwap, DepositStages
    <2>5. QED
      BY <1>3, <2>1, <2>4
  <1>10. CASE Crash
    BY <1>10 DEF Crash, Idle, DepositsAreOfSwaps, RequestOK, DepositStages
  <1>11. CASE \/ MarketMoves \/ QuotePrice \/ SyncReads \/ SyncIsMined
              \/ MineBlock \/ LiquidityChanges \/ VaultIsFunded
    BY <1>2, <1>11 DEF MarketMoves, QuotePrice, SyncReads, SyncIsMined, MineBlock,
       LiquidityChanges, VaultIsFunded
  <1>12. CASE LoadConfig \/ ReadRouterPrice \/ CloseDialog \/ EditAmount \/ Convert
    BY <1>2, <1>12 DEF LoadConfig, ReadRouterPrice, CloseDialog, EditAmount, Convert
  <1>13. ASSUME NEW u \in Accounts, OpenDialog(u)
         PROVE  UNCHANGED request
    BY <1>13 DEF OpenDialog
  <1>14. ASSUME NEW p \in payouts, PayoutIsMined(p)
         PROVE  UNCHANGED request
    BY <1>14 DEF PayoutIsMined
  <1>15. QED
    BY <1>2, <1>7, <1>8, <1>9, <1>10, <1>11, <1>12, <1>13, <1>14 DEF BridgeNext, bridgeVars

LEMMA BridgeInitInv == BridgeInit => BridgeInv
  BY DEF BridgeInit, ContractsInit, BridgeInv, SwapsPriced, PricesKnown, DialogIsOfSwap, Closed,
         DepositsAreOfSwaps, RequestOK, Idle, DepositStages

LEMMA BridgeInvStep == BridgeInv /\ [BridgeNext]_bridgeVars => BridgeInv'
  BY SwapsStep, PricesStep, DialogStep, RequestsStep DEF BridgeInv

LEMMA BridgeInvariant == BridgeSpec => []BridgeInv
  BY BridgeInitInv, BridgeInvStep, PTL DEF BridgeSpec

(* verifySwapCreditTx refuses a player's own mined swap only if the node   *)
(* does not tell it, the amount in the dialog was edited, the price was    *)
(* set in the swap's block or the hook had no fee to report, for any       *)
(* prices and retries; whatever the feeds quote in the meantime, a refusal *)
(* is never for that.                                                      *)
THEOREM RefusalsHaveReasons == BridgeSpec => []RefusedForAReason
  <1>1. BridgeInv => RefusedForAReason
    BY DEF BridgeInv, DepositsAreOfSwaps, RequestOK, Reason, RefusedForAReason, InStage
  <1>2. QED
    BY <1>1, BridgeInvariant, PTL

-----------------------------------------------------------------------------
(* What requests that run at one time may do to the books, and that the    *)
(* payouts are accounted for.                                              *)

Most == Max(Withdrawals \cup {0})
Others == Cardinality(Requests) - 1

AsksWell(asks) ==
  asks.stage \in WithdrawStages =>
    /\ {"by", "amount"} \subseteq DOMAIN asks
    /\ asks.by \in Accounts /\ asks.amount \in Withdrawals

BooksTyped ==
  /\ balance \in [Accounts -> Int]
  /\ deposited \in [Txs -> Nat]
  /\ outcome \in [mined : Nat, reverted : Nat, unknown : Nat, logged : Nat]
  /\ failures \in Nat
  /\ IsFiniteSet(payouts)
  /\ \A r \in Requests : AsksWell(request[r])

(* The deposits of a swap that have found it unknown and have not recorded *)
(* it: as many as can still credit it.                                     *)
RaceStages == {"verify", "credit", "record"}
Racing(t) == {r \in Requests : request[r].stage \in RaceStages /\ request[r].tx = t}

DepositsRace == \A t \in Txs : deposited[t] + Cardinality(Racing(t)) <= Cardinality(Requests)

(* The withdrawals of an account that have found the credits there and     *)
(* have not taken them.  All but one of them may find too little.          *)
CheckedStages == {"price", "treasury", "debit"}
Checked(u) == {r \in Requests : request[r].stage \in CheckedStages /\ request[r].by = u}

Covers(b, S, asked) ==
  \/ S = {} /\ b >= -(Others * Most)
  \/ \E r \in S : b >= asked[r].amount + (Cardinality(S) - 1) * Most - Others * Most

WithdrawalsRace == \A u \in Accounts : Covers(balance[u], Checked(u), request)

(* Payouts carry the number of those sent before them, so that a new one   *)
(* is never the same as one that is under way.                             *)
SentSoFar == Cardinality(payouts) + outcome.mined + outcome.reverted

PayoutsNumbered ==
  /\ \A p \in payouts : p.n \in Nat /\ p.n < SentSoFar
  /\ LET heard == outcome.logged + outcome.unknown + Cardinality(InStage({"log"}))
     IN  /\ heard <= SentSoFar
         /\ failures = 0 => heard = SentSoFar

BooksInv == BooksTyped /\ DepositsRace /\ WithdrawalsRace /\ PayoutsNumbered

LEMMA MostIsMost == Most \in Nat /\ \A c \in Withdrawals : c \in Nat /\ c <= Most
  <1>1. PICK most \in Withdrawals \cup {0} : \A c \in Withdrawals : c <= most
    BY BridgeConstants
  <1>2. Withdrawals \cup {0} \subseteq Nat /\ \A c \in Withdrawals \cup {0} : most >= c
    <2>1. Withdrawals \subseteq Nat
      BY BridgeConstants
    <2>2. Withdrawals \cup {0} \subseteq Nat /\ most \in Nat
      BY <2>1
    <2>3. \A c \in Withdrawals \cup {0} : most >= c
      BY <1>1, <2>2
    <2>4. QED
      BY <2>2, <2>3
  <1>3. Most \in Withdrawals \cup {0} /\ \A c \in Withdrawals \cup {0} : Most >= c
    <2>1. \E x \in Withdrawals \cup {0} : \A c \in Withdrawals \cup {0} : x >= c
      BY <1>2
    <2>2. QED
      BY <2>1, Zenon DEF Most, Max
  <1>4. QED
    BY <1>2, <1>3

LEMMA PartsAreFinite ==
  ASSUME NEW S \in SUBSET Requests
  PROVE  IsFiniteSet(S) /\ Cardinality(S) \in Nat /\ Cardinality(S) <= Cardinality(Requests)
  BY FS_Subset, FS_CardinalityType, BridgeConstants

LEMMA SomebodyAsks == Others \in Nat /\ Cardinality(Requests) = Others + 1
  <1>1. Cardinality(Requests) \in Nat /\ Cardinality(Requests) # 0
    BY FS_CardinalityType, FS_EmptySet, BridgeConstants
  <1>2. QED
    BY <1>1 DEF Others

-----------------------------------------------------------------------------
(* A balance that covers the withdrawals that were checked, but for those  *)
(* of the others, still does when one of them takes its credits or gives   *)
(* up, and when another one is checked.                                    *)

LEMMA CoversBounds ==
  ASSUME NEW S \in SUBSET Requests, NEW b \in Int, NEW asked,
         \A q \in S : asked[q].amount \in Withdrawals, Covers(b, S, asked)
  PROVE  b >= -(Others * Most)
  <1>1. CASE S = {} /\ b >= -(Others * Most)
    BY <1>1
  <1>2. ASSUME NEW q \in S,
               b >= asked[q].amount + (Cardinality(S) - 1) * Most - Others * Most
        PROVE  b >= -(Others * Most)
    <2>1. Cardinality(S) \in Nat /\ Cardinality(S) # 0
      BY PartsAreFinite, FS_EmptySet
    <2>2. (Cardinality(S) - 1) * Most \in Nat /\ Others * Most \in Nat
      BY <2>1, MostIsMost, SomebodyAsks
    <2>3. asked[q].amount \in Nat
      BY MostIsMost
    <2>4. QED
      BY <1>2, <2>2, <2>3
  <1>3. QED
    BY <1>1, <1>2 DEF Covers

LEMMA StaysCovered ==
  ASSUME NEW S \in SUBSET Requests, NEW b \in Int, NEW c \in Int, NEW asked, NEW now,
         \A q \in S : asked[q].amount \in Withdrawals,
         \A q \in S : now[q].amount = asked[q].amount,
         Covers(b, S, asked), c >= b
  PROVE  Covers(c, S, now)
  <1>1. Cardinality(S) \in Nat
    BY PartsAreFinite
  <1>2. Others * Most \in Int /\ (Cardinality(S) - 1) * Most \in Int
    BY <1>1, MostIsMost, SomebodyAsks
  <1>3. CASE S = {} /\ b >= -(Others * Most)
    BY <1>2, <1>3 DEF Covers
  <1>4. ASSUME NEW q \in S,
               b >= asked[q].amount + (Cardinality(S) - 1) * Most - Others * Most
        PROVE  Covers(c, S, now)
    <2>1. asked[q].amount \in Nat /\ now[q].amount = asked[q].amount
      BY MostIsMost
    <2>2. c >= now[q].amount + (Cardinality(S) - 1) * Most - Others * Most
      BY <1>2, <1>4, <2>1
    <2>3. QED
      BY <2>2 DEF Covers
  <1>5. QED
    BY <1>3, <1>4 DEF Covers

LEMMA LeavesCovered ==
  ASSUME NEW S \in SUBSET Requests, NEW r \in S, NEW b \in Int, NEW c \in Int, NEW asked, NEW now,
         \A q \in S : asked[q].amount \in Withdrawals,
         \A q \in S \ {r} : now[q].amount = asked[q].amount,
         Covers(b, S, asked), c >= b - asked[r].amount
  PROVE  Covers(c, S \ {r}, now)
  <1> DEFINE rest == S \ {r}
             kept == Cardinality(rest)
  <1>1. kept \in Nat /\ Cardinality(S) = kept + 1
    BY PartsAreFinite, FS_RemoveElement
  <1>2. Others * Most \in Nat /\ kept * Most \in Nat /\ Most \in Nat
    BY <1>1, MostIsMost, SomebodyAsks
  <1>3. PICK q \in S : b >= asked[q].amount + kept * Most - Others * Most
    <2>1. Cardinality(S) - 1 = kept
      BY <1>1
    <2>2. QED
      BY <2>1, Zenon DEF Covers
  <1>4. asked[q].amount \in Nat /\ asked[r].amount \in Nat
        /\ asked[q].amount <= Most /\ asked[r].amount <= Most
    BY MostIsMost
  <1>5. CASE rest = {}
    <2>1. q = r
      BY <1>5
    <2>2. c >= kept * Most - Others * Most
      BY <1>2, <1>3, <1>4, <2>1
    <2>3. c >= -(Others * Most)
      BY <1>2, <2>2
    <2>4. QED
      BY <1>5, <2>3 DEF Covers
  <1>6. CASE rest # {}
    <2>1. kept # 0 /\ kept - 1 \in Nat
      BY <1>1, <1>6, PartsAreFinite, FS_EmptySet
    <2>2. kept * Most = (kept - 1) * Most + Most /\ (kept - 1) * Most \in Nat
      <3>1. PICK less \in Nat : kept = less + 1 /\ kept - 1 = less
        BY <1>1, <2>1
      <3>2. less * Most \in Nat /\ (less + 1) * Most = less * Most + Most
        BY <1>2
      <3>3. QED
        BY <3>1, <3>2
    <2>3. PICK p \in rest : p = q \/ q = r
      BY <1>6
    <2>4. now[p].amount \in Nat /\ now[p].amount <= Most /\ now[p].amount = asked[p].amount
      BY MostIsMost
    <2>5. c >= now[p].amount + (kept - 1) * Most - Others * Most
      <3>1. b >= asked[q].amount + ((kept - 1) * Most + Most) - Others * Most
        BY <1>3, <2>2
      <3>2. CASE p = q
        <4>1. b >= now[p].amount + ((kept - 1) * Most + Most) - Others * Most
          BY <2>4, <3>1, <3>2
        <4>2. QED
          BY <1>2, <1>4, <2>2, <2>4, <4>1
      <3>3. CASE q = r
        <4>1. b >= asked[r].amount + ((kept - 1) * Most + Most) - Others * Most
          BY <3>1, <3>3
        <4>2. QED
          BY <1>2, <1>4, <2>2, <2>4, <4>1
      <3>4. QED
        BY <2>3, <3>2, <3>3
    <2>6. QED
      BY <2>5 DEF Covers
  <1>7. QED
    BY <1>5, <1>6

LEMMA EntersCovered ==
  ASSUME NEW S \in SUBSET Requests, NEW r \in Requests \ S, NEW b \in Int, NEW now,
         now[r].amount \in Withdrawals, b >= now[r].amount
  PROVE  Covers(b, S \cup {r}, now)
  <1> DEFINE n == Cardinality(S)
  <1>1. n \in Nat /\ Cardinality(S \cup {r}) = n + 1
    BY PartsAreFinite, FS_AddElement
  <1>2. n + 1 <= Others + 1
    BY <1>1, PartsAreFinite, SomebodyAsks
  <1>3. PICK spare \in Nat : Others = n + spare
    <2>1. Others - n \in Nat /\ Others = n + (Others - n)
      BY <1>1, <1>2, SomebodyAsks
    <2>2. QED
      BY <2>1
  <1>4. n * Most \in Nat /\ spare * Most \in Nat /\ Others * Most = n * Most + spare * Most
    BY <1>1, <1>3, MostIsMost
  <1>5. now[r].amount \in Nat
    BY MostIsMost
  <1> HIDE DEF n
  <1>6. b >= now[r].amount + n * Most - Others * Most
    BY <1>4, <1>5
  <1>7. b >= now[r].amount + (Cardinality(S \cup {r}) - 1) * Most - Others * Most
    BY <1>1, <1>6
  <1>8. QED
    BY <1>7 DEF Covers

-----------------------------------------------------------------------------
(* What one request does to the books when it goes on.                     *)

RacesOn(r, next) ==
  next.stage \in RaceStages =>
    \/ request[r].stage \in RaceStages /\ next.tx = request[r].tx
    \/ deposited[next.tx] = 0

ChecksOn(r, next) ==
  next.stage \in CheckedStages =>
    \/ /\ request[r].stage \in CheckedStages
       /\ next.by = request[r].by /\ next.amount = request[r].amount
    \/ /\ request[r].stage \notin CheckedStages
       /\ next.amount \in Withdrawals /\ balance[next.by] >= next.amount

LEMMA OneMoves ==
  ASSUME BridgeInv, NEW r \in Requests, NEW next, Goes(r, next)
  PROVE  request'[r] = next /\ \A q \in Requests \ {r} : request'[q] = request[q]
  BY DEF BridgeInv, DepositsAreOfSwaps, Goes

LEMMA MoveAsksWell ==
  ASSUME BridgeInv, BooksTyped, NEW r \in Requests, NEW next, Goes(r, next), AsksWell(next)
  PROVE  \A q \in Requests : AsksWell(request'[q])
  BY OneMoves DEF BooksTyped

LEMMA MoveRaces ==
  ASSUME BridgeInv, BooksInv, NEW r \in Requests, NEW next, Goes(r, next), RacesOn(r, next),
         UNCHANGED deposited
  PROVE  DepositsRace'
  <1> SUFFICES ASSUME NEW t \in Txs
               PROVE  deposited[t] + Cardinality(Racing(t)') <= Cardinality(Requests)
    BY DEF DepositsRace
  <1>1. Racing(t)' \subseteq Requests
    BY DEF Racing
  <1>2. deposited[t] \in Nat /\ deposited[t] + Cardinality(Racing(t)) <= Cardinality(Requests)
    BY DEF BooksInv, BooksTyped, DepositsRace
  <1>3. CASE deposited[t] = 0
    BY <1>1, <1>3, PartsAreFinite
  <1>4. CASE deposited[t] # 0
    <2>1. Racing(t)' \subseteq Racing(t) /\ Racing(t) \subseteq Requests
      BY <1>4, OneMoves DEF Racing, RacesOn
    <2>2. Cardinality(Racing(t)') <= Cardinality(Racing(t))
      BY <2>1, PartsAreFinite, FS_Subset
    <2>3. Cardinality(Racing(t)') \in Nat /\ Cardinality(Racing(t)) \in Nat
          /\ Cardinality(Requests) \in Nat
      BY <2>1, PartsAreFinite
    <2>4. QED
      BY <1>2, <2>2, <2>3
  <1>5. QED
    BY <1>3, <1>4

LEMMA MoveCovers ==
  ASSUME BridgeInv, BooksInv, NEW r \in Requests, NEW next, Goes(r, next), ChecksOn(r, next),
         balance' \in [Accounts -> Int], \A u \in Accounts : balance'[u] >= balance[u]
  PROVE  WithdrawalsRace'
  <1> SUFFICES ASSUME NEW u \in Accounts
               PROVE  Covers(balance'[u], Checked(u)', request')
    BY DEF WithdrawalsRace
  <1> DEFINE S == Checked(u)
  <1>1. S \in SUBSET Requests /\ Covers(balance[u], S, request)
        /\ balance[u] \in Int /\ balance'[u] \in Int /\ balance'[u] >= balance[u]
    BY DEF Checked, BooksInv, BooksTyped, WithdrawalsRace
  <1>2. \A q \in S : request[q].amount \in Withdrawals
    BY DEF BooksInv, BooksTyped, AsksWell, Checked, CheckedStages, WithdrawStages
  <1>3. request'[r] = next /\ \A q \in Requests \ {r} : request'[q] = request[q]
    BY OneMoves
  <1>4. CASE r \in S /\ next.stage \in CheckedStages
    <2>1. next.by = request[r].by /\ next.amount = request[r].amount
      BY <1>4 DEF ChecksOn, Checked
    <2>2. S' = S
      BY <1>3, <1>4, <2>1 DEF Checked
    <2>3. \A q \in S : request'[q].amount = request[q].amount
      BY <1>1, <1>3, <2>1
    <2>4. QED
      BY <1>1, <1>2, <2>2, <2>3, StaysCovered
  <1>5. CASE r \in S /\ next.stage \notin CheckedStages
    <2>1. S' = S \ {r}
      BY <1>3, <1>5 DEF Checked
    <2>2. \A q \in S \ {r} : request'[q].amount = request[q].amount
      BY <1>1, <1>3
    <2>3. request[r].amount \in Nat
      BY <1>2, <1>5, MostIsMost
    <2>4. balance'[u] >= balance[u] - request[r].amount
      BY <1>1, <2>3
    <2>5. Covers(balance'[u], S \ {r}, request')
      <3>1. r \in S
        BY <1>5
      <3> HIDE DEF S
      <3>2. QED
        BY <1>1, <1>2, <2>2, <2>4, <3>1, LeavesCovered
    <2>6. QED
      BY <2>1, <2>5
  <1>6. CASE r \notin S /\ next.stage \in CheckedStages /\ next.by = u
    <2>1. next.amount \in Withdrawals /\ balance[u] >= next.amount
      BY <1>6 DEF ChecksOn, Checked
    <2>2. S' = S \cup {r}
      BY <1>3, <1>6 DEF Checked
    <2>3. balance'[u] >= request'[r].amount
      BY <1>1, <1>3, <2>1, MostIsMost
    <2>4. Covers(balance'[u], S \cup {r}, request')
      <3>1. r \in Requests \ S /\ request'[r].amount \in Withdrawals
        BY <1>3, <1>6, <2>1
      <3> HIDE DEF S
      <3>2. QED
        BY <1>1, <2>3, <3>1, EntersCovered
    <2>5. QED
      BY <2>2, <2>4
  <1>7. CASE r \notin S /\ ~(next.stage \in CheckedStages /\ next.by = u)
    <2>1. S' = S
      BY <1>3, <1>7 DEF Checked
    <2>2. \A q \in S : request'[q].amount = request[q].amount
      BY <1>1, <1>3, <1>7
    <2>3. QED
      BY <1>1, <1>2, <2>1, <2>2, StaysCovered
  <1>8. QED
    BY <1>4, <1>5, <1>6, <1>7

LEMMA MoveSends ==
  ASSUME BridgeInv, BooksInv, NEW r \in Requests, NEW next, Goes(r, next),
         request[r].stage # "log", next.stage # "log", UNCHANGED <<payouts, outcome, failures>>
  PROVE  PayoutsNumbered'
  <1>1. InStage({"log"})' = InStage({"log"})
    BY OneMoves DEF InStage
  <1>2. SentSoFar' = SentSoFar
    BY DEF SentSoFar
  <1>3. QED
    BY <1>1, <1>2 DEF BooksInv, PayoutsNumbered

(* A step of a request that neither takes credits, records a deposit nor   *)
(* has anything to do with a payout.                                       *)
LEMMA QuietStep ==
  ASSUME BridgeInv, BooksInv, NEW r \in Requests, NEW next, Goes(r, next),
         RacesOn(r, next), ChecksOn(r, next), AsksWell(next),
         balance' \in [Accounts -> Int], \A u \in Accounts : balance'[u] >= balance[u],
         request[r].stage # "log", next.stage # "log",
         UNCHANGED <<deposited, payouts, outcome, failures>>
  PROVE  BooksInv'
  <1>1. DepositsRace'
    BY MoveRaces
  <1>2. WithdrawalsRace'
    BY MoveCovers
  <1>3. PayoutsNumbered'
    BY MoveSends
  <1>4. BooksTyped'
    BY MoveAsksWell DEF BooksInv, BooksTyped
  <1>5. QED
    BY <1>1, <1>2, <1>3, <1>4 DEF BooksInv

LEMMA RecordKeepsBooks ==
  ASSUME BridgeInv, BooksInv, NEW r \in Requests, RecordDeposit(r)
  PROVE  BooksInv'
  <1> DEFINE tx == request[r].tx
  <1>1. Goes(r, Idle) /\ UNCHANGED <<balance, payouts, outcome, failures>>
        /\ deposited' = [deposited EXCEPT ![tx] = @ + 1] /\ request[r].stage = "record"
    BY DEF RecordDeposit, At, DepositElse
  <1>2. request'[r] = Idle /\ \A q \in Requests \ {r} : request'[q] = request[q]
    BY <1>1, OneMoves
  <1>3. tx \in Txs
    BY <1>1 DEF BridgeInv, DepositsAreOfSwaps, RequestOK, DepositStages, DepositOfSwap
  <1>4. DepositsRace'
    <2> SUFFICES ASSUME NEW t \in Txs
                 PROVE  deposited'[t] + Cardinality(Racing(t)') <= Cardinality(Requests)
      BY DEF DepositsRace
    <2>1. deposited[t] \in Nat /\ deposited[t] + Cardinality(Racing(t)) <= Cardinality(Requests)
      BY DEF BooksInv, BooksTyped, DepositsRace
    <2>2. Racing(t)' = Racing(t) \ {r} /\ Racing(t) \in SUBSET Requests
      BY <1>2 DEF Racing, RaceStages, Idle
    <2>3. IsFiniteSet(Racing(t)) /\ Cardinality(Racing(t)) \in Nat /\ Cardinality(Requests) \in Nat
      BY <2>2, PartsAreFinite
    <2>4. CASE t = tx
      <3>1. r \in Racing(t)
        BY <1>1, <2>4 DEF Racing, RaceStages
      <3>2. Cardinality(Racing(t)') = Cardinality(Racing(t)) - 1
        BY <2>2, <2>3, <3>1, FS_RemoveElement
      <3>3. deposited'[t] = deposited[t] + 1
        BY <1>1, <1>3, <2>4 DEF BooksInv, BooksTyped
      <3>4. QED
        BY <2>1, <2>3, <3>2, <3>3
    <2>5. CASE t # tx
      <3>1. r \notin Racing(t)
        BY <2>5 DEF Racing
      <3>2. Racing(t)' = Racing(t) /\ deposited'[t] = deposited[t]
        BY <1>1, <2>2, <2>5, <3>1 DEF BooksInv, BooksTyped
      <3>3. QED
        BY <2>1, <3>2
    <2>6. QED
      BY <2>4, <2>5
  <1>5. WithdrawalsRace'
    <2>1. ChecksOn(r, Idle)
      BY DEF ChecksOn, Idle, CheckedStages
    <2>2. balance' \in [Accounts -> Int] /\ \A u \in Accounts : balance'[u] >= balance[u]
      BY <1>1 DEF BooksInv, BooksTyped
    <2>3. QED
      BY <1>1, <2>1, <2>2, MoveCovers
  <1>6. PayoutsNumbered'
    <2>1. request[r].stage # "log" /\ Idle.stage # "log"
      BY <1>1 DEF Idle
    <2>2. QED
      BY <1>1, <2>1, MoveSends
  <1>7. BooksTyped'
    <2>1. AsksWell(Idle)
      BY DEF AsksWell, Idle, WithdrawStages
    <2>2. \A q \in Requests : AsksWell(request'[q])
      BY <1>1, <2>1, MoveAsksWell DEF BooksInv
    <2>3. deposited' \in [Txs -> Nat]
      <3>1. deposited \in [Txs -> Nat] /\ deposited[tx] \in Nat
        BY <1>3 DEF BooksInv, BooksTyped
      <3>2. PICK n \in Nat : deposited' = [deposited EXCEPT ![tx] = n]
        <4>1. deposited[tx] + 1 \in Nat
          BY <3>1
        <4>2. deposited' = [deposited EXCEPT ![tx] = deposited[tx] + 1]
          BY <1>1, Zenon
        <4>3. QED
          BY <4>1, <4>2
      <3>3. QED
        BY <3>1, <3>2
    <2>4. QED
      BY <1>1, <2>2, <2>3 DEF BooksInv, BooksTyped
  <1>8. QED
    BY <1>4, <1>5, <1>6, <1>7 DEF BooksInv

LEMMA DepositKeepsBooks ==
  ASSUME BridgeInv, BooksInv, NEW r \in Requests, DepositStep(r)
  PROVE  BooksInv'
  <1>1. CASE Refuse(r)
    <2>1. Goes(r, Idle) /\ request[r].stage # "log" /\ Idle.stage # "log"
          /\ UNCHANGED <<balance, deposited, payouts, outcome, failures>>
      BY <1>1 DEF Refuse, At, Idle, books, DepositElse
    <2>2. RacesOn(r, Idle) /\ ChecksOn(r, Idle) /\ AsksWell(Idle)
      BY DEF RacesOn, RaceStages, ChecksOn, CheckedStages, AsksWell, WithdrawStages, Idle
    <2>3. balance' \in [Accounts -> Int] /\ \A u \in Accounts : balance'[u] >= balance[u]
      BY <2>1 DEF BooksInv, BooksTyped
    <2>4. QED
      BY <2>1, <2>2, <2>3, QuietStep
  <1>2. CASE CheckDeposit(r) \/ VerifyDeposit(r) \/ CreditDeposit(r) \/ PostIsLost(r)
    <2>1. /\ request[r] \in [stage : DepositStages, by : Accounts, tx : Txs, amount : Amounts,
                             read : BOOLEAN, heard : BOOLEAN]
          /\ swap[request[r].tx] \in Swaps
          /\ deposited[request[r].tx] \in Nat
      BY <1>2 DEF BridgeInv, DepositsAreOfSwaps, RequestOK, DepositOfSwap, CheckDeposit, VerifyDeposit,
         CreditDeposit, PostIsLost, At, DepositStages, SwapsPriced, BooksInv, BooksTyped
    <2>2. UNCHANGED <<deposited, payouts, outcome, failures>> /\ request[r].stage # "log"
      BY <1>2 DEF CheckDeposit, VerifyDeposit, CreditDeposit, PostIsLost, At, books, DepositElse,
         DepositStages
    <2>3. PICK next :
            /\ Goes(r, next) /\ next.tx = request[r].tx
            /\ next.stage \in DepositStages
            /\ next.stage \in RaceStages =>
                 request[r].stage \in RaceStages \/ deposited[request[r].tx] = 0
      <3>1. CASE CheckDeposit(r)
        <4>1. PICK stage \in {"known", "verify"} :
                /\ Goes(r, [request[r] EXCEPT !.stage = stage])
                /\ stage = "verify" => deposited[request[r].tx] = 0
          BY <2>1, <3>1 DEF CheckDeposit, IsTxAlreadyCredited
        <4>2. LET next == [request[r] EXCEPT !.stage = stage]
              IN  next.stage = stage /\ next.tx = request[r].tx
          BY <2>1
        <4>3. QED
          BY <4>1, <4>2 DEF DepositStages, RaceStages
      <3>2. CASE VerifyDeposit(r)
        <4>1. PICK told \in BOOLEAN, stage \in {"credit", "refused"} :
                Goes(r, [request[r] EXCEPT !.stage = stage, !.read = told])
          BY <3>2 DEF VerifyDeposit
        <4>2. LET next == [request[r] EXCEPT !.stage = stage, !.read = told]
              IN  next.stage = stage /\ next.tx = request[r].tx
          BY <2>1
        <4>3. request[r].stage \in RaceStages
          BY <3>2 DEF VerifyDeposit, At, RaceStages
        <4>4. QED
          BY <4>1, <4>2, <4>3 DEF DepositStages
      <3>3. CASE CreditDeposit(r)
        <4>1. LET next == [request[r] EXCEPT !.stage = "record"]
              IN  next.stage = "record" /\ next.tx = request[r].tx
          BY <2>1
        <4>2. QED
          BY <3>3, <4>1 DEF CreditDeposit, At, RaceStages, DepositStages
      <3>4. CASE PostIsLost(r)
        <4>1. LET next == [request[r] EXCEPT !.heard = FALSE]
              IN  next.stage = request[r].stage /\ next.tx = request[r].tx
          BY <2>1
        <4>2. QED
          BY <2>1, <3>4, <4>1 DEF PostIsLost
      <3>5. QED
        BY <1>2, <3>1, <3>2, <3>3, <3>4
    <2>5. RacesOn(r, next) /\ ChecksOn(r, next) /\ AsksWell(next) /\ next.stage # "log"
      BY <2>3 DEF DepositStages, RacesOn, RaceStages, ChecksOn, CheckedStages, AsksWell, WithdrawStages
    <2>6. balance' \in [Accounts -> Int] /\ \A u \in Accounts : balance'[u] >= balance[u]
      <3>1. CASE UNCHANGED balance
        BY <3>1 DEF BooksInv, BooksTyped
      <3>2. CASE CreditDeposit(r)
        <4>1. swap[request[r].tx].minted \in Nat
          BY <2>1 DEF Swaps
        <4>2. QED
          BY <2>1, <3>2, <4>1 DEF CreditDeposit, BooksInv, BooksTyped
      <3>3. QED
        BY <1>2, <3>1, <3>2 DEF CheckDeposit, VerifyDeposit, PostIsLost, books
    <2>8. QED
      BY <2>2, <2>3, <2>5, <2>6, QuietStep
  <1>3. QED
    BY <1>1, <1>2, RecordKeepsBooks DEF DepositStep

(* The steps of a withdrawal but those that take credits, send a payout or *)
(* log it.                                                                 *)
QuietWithdrawal(r) ==
  \/ \E u \in Accounts : Withdraw(r, u)
  \/ CheckBalance(r) \/ PriceWithdrawal(r) \/ CheckTreasury(r) \/ ChooseSource(r) \/ Refund(r)

LEMMA QuietWithdrawalKeepsBooks ==
  ASSUME BridgeInv, BooksInv, NEW r \in Requests, QuietWithdrawal(r)
  PROVE  BooksInv'
  <1>1. ASSUME NEW next, Goes(r, next), next = Idle,
               request[r].stage # "log", UNCHANGED <<deposited, payouts, outcome, failures>>,
               balance' \in [Accounts -> Int], \A u \in Accounts : balance'[u] >= balance[u]
        PROVE  BooksInv'
    <2>1. RacesOn(r, next) /\ ChecksOn(r, next) /\ AsksWell(next) /\ next.stage # "log"
      BY <1>1 DEF RacesOn, RaceStages, ChecksOn, CheckedStages, AsksWell, WithdrawStages, Idle
    <2>2. QED
      BY <1>1, <2>1, QuietStep
  <1>2. ASSUME NEW next, Goes(r, next),
               next.stage \in WithdrawStages \ {"log"}, {"by", "amount"} \subseteq DOMAIN next,
               next.by \in Accounts, next.amount \in Withdrawals, ChecksOn(r, next),
               request[r].stage # "log", UNCHANGED <<balance, deposited, payouts, outcome, failures>>
        PROVE  BooksInv'
    <2>1. RacesOn(r, next) /\ AsksWell(next) /\ next.stage # "log"
      BY <1>2 DEF RacesOn, RaceStages, AsksWell, WithdrawStages
    <2>2. balance' \in [Accounts -> Int] /\ \A u \in Accounts : balance'[u] >= balance[u]
      BY <1>2 DEF BooksInv, BooksTyped
    <2>3. QED
      BY <1>2, <2>1, <2>2, QuietStep
  <1>3. ASSUME UNCHANGED balance
        PROVE  balance' \in [Accounts -> Int] /\ \A u \in Accounts : balance'[u] >= balance[u]
    BY <1>3 DEF BooksInv, BooksTyped
  <1>4. ASSUME NEW u \in Accounts, Withdraw(r, u)
        PROVE  BooksInv'
    <2>1. PICK c \in Withdrawals : Goes(r, [stage |-> "balance", by |-> u, amount |-> c])
      BY <1>4 DEF Withdraw
    <2> DEFINE next == [stage |-> "balance", by |-> u, amount |-> c]
    <2>2. request[r].stage # "log" /\ UNCHANGED <<balance, deposited, payouts, outcome, failures>>
      BY <1>4 DEF Withdraw, Idle, WithdrawElse
    <2>3. /\ next.stage \in WithdrawStages \ {"log"} /\ {"by", "amount"} \subseteq DOMAIN next
          /\ next.by \in Accounts /\ next.amount \in Withdrawals /\ ChecksOn(r, next)
      BY DEF WithdrawStages, ChecksOn, CheckedStages
    <2> HIDE DEF next
    <2>4. Goes(r, next)
      BY <2>1 DEF next
    <2>5. QED
      BY <1>2, <2>2, <2>3, <2>4
  <1>5. ASSUME NEW stage, Goes(r, [request[r] EXCEPT !.stage = stage]),
               stage \in {"price", "debit", "refund"},
               request[r].stage \in WithdrawStages \ {"log"},
               stage = "price" => /\ request[r].stage = "balance"
                                  /\ balance[request[r].by] >= request[r].amount,
               stage = "debit" => request[r].stage = "treasury",
               UNCHANGED <<balance, deposited, payouts, outcome, failures>>
        PROVE  BooksInv'
    <2> DEFINE next == [request[r] EXCEPT !.stage = stage]
    <2>1. /\ {"stage", "by", "amount"} \subseteq DOMAIN request[r]
          /\ request[r].by \in Accounts /\ request[r].amount \in Withdrawals
      BY <1>5 DEF BridgeInv, DepositsAreOfSwaps, RequestOK, BooksInv, BooksTyped, AsksWell
    <2>2. /\ next.stage = stage /\ next.by = request[r].by /\ next.amount = request[r].amount
          /\ {"by", "amount"} \subseteq DOMAIN next
      BY <2>1
    <2>3. ChecksOn(r, next) /\ next.stage \in WithdrawStages \ {"log"}
      BY <1>5, <2>1, <2>2 DEF ChecksOn, CheckedStages, WithdrawStages
    <2> HIDE DEF next
    <2>4. Goes(r, next) /\ request[r].stage # "log"
      BY <1>5 DEF next
    <2>5. QED
      BY <1>2, <1>5, <2>1, <2>2, <2>3, <2>4
  <1>6. CASE CheckBalance(r)
    <2>1. request[r].stage = "balance" /\ UNCHANGED <<balance, deposited, payouts, outcome, failures>>
      BY <1>6 DEF CheckBalance, At, WithdrawElse
    <2>2. CASE HasCredits(r)
      BY <1>5, <1>6, <2>1, <2>2 DEF CheckBalance, HasCredits, WithdrawStages
    <2>3. CASE ~HasCredits(r)
      BY <1>1, <1>3, <1>6, <2>1, <2>3 DEF CheckBalance
    <2>4. QED
      BY <2>2, <2>3
  <1>7. CASE CheckTreasury(r)
    <2>1. request[r].stage = "treasury" /\ UNCHANGED <<balance, deposited, payouts, outcome, failures>>
      BY <1>7 DEF CheckTreasury, At, WithdrawElse
    <2>2. CASE Goes(r, [request[r] EXCEPT !.stage = "debit"])
      BY <1>5, <2>1, <2>2 DEF WithdrawStages
    <2>3. CASE Goes(r, Idle)
      BY <1>1, <1>3, <2>1, <2>3
    <2>4. QED
      BY <1>7, <2>2, <2>3 DEF CheckTreasury
  <1>8. CASE PriceWithdrawal(r)
    <2>1. request[r].stage = "price" /\ UNCHANGED <<balance, deposited, payouts, outcome, failures>>
      BY <1>8 DEF PriceWithdrawal, At, WithdrawElse
    <2>2. request[r].by \in Accounts /\ request[r].amount \in Withdrawals
      BY <2>1 DEF BooksInv, BooksTyped, AsksWell, WithdrawStages
    <2>3. CASE Goes(r, Idle)
      BY <1>1, <1>3, <2>1, <2>3
    <2>4. ASSUME NEW worth,
                 Goes(r, [stage |-> "treasury", by |-> request[r].by, amount |-> request[r].amount,
                          okb |-> worth])
          PROVE  BooksInv'
      <3> DEFINE next == [stage |-> "treasury", by |-> request[r].by, amount |-> request[r].amount,
                          okb |-> worth]
      <3>1. /\ next.stage \in WithdrawStages \ {"log"} /\ {"by", "amount"} \subseteq DOMAIN next
            /\ next.by \in Accounts /\ next.amount \in Withdrawals
            /\ ChecksOn(r, next)
        BY <2>1, <2>2 DEF WithdrawStages, ChecksOn, CheckedStages
      <3> HIDE DEF next
      <3>2. Goes(r, next) /\ request[r].stage # "log"
        BY <2>1, <2>4 DEF next
      <3>3. QED
        BY <1>2, <2>1, <3>1, <3>2
    <2>5. QED
      BY <1>8, <2>3, <2>4 DEF PriceWithdrawal
  <1>9. CASE ChooseSource(r)
    <2>1. request[r].stage = "send" /\ UNCHANGED <<balance, deposited, payouts, outcome, failures>>
      BY <1>9 DEF ChooseSource, At, WithdrawElse
    <2>2. request[r].by \in Accounts /\ request[r].amount \in Withdrawals
      BY <2>1 DEF BooksInv, BooksTyped, AsksWell, WithdrawStages
    <2>3. CASE Goes(r, [request[r] EXCEPT !.stage = "refund"])
      BY <1>5, <2>1, <2>3 DEF WithdrawStages
    <2>4. ASSUME NEW source,
                 Goes(r, [stage |-> "submit", by |-> request[r].by, amount |-> request[r].amount,
                          okb |-> request[r].okb, from |-> source])
          PROVE  BooksInv'
      <3> DEFINE next == [stage |-> "submit", by |-> request[r].by, amount |-> request[r].amount,
                          okb |-> request[r].okb, from |-> source]
      <3>1. /\ next.stage \in WithdrawStages \ {"log"} /\ {"by", "amount"} \subseteq DOMAIN next
            /\ next.by \in Accounts /\ next.amount \in Withdrawals
            /\ ChecksOn(r, next)
        BY <2>1, <2>2 DEF WithdrawStages, ChecksOn, CheckedStages
      <3> HIDE DEF next
      <3>2. Goes(r, next) /\ request[r].stage # "log"
        BY <2>1, <2>4 DEF next
      <3>3. QED
        BY <1>2, <2>1, <3>1, <3>2
    <2>5. QED
      BY <1>9, <2>3, <2>4 DEF ChooseSource
  <1>10. CASE Refund(r)
    <2>1. /\ request[r].stage = "refund" /\ Goes(r, Idle)
          /\ UNCHANGED <<deposited, payouts, outcome, failures>>
          /\ balance' = [balance EXCEPT ![request[r].by] = @ + request[r].amount]
      BY <1>10 DEF Refund, At, WithdrawElse
    <2>2. request[r].by \in Accounts /\ request[r].amount \in Nat
      BY <2>1, MostIsMost DEF BooksInv, BooksTyped, AsksWell, WithdrawStages
    <2>3. balance' \in [Accounts -> Int] /\ \A u \in Accounts : balance'[u] >= balance[u]
      BY <2>1, <2>2 DEF BooksInv, BooksTyped
    <2>4. QED
      BY <1>1, <2>1, <2>3
  <1>11. QED
    BY <1>4, <1>6, <1>7, <1>8, <1>9, <1>10 DEF QuietWithdrawal

LEMMA DebitKeepsBooks ==
  ASSUME BridgeInv, BooksInv, NEW r \in Requests, DebitCredits(r)
  PROVE  BooksInv'
  <1> DEFINE me == request[r]
             next == [me EXCEPT !.stage = "send"]
  <1>1. /\ Goes(r, next) /\ UNCHANGED <<deposited, payouts, outcome, failures>>
        /\ balance' = [balance EXCEPT ![me.by] = @ - me.amount] /\ me.stage = "debit"
    BY DEF DebitCredits, At, WithdrawElse
  <1>2. /\ {"stage", "by", "amount"} \subseteq DOMAIN me
        /\ me.by \in Accounts /\ me.amount \in Withdrawals /\ me.amount \in Nat
    BY <1>1, MostIsMost DEF BridgeInv, DepositsAreOfSwaps, RequestOK, BooksInv, BooksTyped, AsksWell,
       WithdrawStages
  <1>3. /\ next.stage = "send" /\ next.by = me.by /\ next.amount = me.amount
        /\ {"by", "amount"} \subseteq DOMAIN next
    BY <1>2
  <1>4. RacesOn(r, next) /\ AsksWell(next) /\ me.stage # "log" /\ next.stage # "log"
    BY <1>1, <1>2, <1>3 DEF RacesOn, RaceStages, AsksWell
  <1>5. request'[r].stage = "send" /\ \A q \in Requests \ {r} : request'[q] = request[q]
    BY <1>1, <1>3, OneMoves
  <1>6. /\ balance \in [Accounts -> Int]
        /\ balance'[me.by] = balance[me.by] - me.amount
        /\ \A u \in Accounts \ {me.by} : balance'[u] = balance[u]
        /\ balance' \in [Accounts -> Int]
    BY <1>1, <1>2 DEF BooksInv, BooksTyped
  <1>7. WithdrawalsRace'
    <2> SUFFICES ASSUME NEW u \in Accounts
                 PROVE  Covers(balance'[u], Checked(u)', request')
      BY DEF WithdrawalsRace
    <2> DEFINE S == Checked(u)
    <2>1. S \in SUBSET Requests /\ Covers(balance[u], S, request)
          /\ balance[u] \in Int /\ balance'[u] \in Int
      BY <1>6 DEF Checked, BooksInv, WithdrawalsRace
    <2>2. \A q \in S : request[q].amount \in Withdrawals
      BY DEF BooksInv, BooksTyped, AsksWell, Checked, CheckedStages, WithdrawStages
    <2>3. CASE u = me.by
      <3>1. r \in S /\ S' = S \ {r}
        BY <1>1, <1>5, <2>3 DEF Checked, CheckedStages
      <3>2. \A q \in S \ {r} : request'[q].amount = request[q].amount
        BY <1>5, <2>1
      <3>3. balance'[u] >= balance[u] - request[r].amount
        BY <1>2, <1>6, <2>3
      <3>4. Covers(balance'[u], S \ {r}, request')
        <4>1. r \in S
          BY <3>1
        <4> HIDE DEF S
        <4>2. QED
          BY <2>1, <2>2, <3>2, <3>3, <4>1, LeavesCovered
      <3>5. QED
        BY <3>1, <3>4
    <2>4. CASE u # me.by
      <3>1. r \notin S /\ S' = S
        BY <1>5, <2>4 DEF Checked, CheckedStages
      <3>2. \A q \in S : request'[q].amount = request[q].amount
        BY <1>5, <2>1, <3>1
      <3>3. balance'[u] >= balance[u]
        BY <1>6, <2>4
      <3>4. Covers(balance'[u], S, request')
        <4> HIDE DEF S
        <4>1. QED
          BY <2>1, <2>2, <3>2, <3>3, StaysCovered
      <3>5. QED
        BY <3>1, <3>4
    <2>5. QED
      BY <2>3, <2>4
  <1> HIDE DEF next
  <1>8. DepositsRace' /\ PayoutsNumbered'
    BY <1>1, <1>4, MoveRaces, MoveSends
  <1>9. BooksTyped'
    <2>1. \A q \in Requests : AsksWell(request'[q])
      BY <1>1, <1>4, MoveAsksWell DEF BooksInv
    <2>2. QED
      BY <1>1, <1>6, <2>1 DEF BooksInv, BooksTyped
  <1>10. QED
    BY <1>7, <1>8, <1>9 DEF BooksInv

(* A step towards or from the log of payouts: what is left to show is that *)
(* the payouts are still finite and accounted for.                         *)
LEMMA PayingKeepsBooks ==
  ASSUME BridgeInv, BooksInv, NEW r \in Requests, NEW next, Goes(r, next),
         next.stage \notin RaceStages \cup CheckedStages, AsksWell(next),
         UNCHANGED <<balance, deposited, failures>>, IsFiniteSet(payouts'),
         outcome' \in [mined : Nat, reverted : Nat, unknown : Nat, logged : Nat],
         PayoutsNumbered'
  PROVE  BooksInv'
  <1>1. RacesOn(r, next) /\ ChecksOn(r, next)
    BY DEF RacesOn, ChecksOn
  <1>2. balance' \in [Accounts -> Int] /\ \A u \in Accounts : balance'[u] >= balance[u]
    BY DEF BooksInv, BooksTyped
  <1>3. DepositsRace' /\ WithdrawalsRace'
    BY <1>1, <1>2, MoveRaces, MoveCovers
  <1>4. \A q \in Requests : AsksWell(request'[q])
    BY MoveAsksWell DEF BooksInv
  <1>5. BooksTyped'
    BY <1>4 DEF BooksInv, BooksTyped
  <1>6. QED
    BY <1>3, <1>5 DEF BooksInv

LEMMA LogIsFinite ==
  /\ IsFiniteSet(InStage({"log"})) /\ Cardinality(InStage({"log"})) \in Nat
  /\ IsFiniteSet(InStage({"log"})') /\ Cardinality(InStage({"log"})') \in Nat
  <1>1. InStage({"log"}) \in SUBSET Requests /\ InStage({"log"})' \in SUBSET Requests
    BY DEF InStage
  <1>2. QED
    BY <1>1, PartsAreFinite

LEMMA LoggingKeepsBooks ==
  ASSUME BridgeInv, BooksInv, NEW r \in Requests, LogWithdrawal(r)
  PROVE  BooksInv'
  <1>1. /\ Goes(r, Idle) /\ request[r].stage = "log"
        /\ UNCHANGED <<balance, deposited, payouts, failures>>
        /\ outcome' = [outcome EXCEPT !.logged = @ + 1]
    BY DEF LogWithdrawal, At, WithdrawElse
  <1>2. outcome \in [mined : Nat, reverted : Nat, unknown : Nat, logged : Nat]
    BY DEF BooksInv, BooksTyped
  <1>3. /\ outcome' \in [mined : Nat, reverted : Nat, unknown : Nat, logged : Nat]
        /\ outcome'.mined = outcome.mined /\ outcome'.reverted = outcome.reverted
        /\ outcome'.unknown = outcome.unknown /\ outcome'.logged = outcome.logged + 1
    BY <1>1, <1>2
  <1>4. InStage({"log"})' = InStage({"log"}) \ {r} /\ r \in InStage({"log"})
    BY <1>1, OneMoves DEF InStage, Idle
  <1>5. Cardinality(InStage({"log"})') = Cardinality(InStage({"log"})) - 1
    BY <1>4, LogIsFinite, FS_RemoveElement
  <1>6. PayoutsNumbered'
    <2>1. SentSoFar' = SentSoFar
      BY <1>1, <1>3 DEF SentSoFar
    <2>2. outcome'.logged + outcome'.unknown + Cardinality(InStage({"log"})')
            = outcome.logged + outcome.unknown + Cardinality(InStage({"log"}))
      BY <1>2, <1>3, <1>5, LogIsFinite
    <2>3. QED
      BY <1>1, <2>1, <2>2 DEF BooksInv, PayoutsNumbered
  <1>7. Idle.stage \notin RaceStages \cup CheckedStages /\ AsksWell(Idle) /\ IsFiniteSet(payouts')
    BY <1>1 DEF Idle, RaceStages, CheckedStages, AsksWell, WithdrawStages, BooksInv, BooksTyped
  <1>8. QED
    BY <1>1, <1>3, <1>6, <1>7, PayingKeepsBooks

(* The payout that is sent next bears a number no other one has.           *)
LEMMA NewPayoutCounts ==
  ASSUME BridgeInv, BooksInv, NEW r \in Requests, payouts' = payouts \cup {Sent(r)},
         outcome'.mined = outcome.mined, outcome'.reverted = outcome.reverted
  PROVE  /\ IsFiniteSet(payouts') /\ SentSoFar \in Nat /\ SentSoFar' = SentSoFar + 1
         /\ \A p \in payouts' : p.n \in Nat /\ p.n < SentSoFar'
  <1>1. /\ IsFiniteSet(payouts) /\ Cardinality(payouts) \in Nat
        /\ outcome.mined \in Nat /\ outcome.reverted \in Nat
    BY FS_CardinalityType DEF BooksInv, BooksTyped
  <1>2. SentSoFar \in Nat /\ Sent(r).n = SentSoFar
    BY <1>1 DEF SentSoFar, Sent
  <1>3. \A p \in payouts : p.n \in Nat /\ p.n < SentSoFar
    BY DEF BooksInv, PayoutsNumbered
  <1>4. Sent(r) \notin payouts
    BY <1>2, <1>3
  <1>5. IsFiniteSet(payouts') /\ Cardinality(payouts') = Cardinality(payouts) + 1
    BY <1>1, <1>4, FS_AddElement
  <1>6. SentSoFar' = SentSoFar + 1
    BY <1>1, <1>5 DEF SentSoFar
  <1>7. QED
    BY <1>2, <1>3, <1>5, <1>6

LEMMA SubmittingKeepsBooks ==
  ASSUME BridgeInv, BooksInv, NEW r \in Requests, SubmitPayout(r)
  PROVE  BooksInv'
  <1> DEFINE me == request[r]
             Next(stage) == [me EXCEPT !.stage = stage]
  <1>1. me.stage = "submit" /\ UNCHANGED <<balance, deposited, failures>>
    BY DEF SubmitPayout, At, WithdrawElse
  <1>2. /\ {"stage", "by", "amount"} \subseteq DOMAIN me
        /\ me.by \in Accounts /\ me.amount \in Withdrawals
    BY <1>1 DEF BridgeInv, DepositsAreOfSwaps, RequestOK, BooksInv, BooksTyped, AsksWell,
       WithdrawStages
  <1>3. ASSUME NEW stage \in {"log", "refund"}
        PROVE  /\ Next(stage).stage = stage
               /\ Next(stage).stage \notin RaceStages \cup CheckedStages
               /\ AsksWell(Next(stage))
    BY <1>2 DEF RaceStages, CheckedStages, AsksWell
  <1>4. outcome \in [mined : Nat, reverted : Nat, unknown : Nat, logged : Nat]
    BY DEF BooksInv, BooksTyped
  <1>5. ASSUME NEW stage \in {"log", "refund"}, Goes(r, Next(stage))
        PROVE  InStage({"log"})' = IF stage = "log" THEN InStage({"log"}) \cup {r}
                                   ELSE InStage({"log"})
    BY <1>1, <1>3, <1>5, OneMoves DEF InStage
  <1>6. CASE payouts' = payouts \cup {Sent(r)} /\ Goes(r, Next("log")) /\ UNCHANGED outcome
    <2>1. /\ IsFiniteSet(payouts') /\ SentSoFar \in Nat /\ SentSoFar' = SentSoFar + 1
          /\ \A p \in payouts' : p.n \in Nat /\ p.n < SentSoFar'
      BY <1>6, NewPayoutCounts
    <2>2. InStage({"log"})' = InStage({"log"}) \cup {r} /\ r \notin InStage({"log"})
      BY <1>1, <1>5, <1>6 DEF InStage
    <2>3. Cardinality(InStage({"log"})') = Cardinality(InStage({"log"})) + 1
      BY <2>2, LogIsFinite, FS_AddElement
    <2>4. outcome'.logged + outcome'.unknown + Cardinality(InStage({"log"})')
            = outcome.logged + outcome.unknown + Cardinality(InStage({"log"})) + 1
      BY <1>4, <1>6, <2>3, LogIsFinite
    <2>5. PayoutsNumbered'
      BY <1>1, <1>4, <2>1, <2>4, LogIsFinite DEF BooksInv, PayoutsNumbered
    <2>6. outcome' \in [mined : Nat, reverted : Nat, unknown : Nat, logged : Nat]
      BY <1>4, <1>6
    <2>7. Next("log").stage \notin RaceStages \cup CheckedStages /\ AsksWell(Next("log"))
      BY <1>3
    <2> HIDE DEF Next
    <2>8. Goes(r, Next("log"))
      BY <1>6
    <2>9. QED
      BY <1>1, <2>1, <2>5, <2>6, <2>7, <2>8, PayingKeepsBooks
  <1>7. CASE /\ payouts' = payouts \cup {Sent(r)} /\ Goes(r, Next("refund"))
             /\ outcome' = [outcome EXCEPT !.unknown = @ + 1]
    <2>1. /\ outcome' \in [mined : Nat, reverted : Nat, unknown : Nat, logged : Nat]
          /\ outcome'.mined = outcome.mined /\ outcome'.reverted = outcome.reverted
          /\ outcome'.unknown = outcome.unknown + 1 /\ outcome'.logged = outcome.logged
      BY <1>4, <1>7
    <2>2. /\ IsFiniteSet(payouts') /\ SentSoFar \in Nat /\ SentSoFar' = SentSoFar + 1
          /\ \A p \in payouts' : p.n \in Nat /\ p.n < SentSoFar'
      BY <1>7, <2>1, NewPayoutCounts
    <2>3. InStage({"log"})' = InStage({"log"})
      BY <1>5, <1>7
    <2>4. outcome'.logged + outcome'.unknown + Cardinality(InStage({"log"})')
            = outcome.logged + outcome.unknown + Cardinality(InStage({"log"})) + 1
      BY <1>4, <2>1, <2>3, LogIsFinite
    <2>5. PayoutsNumbered'
      BY <1>1, <1>4, <2>2, <2>4, LogIsFinite DEF BooksInv, PayoutsNumbered
    <2>6. Next("refund").stage \notin RaceStages \cup CheckedStages /\ AsksWell(Next("refund"))
      BY <1>3
    <2> HIDE DEF Next
    <2>7. Goes(r, Next("refund"))
      BY <1>7
    <2>8. QED
      BY <1>1, <2>1, <2>2, <2>5, <2>6, <2>7, PayingKeepsBooks
  <1>8. CASE Goes(r, Next("refund")) /\ UNCHANGED <<payouts, outcome>>
    <2>1. Next("refund").stage \notin RaceStages \cup CheckedStages /\ AsksWell(Next("refund"))
          /\ Next("refund").stage # "log"
      BY <1>3
    <2>2. IsFiniteSet(payouts')
          /\ outcome' \in [mined : Nat, reverted : Nat, unknown : Nat, logged : Nat]
      BY <1>8 DEF BooksInv, BooksTyped
    <2> HIDE DEF Next
    <2>3. Goes(r, Next("refund"))
      BY <1>8
    <2>4. PayoutsNumbered'
      BY <1>1, <1>8, <2>1, <2>3, MoveSends
    <2>5. QED
      BY <1>1, <2>1, <2>2, <2>3, <2>4, PayingKeepsBooks
  <1>9. QED
    BY <1>6, <1>7, <1>8 DEF SubmitPayout

LEMMA WithdrawKeepsBooks ==
  ASSUME BridgeInv, BooksInv, NEW r \in Requests, WithdrawStep(r)
  PROVE  BooksInv'
  <1>1. QuietWithdrawal(r) \/ DebitCredits(r) \/ SubmitPayout(r) \/ LogWithdrawal(r)
    BY DEF WithdrawStep, QuietWithdrawal
  <1>2. QED
    BY <1>1, QuietWithdrawalKeepsBooks, DebitKeepsBooks, SubmittingKeepsBooks, LoggingKeepsBooks

LEMMA MiningKeepsBooks ==
  ASSUME BooksInv, NEW p \in payouts, PayoutIsMined(p)
  PROVE  BooksInv'
  <1>1. /\ payouts' = payouts \ {p} /\ UNCHANGED <<balance, deposited, request, failures>>
        /\ \/ outcome' = [outcome EXCEPT !.mined = @ + 1]
           \/ outcome' = [outcome EXCEPT !.reverted = @ + 1]
    BY DEF PayoutIsMined, books
  <1>2. outcome \in [mined : Nat, reverted : Nat, unknown : Nat, logged : Nat]
    BY DEF BooksInv, BooksTyped
  <1>3. /\ outcome' \in [mined : Nat, reverted : Nat, unknown : Nat, logged : Nat]
        /\ outcome'.mined + outcome'.reverted = outcome.mined + outcome.reverted + 1
        /\ outcome'.unknown = outcome.unknown /\ outcome'.logged = outcome.logged
    <2>1. CASE outcome' = [outcome EXCEPT !.mined = @ + 1]
      BY <1>2, <2>1
    <2>2. CASE outcome' = [outcome EXCEPT !.reverted = @ + 1]
      BY <1>2, <2>2
    <2>3. QED
      BY <1>1, <2>1, <2>2
  <1>4. /\ IsFiniteSet(payouts) /\ Cardinality(payouts) \in Nat
        /\ IsFiniteSet(payouts') /\ Cardinality(payouts') = Cardinality(payouts) - 1
    BY <1>1, FS_CardinalityType, FS_RemoveElement DEF BooksInv, BooksTyped
  <1>5. SentSoFar' = SentSoFar
    BY <1>2, <1>3, <1>4 DEF SentSoFar
  <1>6. /\ InStage({"log"})' = InStage({"log"})
        /\ \A t \in Txs : Racing(t)' = Racing(t)
        /\ \A u \in Accounts : Checked(u)' = Checked(u)
    BY <1>1 DEF InStage, Racing, Checked
  <1>7. PayoutsNumbered'
    BY <1>1, <1>3, <1>5, <1>6 DEF BooksInv, PayoutsNumbered
  <1>8. DepositsRace' /\ WithdrawalsRace'
    <2>1. DepositsRace'
      BY <1>1, <1>6 DEF BooksInv, DepositsRace
    <2>2. WithdrawalsRace'
      <3> SUFFICES ASSUME NEW u \in Accounts
                   PROVE  Covers(balance'[u], Checked(u)', request')
        BY DEF WithdrawalsRace
      <3>1. Covers(balance[u], Checked(u), request)
        BY DEF BooksInv, WithdrawalsRace
      <3>2. balance'[u] = balance[u] /\ Checked(u)' = Checked(u) /\ request' = request
        BY <1>1, <1>6
      <3>3. QED
        BY <3>1, <3>2
    <2>3. QED
      BY <2>1, <2>2
  <1>9. BooksTyped'
    BY <1>1, <1>3, <1>4 DEF BooksInv, BooksTyped, AsksWell
  <1>10. QED
    BY <1>7, <1>8, <1>9 DEF BooksInv

LEMMA CrashKeepsBooks ==
  ASSUME BooksInv, Crash
  PROVE  BooksInv'
  <1>1. /\ request' = [r \in Requests |-> Idle] /\ failures' = failures + 1
        /\ UNCHANGED <<balance, deposited, payouts, outcome>>
    BY DEF Crash, books
  <1>2. /\ InStage({"log"})' = {}
        /\ \A t \in Txs : Racing(t)' = {}
        /\ \A u \in Accounts : Checked(u)' = {}
    BY <1>1 DEF InStage, Racing, RaceStages, Checked, CheckedStages, Idle
  <1>3. DepositsRace'
    <2> SUFFICES ASSUME NEW t \in Txs
                 PROVE  deposited[t] + Cardinality({}) <= Cardinality(Requests)
      BY <1>1, <1>2 DEF DepositsRace
    <2>1. deposited[t] \in Nat /\ deposited[t] + Cardinality(Racing(t)) <= Cardinality(Requests)
      BY DEF BooksInv, BooksTyped, DepositsRace
    <2>2. Racing(t) \in SUBSET Requests
      BY DEF Racing
    <2>3. Cardinality(Racing(t)) \in Nat /\ Cardinality({}) = 0 /\ Cardinality(Requests) \in Nat
      BY <2>2, PartsAreFinite, FS_EmptySet
    <2>4. QED
      BY <2>1, <2>3
  <1>4. WithdrawalsRace'
    <2> SUFFICES ASSUME NEW u \in Accounts
                 PROVE  balance[u] >= -(Others * Most)
      BY <1>1, <1>2 DEF WithdrawalsRace, Covers
    <2>1. Checked(u) \in SUBSET Requests /\ balance[u] \in Int
          /\ Covers(balance[u], Checked(u), request)
      BY DEF Checked, BooksInv, BooksTyped, WithdrawalsRace
    <2>2. \A q \in Checked(u) : request[q].amount \in Withdrawals
      BY DEF BooksInv, BooksTyped, AsksWell, Checked, CheckedStages, WithdrawStages
    <2>3. QED
      BY <2>1, <2>2, CoversBounds
  <1>5. PayoutsNumbered'
    <2>1. outcome.logged \in Nat /\ outcome.unknown \in Nat /\ failures \in Nat
      BY DEF BooksInv, BooksTyped
    <2>2. SentSoFar' = SentSoFar /\ SentSoFar \in Int
      <3>1. Cardinality(payouts) \in Nat /\ outcome.mined \in Nat /\ outcome.reverted \in Nat
        BY FS_CardinalityType DEF BooksInv, BooksTyped
      <3>2. QED
        BY <1>1, <3>1 DEF SentSoFar
    <2>3. Cardinality(InStage({"log"})') = 0
      BY <1>2, FS_EmptySet
    <2>4. outcome.logged + outcome.unknown + Cardinality(InStage({"log"})) <= SentSoFar
      BY DEF BooksInv, PayoutsNumbered
    <2>5. outcome'.logged + outcome'.unknown + Cardinality(InStage({"log"})') <= SentSoFar'
      BY <1>1, <2>1, <2>2, <2>3, <2>4, LogIsFinite
    <2>6. failures' # 0
      BY <1>1, <2>1
    <2>7. \A p \in payouts' : p.n \in Nat /\ p.n < SentSoFar'
      BY <1>1, <2>2 DEF BooksInv, PayoutsNumbered
    <2>8. QED
      BY <2>5, <2>6, <2>7 DEF PayoutsNumbered
  <1>6. BooksTyped'
    BY <1>1 DEF BooksInv, BooksTyped, AsksWell, WithdrawStages, Idle
  <1>7. QED
    BY <1>3, <1>4, <1>5, <1>6 DEF BooksInv

LEMMA PostingKeepsBooks ==
  ASSUME BridgeInv, BooksInv, PostDeposit
  PROVE  BooksInv'
  <1> DEFINE next == [stage |-> "check", by |-> dialog.by, tx |-> dialog.tx,
                      amount |-> dialog.amount, read |-> TRUE, heard |-> TRUE]
  <1>1. PICK r \in Requests : request[r] = Idle /\ Goes(r, next)
    BY DEF PostDeposit, Goes
  <1>2. UNCHANGED <<balance, deposited, payouts, outcome, failures>>
    BY DEF PostDeposit, DialogElse, books
  <1>3. RacesOn(r, next) /\ ChecksOn(r, next) /\ AsksWell(next) /\ next.stage # "log"
        /\ request[r].stage # "log"
    BY <1>1 DEF RacesOn, RaceStages, ChecksOn, CheckedStages, AsksWell, WithdrawStages, Idle
  <1>4. balance' \in [Accounts -> Int] /\ \A u \in Accounts : balance'[u] >= balance[u]
    BY <1>2 DEF BooksInv, BooksTyped
  <1> HIDE DEF next
  <1>5. QED
    BY <1>1, <1>2, <1>3, <1>4, QuietStep

LEMMA ElsewhereKeepsBooks ==
  ASSUME BooksInv, UNCHANGED <<balance, deposited, request, payouts, outcome, failures>>
  PROVE  BooksInv'
  <1>1. /\ InStage({"log"})' = InStage({"log"}) /\ SentSoFar' = SentSoFar
        /\ \A t \in Txs : Racing(t)' = Racing(t)
        /\ \A u \in Accounts : Checked(u)' = Checked(u)
    BY DEF InStage, Racing, Checked, SentSoFar
  <1>2. BooksTyped'
    BY DEF BooksInv, BooksTyped
  <1>3. PayoutsNumbered'
    <2>1. payouts' = payouts /\ outcome' = outcome /\ failures' = failures
      OBVIOUS
    <2>2. QED
      BY <1>1, <2>1 DEF BooksInv, PayoutsNumbered
  <1>4. DepositsRace'
    BY <1>1 DEF BooksInv, DepositsRace
  <1>5. WithdrawalsRace'
    <2> SUFFICES ASSUME NEW u \in Accounts
                 PROVE  Covers(balance'[u], Checked(u)', request')
      BY DEF WithdrawalsRace
    <2>1. Covers(balance[u], Checked(u), request)
      BY DEF BooksInv, WithdrawalsRace
    <2>2. balance'[u] = balance[u] /\ Checked(u)' = Checked(u) /\ request' = request
      BY <1>1
    <2>3. QED
      BY <2>1, <2>2
  <1>6. QED
    BY <1>2, <1>3, <1>4, <1>5 DEF BooksInv

LEMMA BooksInitInv == BridgeInit => BooksInv
  <1> SUFFICES ASSUME BridgeInit PROVE BooksInv
    OBVIOUS
  <1>1. Opening \in Nat
    BY BridgeConstants
  <1>2. /\ InStage({"log"}) = {}
        /\ \A t \in Txs : Racing(t) = {}
        /\ \A u \in Accounts : Checked(u) = {}
    BY DEF BridgeInit, InStage, Racing, RaceStages, Checked, CheckedStages, Idle
  <1>3. Cardinality({}) = 0 /\ IsFiniteSet({})
    BY FS_EmptySet
  <1>4. BooksTyped
    BY <1>1, <1>3 DEF BridgeInit, BooksTyped, AsksWell, WithdrawStages, Idle
  <1>5. DepositsRace
    BY <1>2, <1>3, SomebodyAsks DEF BridgeInit, DepositsRace
  <1>6. WithdrawalsRace
    <2>1. Others * Most \in Nat
      BY MostIsMost, SomebodyAsks
    <2>2. Opening >= -(Others * Most)
      BY <1>1, <2>1
    <2>3. QED
      BY <1>2, <2>2 DEF BridgeInit, WithdrawalsRace, Covers
  <1>7. PayoutsNumbered
    <2>1. payouts = {} /\ outcome = [mined |-> 0, reverted |-> 0, unknown |-> 0, logged |-> 0]
          /\ failures = 0
      BY DEF BridgeInit
    <2>2. SentSoFar = 0
      BY <1>3, <2>1 DEF SentSoFar
    <2>3. QED
      BY <1>2, <1>3, <2>1, <2>2 DEF PayoutsNumbered
  <1>8. QED
    BY <1>4, <1>5, <1>6, <1>7 DEF BooksInv

LEMMA BooksInvStep == BridgeInv /\ BooksInv /\ [BridgeNext]_bridgeVars => BooksInv'
  <1> SUFFICES ASSUME BridgeInv, BooksInv, [BridgeNext]_bridgeVars PROVE BooksInv'
    OBVIOUS
  <1>1. CASE UNCHANGED bridgeVars
    BY <1>1, ElsewhereKeepsBooks DEF bridgeVars, books
  <1>2. CASE \/ MarketMoves \/ QuotePrice \/ SyncReads \/ SyncIsMined
             \/ MineBlock \/ LiquidityChanges \/ VaultIsFunded
    BY <1>2, ElsewhereKeepsBooks DEF MarketMoves, QuotePrice, SyncReads, SyncIsMined, MineBlock,
       LiquidityChanges, VaultIsFunded, books
  <1>3. CASE \/ LoadConfig \/ ReadRouterPrice \/ CloseDialog \/ EditAmount
             \/ Convert
    BY <1>3, ElsewhereKeepsBooks DEF LoadConfig, ReadRouterPrice, CloseDialog, EditAmount, Convert,
       DialogElse, books
  <1>4. ASSUME NEW u \in Accounts, OpenDialog(u)
        PROVE  BooksInv'
    BY <1>4, ElsewhereKeepsBooks DEF OpenDialog, DialogElse, books
  <1>5. CASE PostDeposit
    BY <1>5, PostingKeepsBooks
  <1>6. ASSUME NEW r \in Requests, DepositStep(r) \/ WithdrawStep(r)
        PROVE  BooksInv'
    BY <1>6, DepositKeepsBooks, WithdrawKeepsBooks
  <1>7. ASSUME NEW p \in payouts, PayoutIsMined(p)
        PROVE  BooksInv'
    BY <1>7, MiningKeepsBooks
  <1>8. CASE Crash
    BY <1>8, CrashKeepsBooks
  <1>9. QED
    BY <1>1, <1>2, <1>3, <1>4, <1>5, <1>6, <1>7, <1>8 DEF BridgeNext

LEMMA BooksInvariant == BridgeSpec => []BooksInv
  BY BooksInitInv, BooksInvStep, BridgeInvariant, PTL DEF BridgeSpec

(* Posts of a swap that run at one time credit it once each and no more;   *)
(* withdrawals that are checked at one time overdraw an account by no more *)
(* than all but one of them, for any number of requests and any amounts.   *)
THEOREM RacesStayBounded == BridgeSpec => []RacesBounded
  <1>1. BooksInv => RacesBounded
    <2> SUFFICES ASSUME BooksInv PROVE RacesBounded
      OBVIOUS
    <2>1. ASSUME NEW t \in Txs
          PROVE  deposited[t] <= Cardinality(Requests)
      <3>1. deposited[t] \in Nat /\ deposited[t] + Cardinality(Racing(t)) <= Cardinality(Requests)
        BY DEF BooksInv, BooksTyped, DepositsRace
      <3>2. Racing(t) \in SUBSET Requests
        BY DEF Racing
      <3>3. Cardinality(Racing(t)) \in Nat /\ Cardinality(Requests) \in Nat
        BY <3>2, PartsAreFinite
      <3>4. QED
        BY <3>1, <3>3
    <2>2. ASSUME NEW u \in Accounts
          PROVE  balance[u] >= -(Cardinality(Requests) - 1) * Max(Withdrawals \cup {0})
      <3>1. Checked(u) \in SUBSET Requests /\ balance[u] \in Int
            /\ Covers(balance[u], Checked(u), request)
        BY DEF Checked, BooksInv, BooksTyped, WithdrawalsRace
      <3>2. \A q \in Checked(u) : request[q].amount \in Withdrawals
        BY DEF BooksInv, BooksTyped, AsksWell, Checked, CheckedStages, WithdrawStages
      <3>3. balance[u] >= -(Others * Most)
        BY <3>1, <3>2, CoversBounds
      <3>4. -(Others * Most) = (-Others) * Most
        BY MostIsMost, SomebodyAsks
      <3>5. QED
        BY <3>3, <3>4, Zenon DEF Others, Most
    <2>3. QED
      BY <2>1, <2>2 DEF RacesBounded
  <1>2. QED
    BY <1>1, BooksInvariant, PTL

(* No withdrawal is logged without a payout sendOkbPayout sent; and while  *)
(* the backend lives, a payout that was sent is logged, is about to be, or *)
(* its answer was lost.                                                    *)
THEOREM PayoutsAreAccounted == BridgeSpec => []PayoutsAccounted
  <1>1. BooksInv => PayoutsAccounted
    <2> SUFFICES ASSUME BooksInv PROVE PayoutsAccounted
      OBVIOUS
    <2>1. outcome.logged \in Nat /\ outcome.unknown \in Nat
          /\ SentSoFar \in Int
      <3>1. Cardinality(payouts) \in Nat /\ outcome.mined \in Nat /\ outcome.reverted \in Nat
            /\ outcome.logged \in Nat /\ outcome.unknown \in Nat
        BY FS_CardinalityType DEF BooksInv, BooksTyped
      <3>2. QED
        BY <3>1 DEF SentSoFar
    <2>2. QED
      BY <2>1, LogIsFinite DEF BooksInv, PayoutsNumbered, PayoutsAccounted, SentSoFar
  <1>2. QED
    BY <1>1, BooksInvariant, PTL

-----------------------------------------------------------------------------
(* Types.                                                                  *)

(* The three parts of a fee are what the floors leave of it.               *)
LEMMA RouteIsNatural ==
  ASSUME split \in Splits, NEW fee \in Nat
  PROVE  /\ Route(fee).treasury \in Nat /\ Route(fee).jackpot \in Nat
         /\ Route(fee).ecosystem \in Nat
  <1>1. /\ split.treasury \in Nat /\ split.jackpot \in Nat /\ split.ecosystem \in Nat
        /\ split.treasury + split.jackpot + split.ecosystem = 10000
    BY ContractConstants DEF BPS
  <1>2. PICK a \in Nat : a = split.treasury
    BY <1>1
  <1>3. PICK b \in Nat : b = split.jackpot
    BY <1>1
  <1>4. PICK c \in Nat : c = split.ecosystem
    BY <1>1
  <1>5. a + b + c = 10000
    BY <1>1, <1>2, <1>3, <1>4
  <1>6. fee * a \in Nat /\ fee * b \in Nat /\ fee * c \in Nat
    OBVIOUS
  <1>7. fee * a + fee * b + fee * c = fee * (a + b + c)
    OBVIOUS
  <1>8. PICK A \in Nat : A = fee * a
    BY <1>6
  <1>9. PICK B \in Nat : B = fee * b
    BY <1>6
  <1>10. PICK C \in Nat : C = fee * c
    BY <1>6
  <1>11. A + B + C = 10000 * fee
    <2>1. A + B + C = fee * 10000
      BY <1>5, <1>7, <1>8, <1>9, <1>10
    <2>2. QED
      BY <2>1
  <1>12. /\ A \div 10000 \in Nat /\ B \div 10000 \in Nat
         /\ fee - (A \div 10000) - (B \div 10000) \in Nat
    BY <1>11
  <1>13. Route(fee) = [treasury |-> A \div 10000, jackpot |-> B \div 10000,
                       ecosystem |-> fee - (A \div 10000) - (B \div 10000)]
    BY <1>2, <1>3, <1>8, <1>9 DEF Route, BPS
  <1>14. QED
    BY <1>12, <1>13

LEMMA FeeIsNatural == ASSUME NEW o \in Nat PROVE HookFee(o) \in Nat
  BY DEF HookFee, HOOK_SWAP_FEE_BPS, BPS

LEMMA AfterSwapTypes ==
  ASSUME ContractsTypeOK, NEW o \in Nat, AfterSwap(o)
  PROVE  hook' \in [swaps : Nat, routed : Nat, jackpot : Nat, ecosystem : Nat] /\ quote' \in Nat
  <1> DEFINE fee == HookFee(o)
             part == Route(fee)
  <1>1. fee \in Nat
    BY FeeIsNatural
  <1>2. part.treasury \in Nat /\ part.jackpot \in Nat /\ part.ecosystem \in Nat
    BY <1>1, RouteIsNatural DEF ContractsTypeOK
  <1>3. CASE fee = 0
    BY <1>3 DEF AfterSwap, ContractsTypeOK
  <1>4. CASE fee # 0
    <2>1. /\ hook' = [swaps |-> hook.swaps + 1, routed |-> hook.routed + fee,
                      jackpot |-> hook.jackpot + part.jackpot,
                      ecosystem |-> hook.ecosystem + part.ecosystem]
          /\ quote' = quote + part.treasury + part.jackpot + part.ecosystem
      BY <1>4 DEF AfterSwap
    <2> HIDE DEF fee, part
    <2>2. /\ hook.swaps \in Nat /\ hook.routed \in Nat /\ hook.jackpot \in Nat
          /\ hook.ecosystem \in Nat /\ quote \in Nat
      BY DEF ContractsTypeOK
    <2>3. QED
      BY <1>1, <1>2, <2>1, <2>2
  <1>5. QED
    BY <1>3, <1>4

LEMMA SwapTypes ==
  ASSUME ContractsTypeOK, NEW u \in Accounts, NEW a \in Amounts, SwapForCredits(u, a)
  PROVE  ContractsTypeOK'
  <1>1. a \in Nat /\ okb \in [{"router", "pool", "vault"} -> Nat] /\ liquidity \in Nat
    BY ContractConstants DEF ContractsTypeOK
  <1>2. Spent(a) \in Nat /\ Spent(a) <= a /\ Spent(a) <= liquidity
    BY <1>1 DEF Spent, Lesser
  <1>3. ComputeCredits(a) \in Nat
    <2>1. price \in Prices
      BY DEF SwapForCredits, ContractsTypeOK
    <2>2. QED
      BY <2>1, CreditsAreCounted
  <1>4. credits' \in [Accounts -> Nat] /\ minted' \in Nat /\ burned' \in Nat
    <2>1. PICK k \in Nat : k = ComputeCredits(a)
      BY <1>3
    <2>2. /\ credits' = [credits EXCEPT ![u] = @ + k] /\ minted' = minted + k
          /\ burned' = burned
      BY <2>1 DEF SwapForCredits, MintCredits
    <2>3. QED
      BY <2>2 DEF ContractsTypeOK
  <1>5. /\ okb' \in [{"router", "pool", "vault"} -> Nat] /\ liquidity' \in Nat
        /\ hook' \in [swaps : Nat, routed : Nat, jackpot : Nat, ecosystem : Nat]
        /\ quote' \in Nat
    <2>1. CASE liquidity = 0
      <3>1. okb' = [okb EXCEPT !.router = @ + a] /\ UNCHANGED <<hook, quote, liquidity>>
        BY <2>1 DEF SwapForCredits
      <3>2. QED
        BY <1>1, <3>1 DEF ContractsTypeOK
    <2>2. CASE liquidity # 0
      <3>1. PICK k \in Nat : k = Spent(a) /\ k <= a /\ k <= liquidity
        BY <1>2
      <3>2. /\ okb' = [okb EXCEPT !.pool = @ + k, !.router = @ + a - k]
            /\ AfterSwap(k) /\ liquidity' = liquidity - k
        BY <2>2, <3>1 DEF SwapForCredits
      <3>3. okb' \in [{"router", "pool", "vault"} -> Nat]
        <4> DEFINE mid == [okb EXCEPT !.pool = @ + k]
        <4>1. mid \in [{"router", "pool", "vault"} -> Nat]
          BY <1>1
        <4>2. okb' = [mid EXCEPT !.router = @ + a - k]
          BY <3>2
        <4> HIDE DEF mid
        <4>3. mid["router"] + a - k \in Nat
          BY <1>1, <3>1, <4>1
        <4>4. QED
          BY <4>1, <4>2, <4>3
      <3>4. QED
        BY <1>1, <3>1, <3>2, <3>3, AfterSwapTypes
    <2>3. QED
      BY <2>1, <2>2
  <1>6. UNCHANGED <<price, split, vault>>
    BY DEF SwapForCredits
  <1>7. QED
    BY <1>4, <1>5, <1>6 DEF ContractsTypeOK

(* What a request for a withdrawal knows of its payout.                    *)
PayingStages == {"treasury", "debit", "send", "submit", "refund", "log"}
AsksTyped(asks) ==
  /\ asks.stage \in {"idle"} \cup DepositStages \cup WithdrawStages
  /\ asks.stage \in PayingStages => "okb" \in DOMAIN asks /\ asks.okb \in Nat
  /\ asks.stage = "submit" => "from" \in DOMAIN asks /\ asks.from \in {"vault", "wallet"}

PayoutTyped(p) == p.from \in {"vault", "wallet"} /\ p.amount \in Nat

RestTyped ==
  /\ ContractsTypeOK
  /\ withdrawn \in [Accounts -> Nat]
  /\ \A r \in Requests : AsksTyped(request[r])
  /\ \A p \in payouts : PayoutTyped(p)
  /\ wallet \in Nat
  /\ failures \in 0 .. MaxFailures

LEMMA OnlyTheseTouchContracts ==
  BridgeNext => \/ SyncIsMined \/ LiquidityChanges \/ VaultIsFunded \/ Convert
                \/ \E p \in payouts : PayoutIsMined(p)
                \/ UNCHANGED contracts
  BY DEF BridgeNext, MarketMoves, QuotePrice, SyncReads, MineBlock, OpenDialog, LoadConfig,
         ReadRouterPrice, CloseDialog, EditAmount, PostDeposit, PostIsLost, DepositStep,
         CheckDeposit, VerifyDeposit, Refuse, CreditDeposit, RecordDeposit, DepositElse, chain,
         WithdrawStep, Withdraw, CheckBalance, PriceWithdrawal, CheckTreasury, DebitCredits,
         ChooseSource, SubmitPayout, Refund, LogWithdrawal, WithdrawElse, Crash, DialogElse

LEMMA ContractsStep ==
  ASSUME BridgeInv, RestTyped, BridgeNext \/ UNCHANGED bridgeVars
  PROVE  ContractsTypeOK'
  <1>1. ContractsTypeOK
    BY DEF RestTyped
  <1>2. CASE UNCHANGED contracts
    BY <1>1, <1>2 DEF contracts, ledger, swapping, ContractsTypeOK
  <1>3. CASE SyncIsMined
    <2>1. price' \in Prices
          /\ UNCHANGED <<ledger, okb, quote, liquidity, split, hook, vault>>
      BY <1>3 DEF SyncIsMined, SetOkbUsdPrice, BridgeInv, PricesKnown
    <2>2. QED
      BY <1>1, <2>1 DEF ledger, ContractsTypeOK
  <1>4. CASE LiquidityChanges
    <2>1. PICK a \in Amounts \cup {0} : ChangeLiquidity(a)
      BY <1>4 DEF LiquidityChanges
    <2>2. a \in Nat
      BY ContractConstants
    <2>3. QED
      BY <1>1, <2>1, <2>2 DEF ChangeLiquidity, ledger, ContractsTypeOK
  <1>5. CASE VaultIsFunded
    <2>1. /\ okb' = [okb EXCEPT !.vault = @ + VaultOpening]
          /\ vault' = [vault EXCEPT !.deposited = @ + VaultOpening]
          /\ UNCHANGED <<ledger, price, quote, liquidity, split, hook>>
      BY <1>5 DEF VaultIsFunded, DepositToVault
    <2>2. VaultOpening \in Nat
      BY BridgeConstants
    <2>3. okb' \in [{"router", "pool", "vault"} -> Nat]
          /\ vault' \in [deposited : Nat, withdrawn : Nat]
      BY <1>1, <2>1, <2>2 DEF ContractsTypeOK
    <2>4. QED
      BY <1>1, <2>1, <2>3 DEF ledger, ContractsTypeOK
  <1>6. CASE Convert
    <2>1. dialog.by \in Accounts /\ dialog.amount \in Amounts
      BY <1>6 DEF Convert, BridgeInv, DialogIsOfSwap
    <2>2. SwapForCredits(dialog.by, dialog.amount)
      BY <1>6 DEF Convert
    <2>3. QED
      BY <1>1, <2>1, <2>2, SwapTypes
  <1>7. ASSUME NEW p \in payouts, PayoutIsMined(p)
        PROVE  ContractsTypeOK'
    <2>1. CASE UNCHANGED contracts
      BY <1>2, <2>1
    <2>2. CASE WithdrawTo(p.amount)
      <3>1. PICK k \in Nat : k = p.amount
        BY DEF RestTyped, PayoutTyped
      <3>2. /\ okb["vault"] >= k /\ okb' = [okb EXCEPT !["vault"] = @ - k]
            /\ vault' = [vault EXCEPT !.withdrawn = @ + k]
            /\ UNCHANGED <<ledger, price, quote, liquidity, split, hook>>
        BY <2>2, <3>1 DEF WithdrawTo
      <3>3. okb' \in [{"router", "pool", "vault"} -> Nat]
            /\ vault' \in [deposited : Nat, withdrawn : Nat]
        BY <1>1, <3>2 DEF ContractsTypeOK
      <3>4. QED
        BY <1>1, <3>2, <3>3 DEF ledger, ContractsTypeOK
    <2>3. QED
      BY <1>7, <2>1, <2>2 DEF PayoutIsMined
  <1>8. QED
    BY <1>2, <1>3, <1>4, <1>5, <1>6, <1>7, OnlyTheseTouchContracts DEF bridgeVars, chain

LEMMA OkbIsNatural ==
  ASSUME NEW c \in Withdrawals, NEW p \in Prices
  PROVE  OkbFor(c, p) \in Nat
  <1>1. c \in Nat /\ p \in Nat \ {0} /\ CreditScale \in Nat
    BY BridgeConstants, ContractConstants
  <1> DEFINE n == c * CreditScale
             d == p * 25
  <1>2. n \in Nat /\ d \in Nat \ {0}
    BY <1>1
  <1> HIDE DEF n, d
  <1>3. n \div d \in Nat
    BY <1>2
  <1>4. QED
    BY <1>3 DEF n, d, OkbFor, CREDITS_PER_USD

(* A request that moves keeps its types and leaves those of the others.    *)
LEMMA MoveTyped ==
  ASSUME BridgeInv, RestTyped, NEW r \in Requests, NEW next, Goes(r, next), AsksTyped(next)
  PROVE  \A q \in Requests : AsksTyped(request'[q])
  BY OneMoves DEF RestTyped

(* A change of stage alone.                                                *)
LEMMA StageTyped ==
  ASSUME BridgeInv, RestTyped, NEW r \in Requests,
         NEW stage \in DepositStages \cup WithdrawStages, stage # "submit",
         stage \in PayingStages => request[r].stage \in PayingStages
  PROVE  AsksTyped([request[r] EXCEPT !.stage = stage])
  <1> DEFINE next == [request[r] EXCEPT !.stage = stage]
  <1>1. "stage" \in DOMAIN request[r]
    BY DEF BridgeInv, DepositsAreOfSwaps, RequestOK
  <1>2. next.stage = stage
    BY <1>1
  <1>3. CASE stage \in PayingStages
    <2>1. "okb" \in DOMAIN request[r] /\ request[r].okb \in Nat
      BY <1>3 DEF RestTyped, AsksTyped
    <2>2. "okb" \in DOMAIN next /\ next.okb = request[r].okb
      BY <2>1
    <2> HIDE DEF next
    <2>3. AsksTyped(next)
      BY <1>2, <2>1, <2>2 DEF AsksTyped
    <2>4. QED
      BY <2>3 DEF next
  <1>4. CASE stage \notin PayingStages
    <2> HIDE DEF next
    <2>1. AsksTyped(next)
      BY <1>2, <1>4 DEF AsksTyped
    <2>2. QED
      BY <2>1 DEF next
  <1>5. QED
    BY <1>3, <1>4

LEMMA IdleTyped == AsksTyped(Idle)
  BY DEF AsksTyped, Idle, PayingStages

LEMMA DepositTyped ==
  ASSUME BridgeInv, RestTyped, NEW r \in Requests, DepositStep(r)
  PROVE  \A q \in Requests : AsksTyped(request'[q])
  <1>1. CASE Goes(r, Idle)
    BY <1>1, IdleTyped, MoveTyped
  <1>2. ASSUME NEW stage \in {"known", "verify", "credit", "refused", "record"},
               Goes(r, [request[r] EXCEPT !.stage = stage])
        PROVE  \A q \in Requests : AsksTyped(request'[q])
    <2>1. stage \in DepositStages \cup WithdrawStages /\ stage # "submit" /\ stage \notin PayingStages
      BY DEF DepositStages, PayingStages
    <2>2. AsksTyped([request[r] EXCEPT !.stage = stage])
      BY <2>1, StageTyped
    <2>3. QED
      BY <1>2, <2>2, MoveTyped
  <1>3. CASE CheckDeposit(r)
    <2>1. CASE IsTxAlreadyCredited(request[r].tx)
      BY <1>2, <1>3, <2>1 DEF CheckDeposit
    <2>2. CASE ~IsTxAlreadyCredited(request[r].tx)
      BY <1>2, <1>3, <2>2 DEF CheckDeposit
    <2>3. QED
      BY <2>1, <2>2
  <1>2a. ASSUME NEW next, Goes(r, next), next.stage \in DepositStages
         PROVE  \A q \in Requests : AsksTyped(request'[q])
    <2>1. AsksTyped(next)
      BY <1>2a DEF AsksTyped, DepositStages, PayingStages
    <2>2. QED
      BY <1>2a, <2>1, MoveTyped
  <1>2b. "stage" \in DOMAIN request[r] /\ (request[r].stage \in DepositStages => DepositOfSwap(r))
    BY DEF BridgeInv, DepositsAreOfSwaps, RequestOK
  <1>4. CASE VerifyDeposit(r)
    <2>1. PICK told \in BOOLEAN, stage \in {"credit", "refused"} :
            Goes(r, [request[r] EXCEPT !.stage = stage, !.read = told])
      BY <1>4 DEF VerifyDeposit
    <2>2. [request[r] EXCEPT !.stage = stage, !.read = told].stage \in DepositStages
      BY <1>2b DEF DepositStages
    <2>3. QED
      BY <1>2a, <2>1, <2>2
  <1>4a. CASE PostIsLost(r)
    <2>1. [request[r] EXCEPT !.heard = FALSE].stage \in DepositStages
      BY <1>2b, <1>4a DEF PostIsLost, DepositStages
    <2>2. QED
      BY <1>2a, <1>4a, <2>1 DEF PostIsLost
  <1>5. CASE CreditDeposit(r)
    BY <1>2, <1>5 DEF CreditDeposit
  <1>6. CASE Refuse(r) \/ RecordDeposit(r)
    BY <1>1, <1>6 DEF Refuse, RecordDeposit
  <1>7. QED
    BY <1>3, <1>4, <1>4a, <1>5, <1>6 DEF DepositStep

LEMMA WithdrawTyped ==
  ASSUME BridgeInv, BooksInv, RestTyped, NEW r \in Requests, WithdrawStep(r)
  PROVE  \A q \in Requests : AsksTyped(request'[q])
  <1>1. CASE Goes(r, Idle)
    BY <1>1, IdleTyped, MoveTyped
  <1>2. ASSUME NEW stage \in WithdrawStages \ {"submit"},
               stage \in PayingStages => request[r].stage \in PayingStages,
               Goes(r, [request[r] EXCEPT !.stage = stage])
        PROVE  \A q \in Requests : AsksTyped(request'[q])
    <2>1. AsksTyped([request[r] EXCEPT !.stage = stage])
      BY <1>2, StageTyped
    <2>2. QED
      BY <1>2, <2>1, MoveTyped
  <1>3. ASSUME NEW u \in Accounts, Withdraw(r, u)
        PROVE  \A q \in Requests : AsksTyped(request'[q])
    <2>1. PICK c \in Withdrawals : Goes(r, [stage |-> "balance", by |-> u, amount |-> c])
      BY <1>3 DEF Withdraw
    <2>2. AsksTyped([stage |-> "balance", by |-> u, amount |-> c])
      BY DEF AsksTyped, WithdrawStages, PayingStages
    <2>3. QED
      BY <2>1, <2>2, MoveTyped
  <1>4. CASE CheckBalance(r)
    <2>1. CASE HasCredits(r)
      BY <1>2, <1>4, <2>1 DEF CheckBalance, WithdrawStages, PayingStages
    <2>2. CASE ~HasCredits(r)
      BY <1>1, <1>4, <2>2 DEF CheckBalance
    <2>3. QED
      BY <2>1, <2>2
  <1>5. CASE PriceWithdrawal(r)
    <2> DEFINE me == request[r]
               next(p) == [stage |-> "treasury", by |-> me.by, amount |-> me.amount,
                           okb |-> OkbFor(me.amount, p)]
    <2>1. PICK p \in Quotes : Goes(r, IF p = None \/ OkbFor(me.amount, p) = 0 THEN Idle ELSE next(p))
      BY <1>5 DEF PriceWithdrawal
    <2>2. CASE p = None \/ OkbFor(me.amount, p) = 0
      BY <1>1, <2>1, <2>2
    <2>3. CASE ~(p = None \/ OkbFor(me.amount, p) = 0)
      <3>1. p \in Prices
        BY <2>3 DEF Quotes, BridgeInv, PricesKnown
      <3>2. me.amount \in Withdrawals
        BY <1>5 DEF PriceWithdrawal, At, BooksInv, BooksTyped, AsksWell, WithdrawStages
      <3>3. AsksTyped(next(p))
        BY <3>1, <3>2, OkbIsNatural DEF AsksTyped, WithdrawStages
      <3> HIDE DEF next
      <3>4. Goes(r, next(p))
        BY <2>1, <2>3
      <3>5. QED
        BY <3>3, <3>4, MoveTyped
    <2>4. QED
      BY <2>2, <2>3
  <1>6. CASE CheckTreasury(r)
    <2>1. PICK next \in {[request[r] EXCEPT !.stage = "debit"], Idle} : Goes(r, next)
      BY <1>6 DEF CheckTreasury
    <2>2. request[r].stage \in PayingStages
      BY <1>6 DEF CheckTreasury, At, PayingStages
    <2>3. QED
      BY <1>1, <1>2, <2>1, <2>2 DEF WithdrawStages
  <1>7. CASE DebitCredits(r)
    BY <1>2, <1>7 DEF DebitCredits, At, WithdrawStages, PayingStages
  <1>8. CASE ChooseSource(r)
    <2> DEFINE me == request[r]
               From(source) == [stage |-> "submit", by |-> me.by, amount |-> me.amount,
                                okb |-> me.okb, from |-> source]
    <2>1. me.stage \in PayingStages /\ me.okb \in Nat
      BY <1>8 DEF ChooseSource, At, PayingStages, RestTyped, AsksTyped
    <2>2. ASSUME NEW source \in {"vault", "wallet"}, Goes(r, From(source))
          PROVE  \A q \in Requests : AsksTyped(request'[q])
      <3>1. AsksTyped(From(source))
        BY <2>1 DEF AsksTyped, WithdrawStages
      <3> HIDE DEF From
      <3>2. QED
        BY <2>2, <3>1, MoveTyped
    <2>3. \/ Goes(r, From("vault")) \/ Goes(r, From("wallet"))
          \/ Goes(r, [me EXCEPT !.stage = "refund"])
      BY <1>8 DEF ChooseSource
    <2>4. QED
      BY <1>2, <2>1, <2>2, <2>3 DEF WithdrawStages
  <1>9. CASE SubmitPayout(r)
    <2>1. request[r].stage \in PayingStages
      BY <1>9 DEF SubmitPayout, At, PayingStages
    <2>2. PICK stage \in {"log", "refund"} : Goes(r, [request[r] EXCEPT !.stage = stage])
      BY <1>9 DEF SubmitPayout
    <2>3. QED
      BY <1>2, <2>1, <2>2 DEF WithdrawStages
  <1>10. CASE Refund(r) \/ LogWithdrawal(r)
    BY <1>1, <1>10 DEF Refund, LogWithdrawal
  <1>11. QED
    BY <1>3, <1>4, <1>5, <1>6, <1>7, <1>8, <1>9, <1>10 DEF WithdrawStep

(* Where a payout comes from, who pays it and what it is logged as.        *)
LEMMA PaymentsTyped ==
  ASSUME BridgeInv, BooksInv, RestTyped, BridgeNext \/ UNCHANGED bridgeVars
  PROVE  /\ withdrawn' \in [Accounts -> Nat]
         /\ \A p \in payouts' : PayoutTyped(p)
         /\ wallet' \in Nat
  <1>1. /\ withdrawn \in [Accounts -> Nat] /\ \A p \in payouts : PayoutTyped(p)
        /\ wallet \in Nat
    BY DEF RestTyped
  <1>2. CASE UNCHANGED <<withdrawn, payouts, wallet>>
    BY <1>1, <1>2
  <1>3. ASSUME NEW r \in Requests, LogWithdrawal(r)
        PROVE  withdrawn' \in [Accounts -> Nat] /\ UNCHANGED <<payouts, wallet>>
    <2>1. request[r].by \in Accounts /\ request[r].amount \in Nat
      BY <1>3, MostIsMost DEF LogWithdrawal, At, BooksInv, BooksTyped, AsksWell, WithdrawStages
    <2>2. withdrawn' = [withdrawn EXCEPT ![request[r].by] = @ + request[r].amount]
          /\ UNCHANGED <<payouts, wallet>>
      BY <1>3 DEF LogWithdrawal
    <2>3. QED
      BY <1>1, <2>1, <2>2
  <1>4. ASSUME NEW r \in Requests, SubmitPayout(r)
        PROVE  (\A p \in payouts' : PayoutTyped(p)) /\ UNCHANGED <<withdrawn, wallet>>
    <2>1. request[r].okb \in Nat /\ request[r].from \in {"vault", "wallet"}
      BY <1>4 DEF SubmitPayout, At, RestTyped, AsksTyped, PayingStages
    <2>2. PayoutTyped(Sent(r))
      BY <2>1 DEF PayoutTyped, Sent
    <2>3. payouts' \subseteq payouts \cup {Sent(r)} /\ UNCHANGED <<withdrawn, wallet>>
      BY <1>4 DEF SubmitPayout
    <2>4. QED
      BY <1>1, <2>2, <2>3
  <1>5. ASSUME NEW p \in payouts, PayoutIsMined(p)
        PROVE  wallet' \in Nat /\ payouts' \subseteq payouts /\ UNCHANGED withdrawn
    <2>1. p.amount \in Nat
      BY DEF RestTyped, PayoutTyped
    <2>2. wallet' = wallet \/ (wallet >= p.amount /\ wallet' = wallet - p.amount)
      BY <1>5 DEF PayoutIsMined, WalletPays
    <2>3. QED
      BY <1>1, <1>5, <2>1, <2>2 DEF PayoutIsMined, books
  <1>6. \/ UNCHANGED <<withdrawn, payouts, wallet>>
        \/ \E r \in Requests : LogWithdrawal(r) \/ SubmitPayout(r)
        \/ \E p \in payouts : PayoutIsMined(p)
    BY DEF BridgeNext, bridgeVars, MarketMoves, QuotePrice, SyncReads, SyncIsMined, MineBlock,
           LiquidityChanges, VaultIsFunded, OpenDialog, LoadConfig, ReadRouterPrice, CloseDialog,
           EditAmount, Convert, PostDeposit, PostIsLost, DepositStep, CheckDeposit, VerifyDeposit,
           Refuse, CreditDeposit, RecordDeposit, DepositElse, chain, books, DialogElse,
           WithdrawStep, Withdraw, CheckBalance, PriceWithdrawal, CheckTreasury, DebitCredits,
           ChooseSource, Refund, WithdrawElse, Crash
  <1>7. QED
    BY <1>1, <1>2, <1>3, <1>4, <1>5, <1>6

LEMMA FailuresCounted ==
  ASSUME failures \in 0 .. MaxFailures, BridgeNext \/ UNCHANGED bridgeVars
  PROVE  failures' \in 0 .. MaxFailures
  <1>1. MaxFailures \in Nat
    BY BridgeConstants
  <1>2. UNCHANGED failures \/ Crash
    BY DEF BridgeNext, bridgeVars, MarketMoves, QuotePrice, SyncReads, SyncIsMined, MineBlock,
           LiquidityChanges, VaultIsFunded, OpenDialog, LoadConfig, ReadRouterPrice, CloseDialog,
           EditAmount, Convert, PostDeposit, PostIsLost, DepositStep, CheckDeposit, VerifyDeposit,
           Refuse, CreditDeposit, RecordDeposit, DepositElse, DialogElse, PayoutIsMined,
           WithdrawStep, Withdraw, CheckBalance, PriceWithdrawal, CheckTreasury, DebitCredits,
           ChooseSource, SubmitPayout, Refund, LogWithdrawal, WithdrawElse
  <1>3. QED
    BY <1>1, <1>2 DEF Crash

LEMMA AsksStep ==
  ASSUME BridgeInv, BooksInv, RestTyped, BridgeNext \/ UNCHANGED bridgeVars
  PROVE  \A r \in Requests : AsksTyped(request'[r])
  <1>1. CASE UNCHANGED request
    BY <1>1 DEF RestTyped
  <1>2. CASE Crash
    BY <1>2, IdleTyped DEF Crash
  <1>3. CASE PostDeposit
    <2> DEFINE next == [stage |-> "check", by |-> dialog.by, tx |-> dialog.tx,
                        amount |-> dialog.amount, read |-> TRUE, heard |-> TRUE]
    <2>1. PICK r \in Requests : Goes(r, next)
      BY <1>3 DEF PostDeposit, Goes
    <2>2. AsksTyped(next)
      BY DEF AsksTyped, DepositStages, PayingStages
    <2> HIDE DEF next
    <2>3. QED
      BY <2>1, <2>2, MoveTyped
  <1>4. UNCHANGED request \/ Crash \/ PostDeposit
        \/ \E r \in Requests : DepositStep(r) \/ WithdrawStep(r)
    BY DEF BridgeNext, bridgeVars, MarketMoves, QuotePrice, SyncReads, SyncIsMined, MineBlock,
           LiquidityChanges, VaultIsFunded, OpenDialog, LoadConfig, ReadRouterPrice, CloseDialog,
           EditAmount, Convert, DialogElse, PayoutIsMined
  <1>5. QED
    BY <1>1, <1>2, <1>3, <1>4, DepositTyped, WithdrawTyped

LEMMA RestTypedStep == BridgeInv /\ BooksInv /\ RestTyped /\ [BridgeNext]_bridgeVars => RestTyped'
  <1> SUFFICES ASSUME BridgeInv, BooksInv, RestTyped, [BridgeNext]_bridgeVars PROVE RestTyped'
    OBVIOUS
  <1>1. failures' \in 0 .. MaxFailures
    BY FailuresCounted DEF RestTyped
  <1>2. QED
    BY <1>1, ContractsStep, AsksStep, PaymentsTyped DEF RestTyped

LEMMA RestTypedInit == BridgeInit => RestTyped
  <1> SUFFICES ASSUME BridgeInit PROVE RestTyped
    OBVIOUS
  <1>1. ContractsTypeOK
    BY ContractConstants DEF BridgeInit, ContractsInit, ContractsTypeOK, NoRouting
  <1>2. /\ withdrawn \in [Accounts -> Nat] /\ wallet \in Nat /\ failures \in 0 .. MaxFailures
        /\ payouts = {}
    BY BridgeConstants DEF BridgeInit
  <1>3. \A r \in Requests : AsksTyped(request[r])
    BY IdleTyped DEF BridgeInit
  <1>4. QED
    BY <1>1, <1>2, <1>3 DEF RestTyped

LEMMA RestTypedInvariant == BridgeSpec => []RestTyped
  BY RestTypedInit, RestTypedStep, BridgeInvariant, BooksInvariant, PTL DEF BridgeSpec

LEMMA InvariantsType == BridgeInv /\ BooksInv /\ RestTyped => BridgeTypeOK
  BY DEF BridgeInv, SwapsPriced, PricesKnown, DialogIsOfSwap, BooksInv, BooksTyped, RestTyped,
         AsksTyped, PayoutTyped, BridgeTypeOK

-----------------------------------------------------------------------------
(* The balances and the ledger.                                            *)

DepositsOf(u) == SumFunctionOnSet([t \in Txs |-> Recorded(t, u)], Txs)
UnderWayOf(u) == SumFunctionOnSet([r \in Requests |-> UnderWay(request[r], u)], Requests)

LedgerHolds ==
  /\ \A t \in Txs : swap[t] = None => deposited[t] = 0
  /\ failures = 0 => \A u \in Accounts :
       balance[u] = Opening - withdrawn[u] + DepositsOf(u) + UnderWayOf(u)

LEMMA RecordedIsNatural ==
  ASSUME BridgeInv, BooksInv, NEW t \in Txs, NEW u
  PROVE  Recorded(t, u) \in Nat
  <1>1. deposited[t] \in Nat /\ (swap[t] # None => swap[t].minted \in Nat)
    BY DEF BooksInv, BooksTyped, BridgeInv, SwapsPriced, Swaps
  <1>2. CASE swap[t] # None /\ swap[t].by = u
    <2>1. PICK m \in Nat : m = swap[t].minted
      BY <1>1, <1>2
    <2>2. PICK d \in Nat : d = deposited[t]
      BY <1>1
    <2>3. Recorded(t, u) = d * m
      BY <1>2, <2>1, <2>2 DEF Recorded
    <2>4. d * m \in Nat
      OBVIOUS
    <2>5. QED
      BY <2>3, <2>4
  <1>3. CASE ~(swap[t] # None /\ swap[t].by = u)
    BY <1>3 DEF Recorded
  <1>4. QED
    BY <1>2, <1>3

LEMMA UnderWayIsInteger ==
  ASSUME BridgeInv, BooksInv, NEW r \in Requests, NEW u
  PROVE  UnderWay(request[r], u) \in Int
  <1>1. CASE request[r].stage = "record"
    <2>1. swap[request[r].tx].minted \in Nat
      BY <1>1 DEF BridgeInv, DepositsAreOfSwaps, RequestOK, DepositStages, DepositOfSwap,
         SwapsPriced, Swaps
    <2>2. QED
      BY <1>1, <2>1 DEF UnderWay
  <1>2. CASE request[r].stage \in {"send", "submit", "refund", "log"}
    <2>1. request[r].amount \in Nat
      BY <1>2, MostIsMost DEF BooksInv, BooksTyped, AsksWell, WithdrawStages
    <2>2. QED
      BY <1>2, <2>1 DEF UnderWay
  <1>3. CASE request[r].stage \notin {"record", "send", "submit", "refund", "log"}
    BY <1>3 DEF UnderWay
  <1>4. QED
    BY <1>1, <1>2, <1>3

LEMMA SumsAreIntegers ==
  ASSUME BridgeInv, BooksInv, NEW u
  PROVE  DepositsOf(u) \in Int /\ UnderWayOf(u) \in Int
  <1> DEFINE f == [t \in Txs |-> Recorded(t, u)]
             g == [r \in Requests |-> UnderWay(request[r], u)]
  <1>1. (\A t \in Txs : f[t] \in Int) /\ (\A r \in Requests : g[r] \in Int)
    BY RecordedIsNatural, UnderWayIsInteger
  <1>2. IsFiniteSet(Txs) /\ IsFiniteSet(Requests)
    BY BridgeConstants
  <1> HIDE DEF f, g
  <1>3. SumFunctionOnSet(f, Txs) \in Int /\ SumFunctionOnSet(g, Requests) \in Int
    BY <1>1, <1>2, SumIsInt
  <1>4. QED
    BY <1>3 DEF f, g, DepositsOf, UnderWayOf

(* A step of a request changes what is under way by its own part alone.    *)
LEMMA MoveIsUnderWay ==
  ASSUME BridgeInv, BooksInv, NEW r \in Requests, NEW next, Goes(r, next), UNCHANGED swap,
         NEW u, UnderWay(next, u) \in Int
  PROVE  UnderWayOf(u)' = UnderWayOf(u) + UnderWay(next, u) - UnderWay(request[r], u)
  <1> DEFINE f == [q \in Requests |-> UnderWay(request[q], u)]
             g == [q \in Requests |-> UnderWay(request'[q], u)]
  <1>1. /\ \A q \in Requests : f[q] \in Int
        /\ f[r] = UnderWay(request[r], u)
    BY UnderWayIsInteger
  <1>2. /\ g[r] = UnderWay(next, u)
        /\ \A q \in Requests \ {r} : g[q] = f[q]
    BY OneMoves
  <1>3. \A q \in Requests : g[q] \in Int
    BY <1>1, <1>2
  <1>4. UnderWayOf(u)' = SumFunctionOnSet(g, Requests)
    BY DEF UnderWayOf, UnderWay
  <1>5. UnderWayOf(u) = SumFunctionOnSet(f, Requests)
    BY DEF UnderWayOf
  <1>6. IsFiniteSet(Requests)
    BY BridgeConstants
  <1> HIDE DEF f, g
  <1>7. SumFunctionOnSet(g, Requests) = SumFunctionOnSet(f, Requests) + g[r] - f[r]
    BY <1>1, <1>2, <1>3, <1>6, SumChanges
  <1>8. QED
    BY <1>1, <1>2, <1>4, <1>5, <1>7

LEMMA MoveKeepsLedger ==
  ASSUME BridgeInv, BooksInv, RestTyped, LedgerHolds, BridgeInv', BooksInv', RestTyped',
         NEW r \in Requests, NEW next, Goes(r, next), UNCHANGED <<swap, failures>>,
         \A t \in Txs : swap[t] = None => deposited'[t] = 0,
         \A u \in Accounts :
           /\ UnderWay(next, u) \in Int
           /\ balance'[u] + withdrawn'[u] - DepositsOf(u)'
                = balance[u] + withdrawn[u] - DepositsOf(u)
                  + UnderWay(next, u) - UnderWay(request[r], u)
  PROVE  LedgerHolds'
  <1> SUFFICES ASSUME failures = 0, NEW u \in Accounts
               PROVE  balance'[u] = Opening - withdrawn'[u] + DepositsOf(u)' + UnderWayOf(u)'
    BY DEF LedgerHolds
  <1>1. balance[u] = Opening - withdrawn[u] + DepositsOf(u) + UnderWayOf(u)
    BY DEF LedgerHolds
  <1>2. UnderWayOf(u)' = UnderWayOf(u) + UnderWay(next, u) - UnderWay(request[r], u)
    BY MoveIsUnderWay
  <1>3. balance'[u] + withdrawn'[u] - DepositsOf(u)'
          = balance[u] + withdrawn[u] - DepositsOf(u) + UnderWay(next, u) - UnderWay(request[r], u)
    OBVIOUS
  <1>4. /\ DepositsOf(u) \in Int /\ UnderWayOf(u) \in Int /\ UnderWay(request[r], u) \in Int
        /\ UnderWay(next, u) \in Int
    BY SumsAreIntegers, UnderWayIsInteger
  <1>5. DepositsOf(u)' \in Int
    <2> DEFINE f == [t \in Txs |-> Recorded(t, u)']
    <2>1. \A t \in Txs : f[t] \in Int
      <3> SUFFICES ASSUME NEW t \in Txs PROVE Recorded(t, u)' \in Int
        OBVIOUS
      <3>1. deposited'[t] \in Nat /\ (swap'[t] # None => swap'[t].minted \in Nat)
        BY DEF BooksInv, BooksTyped, BridgeInv, SwapsPriced, Swaps
      <3>2. CASE swap'[t] # None /\ swap'[t].by = u
        <4>1. PICK m \in Nat : m = swap'[t].minted
          BY <3>1, <3>2
        <4>2. PICK d \in Nat : d = deposited'[t]
          BY <3>1
        <4>3. Recorded(t, u)' = d * m
          BY <3>2, <4>1, <4>2 DEF Recorded
        <4>4. d * m \in Nat
          OBVIOUS
        <4>5. QED
          BY <4>3, <4>4
      <3>3. CASE ~(swap'[t] # None /\ swap'[t].by = u)
        BY <3>3 DEF Recorded
      <3>4. QED
        BY <3>2, <3>3
    <2>2. IsFiniteSet(Txs)
      BY BridgeConstants
    <2>3. DepositsOf(u)' = SumFunctionOnSet(f, Txs)
      BY DEF DepositsOf
    <2> HIDE DEF f
    <2>4. QED
      BY <2>1, <2>2, <2>3, SumIsInt
  <1>6. /\ balance[u] \in Int /\ balance'[u] \in Int
        /\ withdrawn[u] \in Int /\ withdrawn'[u] \in Int /\ Opening \in Int
    BY BridgeConstants DEF BooksInv, BooksTyped, RestTyped
  <1>7. PICK b \in Int, c \in Int, v \in Int, w \in Int, o \in Int :
          /\ b = balance[u] /\ c = balance'[u] /\ v = withdrawn[u] /\ w = withdrawn'[u]
          /\ o = Opening
    BY <1>6
  <1>8. PICK d \in Int, e \in Int : d = DepositsOf(u) /\ e = DepositsOf(u)'
    BY <1>4, <1>5
  <1>9. PICK x \in Int, i \in Int, j \in Int :
          x = UnderWayOf(u) /\ i = UnderWay(request[r], u) /\ j = UnderWay(next, u)
    BY <1>4
  <1>10. PICK y \in Int : y = UnderWayOf(u)' /\ y = x + j - i
    BY <1>2, <1>9
  <1>11. b = o - v + d + x
    BY <1>1, <1>7, <1>8, <1>9
  <1>12. c + w - e = b + v - d + j - i
    BY <1>3, <1>7, <1>8, <1>9
  <1>13. c = o - w + e + y
    BY <1>10, <1>11, <1>12
  <1>14. QED
    BY <1>7, <1>8, <1>10, <1>13

(* A step of a request that moves no credits and leaves what is under way. *)
LEMMA QuietKeepsLedger ==
  ASSUME BridgeInv, BooksInv, RestTyped, LedgerHolds, BridgeInv', BooksInv', RestTyped',
         NEW r \in Requests, NEW next, Goes(r, next),
         UNCHANGED <<swap, failures, balance, deposited, withdrawn>>,
         \A u \in Accounts : UnderWay(next, u) = UnderWay(request[r], u)
  PROVE  LedgerHolds'
  <1>1. \A t \in Txs : swap[t] = None => deposited'[t] = 0
    BY DEF LedgerHolds
  <1>2. ASSUME NEW u \in Accounts
        PROVE  /\ UnderWay(next, u) \in Int
               /\ balance'[u] + withdrawn'[u] - DepositsOf(u)'
                    = balance[u] + withdrawn[u] - DepositsOf(u)
                      + UnderWay(next, u) - UnderWay(request[r], u)
    <2>1. DepositsOf(u)' = DepositsOf(u)
      BY DEF DepositsOf, Recorded
    <2>2. UnderWay(request[r], u) \in Int /\ DepositsOf(u) \in Int
      BY UnderWayIsInteger, SumsAreIntegers
    <2>3. balance[u] \in Int /\ withdrawn[u] \in Int
      BY DEF BooksInv, BooksTyped, RestTyped
    <2>4. UnderWay(next, u) = UnderWay(request[r], u) /\ balance' = balance /\ withdrawn' = withdrawn
      OBVIOUS
    <2>5. QED
      BY <2>1, <2>2, <2>3, <2>4
  <1>3. QED
    BY <1>1, <1>2, MoveKeepsLedger

(* The stages in which nothing is under way.                               *)
AtRest == {"idle", "check", "verify", "credit", "refused", "known",
           "balance", "price", "treasury", "debit"}

LEMMA RestIsNothing == ASSUME NEW asks, asks.stage \in AtRest, NEW u PROVE UnderWay(asks, u) = 0
  BY DEF AtRest, UnderWay

LEMMA RestingKeepsLedger ==
  ASSUME BridgeInv, BooksInv, RestTyped, LedgerHolds, BridgeInv', BooksInv', RestTyped',
         NEW r \in Requests, NEW next, Goes(r, next), request[r].stage \in AtRest,
         next.stage \in AtRest, UNCHANGED <<swap, failures, balance, deposited, withdrawn>>
  PROVE  LedgerHolds'
  <1>1. \A u \in Accounts : UnderWay(next, u) = UnderWay(request[r], u)
    BY RestIsNothing
  <1>2. QED
    BY <1>1, QuietKeepsLedger

LEMMA CreditKeepsLedger ==
  ASSUME BridgeInv, BooksInv, RestTyped, LedgerHolds, BridgeInv', BooksInv', RestTyped',
         NEW r \in Requests, CreditDeposit(r)
  PROVE  LedgerHolds'
  <1> DEFINE me == request[r]
             next == [me EXCEPT !.stage = "record"]
  <1>1. /\ me.stage = "credit" /\ Goes(r, next)
        /\ balance' = [balance EXCEPT ![me.by] = @ + swap[me.tx].minted]
        /\ UNCHANGED <<swap, failures, deposited, withdrawn>>
    BY DEF CreditDeposit, At, DepositElse, chain
  <1>2. me \in [stage : DepositStages, by : Accounts, tx : Txs, amount : Amounts,
               read : BOOLEAN, heard : BOOLEAN]
        /\ swap[me.tx].minted \in Nat
    BY <1>1 DEF BridgeInv, DepositsAreOfSwaps, RequestOK, DepositStages, DepositOfSwap,
       SwapsPriced, Swaps
  <1>3. PICK m \in Nat : m = swap[me.tx].minted
    BY <1>2
  <1>4. next.stage = "record" /\ next.by = me.by /\ next.tx = me.tx
    BY <1>2
  <1>5. \A t \in Txs : swap[t] = None => deposited'[t] = 0
    BY <1>1 DEF LedgerHolds
  <1> HIDE DEF next
  <1>6. ASSUME NEW u \in Accounts
        PROVE  /\ UnderWay(next, u) \in Int
               /\ balance'[u] + withdrawn'[u] - DepositsOf(u)'
                    = balance[u] + withdrawn[u] - DepositsOf(u)
                      + UnderWay(next, u) - UnderWay(me, u)
    <2>1. DepositsOf(u)' = DepositsOf(u) /\ DepositsOf(u) \in Int
      BY <1>1, SumsAreIntegers DEF DepositsOf, Recorded
    <2>2. UnderWay(me, u) = 0
      BY <1>1, RestIsNothing DEF AtRest
    <2>3. UnderWay(next, u) = IF me.by = u THEN m ELSE 0
      BY <1>3, <1>4 DEF UnderWay
    <2>4. balance \in [Accounts -> Int] /\ withdrawn[u] \in Int
      BY DEF BooksInv, BooksTyped, RestTyped
    <2>5. balance'[u] = balance[u] + (IF me.by = u THEN m ELSE 0)
      BY <1>1, <1>2, <1>3, <2>4
    <2>6. CASE me.by = u
      BY <1>1, <2>1, <2>2, <2>3, <2>4, <2>5, <2>6
    <2>7. CASE me.by # u
      BY <1>1, <2>1, <2>2, <2>3, <2>4, <2>5, <2>7
    <2>8. QED
      BY <2>6, <2>7
  <1>7. QED
    BY <1>1, <1>5, <1>6, MoveKeepsLedger

LEMMA RecordKeepsLedger ==
  ASSUME BridgeInv, BooksInv, RestTyped, LedgerHolds, BridgeInv', BooksInv', RestTyped',
         NEW r \in Requests, RecordDeposit(r)
  PROVE  LedgerHolds'
  <1> DEFINE me == request[r]
  <1>1. /\ me.stage = "record" /\ Goes(r, Idle)
        /\ deposited' = [deposited EXCEPT ![me.tx] = @ + 1]
        /\ UNCHANGED <<swap, failures, balance, withdrawn>>
    BY DEF RecordDeposit, At, DepositElse, chain
  <1>2. /\ me \in [stage : DepositStages, by : Accounts, tx : Txs, amount : Amounts,
                  read : BOOLEAN, heard : BOOLEAN]
        /\ swap[me.tx] # None /\ swap[me.tx].by = me.by /\ swap[me.tx].minted \in Nat
    BY <1>1 DEF BridgeInv, DepositsAreOfSwaps, RequestOK, DepositStages, DepositOfSwap,
       SwapsPriced, Swaps
  <1>3. PICK m \in Nat : m = swap[me.tx].minted
    BY <1>2
  <1>4. PICK n \in Nat : n = deposited[me.tx]
    BY <1>2 DEF BooksInv, BooksTyped
  <1>5. deposited \in [Txs -> Nat]
    BY DEF BooksInv, BooksTyped
  <1>6. \A t \in Txs : swap[t] = None => deposited'[t] = 0
    BY <1>1, <1>2, <1>5 DEF LedgerHolds
  <1>7. ASSUME NEW u \in Accounts
        PROVE  DepositsOf(u)' = DepositsOf(u) + (IF me.by = u THEN m ELSE 0)
    <2> DEFINE f == [t \in Txs |-> Recorded(t, u)]
               g == [t \in Txs |-> Recorded(t, u)']
    <2>1. /\ f[me.tx] = IF me.by = u THEN n * m ELSE 0
          /\ g[me.tx] = IF me.by = u THEN (n + 1) * m ELSE 0
      BY <1>1, <1>2, <1>3, <1>4, <1>5 DEF Recorded
    <2>2. \A t \in Txs \ {me.tx} : g[t] = f[t]
      BY <1>1, <1>5 DEF Recorded
    <2>3. \A t \in Txs : f[t] \in Int
      BY RecordedIsNatural
    <2>4. n * m \in Int /\ (n + 1) * m = n * m + m
      OBVIOUS
    <2>5. PICK k \in Int : k = n * m /\ (n + 1) * m = k + m
      BY <2>4
    <2>6. /\ f[me.tx] = IF me.by = u THEN k ELSE 0
          /\ g[me.tx] = IF me.by = u THEN k + m ELSE 0
      BY <2>1, <2>5
    <2>7. DepositsOf(u) = SumFunctionOnSet(f, Txs) /\ DepositsOf(u)' = SumFunctionOnSet(g, Txs)
      BY DEF DepositsOf
    <2>8. IsFiniteSet(Txs) /\ me.tx \in Txs
      BY <1>2, BridgeConstants
    <2> HIDE DEF f, g, me
    <2>9. \A t \in Txs : g[t] \in Int
      BY <2>2, <2>3, <2>6
    <2>10. SumFunctionOnSet(g, Txs) = SumFunctionOnSet(f, Txs) + g[me.tx] - f[me.tx]
      BY <2>2, <2>3, <2>8, <2>9, SumChanges
    <2>11. SumFunctionOnSet(f, Txs) \in Int
      BY <2>3, <2>8, SumIsInt
    <2>12. CASE me.by = u
      BY <2>6, <2>7, <2>10, <2>11, <2>12
    <2>13. CASE me.by # u
      BY <2>6, <2>7, <2>10, <2>11, <2>13
    <2>14. QED
      BY <2>12, <2>13
  <1>8. ASSUME NEW u \in Accounts
        PROVE  /\ UnderWay(Idle, u) \in Int
               /\ balance'[u] + withdrawn'[u] - DepositsOf(u)'
                    = balance[u] + withdrawn[u] - DepositsOf(u)
                      + UnderWay(Idle, u) - UnderWay(me, u)
    <2>1. UnderWay(Idle, u) = 0
      BY RestIsNothing DEF AtRest, Idle
    <2>2. UnderWay(me, u) = IF me.by = u THEN m ELSE 0
      BY <1>1, <1>3 DEF UnderWay
    <2>3. balance[u] \in Int /\ withdrawn[u] \in Int /\ DepositsOf(u) \in Int
      BY SumsAreIntegers DEF BooksInv, BooksTyped, RestTyped
    <2>4. CASE me.by = u
      BY <1>1, <1>7, <2>1, <2>2, <2>3, <2>4
    <2>5. CASE me.by # u
      BY <1>1, <1>7, <2>1, <2>2, <2>3, <2>5
    <2>6. QED
      BY <2>4, <2>5
  <1>9. QED
    BY <1>1, <1>6, <1>8, MoveKeepsLedger

LEMMA DepositKeepsLedger ==
  ASSUME BridgeInv, BooksInv, RestTyped, LedgerHolds, BridgeInv', BooksInv', RestTyped',
         NEW r \in Requests, DepositStep(r)
  PROVE  LedgerHolds'
  <1>1. CASE CheckDeposit(r) \/ VerifyDeposit(r) \/ Refuse(r)
    <2>1. UNCHANGED <<swap, failures, balance, deposited, withdrawn>>
      BY <1>1 DEF CheckDeposit, VerifyDeposit, Refuse, books, DepositElse, chain
    <2>2. request[r].stage \in {"check", "verify", "refused", "known"}
      BY <1>1 DEF CheckDeposit, VerifyDeposit, Refuse, At
    <2>3. PICK next : Goes(r, next) /\ next.stage \in {"known", "verify", "credit", "refused", "idle"}
      <3>1. CASE Refuse(r)
        BY <3>1 DEF Refuse, Idle
      <3>2. CASE CheckDeposit(r)
        <4>1. PICK stage \in {"known", "verify"} : Goes(r, [request[r] EXCEPT !.stage = stage])
          BY <3>2 DEF CheckDeposit
        <4>2. [request[r] EXCEPT !.stage = stage].stage = stage
          BY DEF BridgeInv, DepositsAreOfSwaps, RequestOK
        <4>3. QED
          BY <4>1, <4>2
      <3>3. CASE VerifyDeposit(r)
        <4>1. PICK told \in BOOLEAN, stage \in {"credit", "refused"} :
                Goes(r, [request[r] EXCEPT !.stage = stage, !.read = told])
          BY <3>3 DEF VerifyDeposit
        <4>2. [request[r] EXCEPT !.stage = stage, !.read = told].stage = stage
          BY DEF BridgeInv, DepositsAreOfSwaps, RequestOK
        <4>3. QED
          BY <4>1, <4>2
      <3>4. QED
        BY <1>1, <3>1, <3>2, <3>3
    <2>4. QED
      BY <2>1, <2>2, <2>3, RestingKeepsLedger DEF AtRest
  <1>2. CASE PostIsLost(r)
    <2> DEFINE next == [request[r] EXCEPT !.heard = FALSE]
    <2>1. UNCHANGED <<swap, failures, balance, deposited, withdrawn>> /\ Goes(r, next)
      BY <1>2 DEF PostIsLost, books, DepositElse, chain
    <2>2. DepositOfSwap(r)
      BY <1>2 DEF PostIsLost, BridgeInv, DepositsAreOfSwaps, RequestOK
    <2>3. next.stage = request[r].stage /\ next.by = request[r].by /\ next.tx = request[r].tx
      BY <2>2 DEF DepositOfSwap
    <2> HIDE DEF next
    <2>4. \A u \in Accounts : UnderWay(next, u) = UnderWay(request[r], u)
      BY <1>2, <2>3 DEF UnderWay, PostIsLost, DepositStages
    <2>5. QED
      BY <2>1, <2>4, QuietKeepsLedger
  <1>3. QED
    BY <1>1, <1>2, CreditKeepsLedger, RecordKeepsLedger DEF DepositStep

(* A withdrawal knows whose it is and how much it is.                      *)
LEMMA WithdrawalFields ==
  ASSUME BridgeInv, BooksInv, NEW r \in Requests, request[r].stage \in WithdrawStages
  PROVE  /\ {"stage", "by", "amount"} \subseteq DOMAIN request[r]
         /\ request[r].by \in Accounts /\ request[r].amount \in Nat
  BY MostIsMost DEF BridgeInv, DepositsAreOfSwaps, RequestOK, BooksInv, BooksTyped, AsksWell

DebitedStages == {"send", "submit", "refund", "log"}

LEMMA DebitKeepsLedger ==
  ASSUME BridgeInv, BooksInv, RestTyped, LedgerHolds, BridgeInv', BooksInv', RestTyped',
         NEW r \in Requests, DebitCredits(r)
  PROVE  LedgerHolds'
  <1> DEFINE me == request[r]
             next == [me EXCEPT !.stage = "send"]
  <1>1. /\ me.stage = "debit" /\ Goes(r, next)
        /\ balance' = [balance EXCEPT ![me.by] = @ - me.amount]
        /\ UNCHANGED <<swap, failures, deposited, withdrawn>>
    BY DEF DebitCredits, At, WithdrawElse
  <1>2. {"stage", "by", "amount"} \subseteq DOMAIN me /\ me.by \in Accounts /\ me.amount \in Nat
    BY <1>1, WithdrawalFields DEF WithdrawStages
  <1>3. next.stage = "send" /\ next.by = me.by /\ next.amount = me.amount
    BY <1>2
  <1>4. \A t \in Txs : swap[t] = None => deposited'[t] = 0
    BY <1>1 DEF LedgerHolds
  <1> HIDE DEF next
  <1>5. ASSUME NEW u \in Accounts
        PROVE  /\ UnderWay(next, u) \in Int
               /\ balance'[u] + withdrawn'[u] - DepositsOf(u)'
                    = balance[u] + withdrawn[u] - DepositsOf(u)
                      + UnderWay(next, u) - UnderWay(me, u)
    <2>1. DepositsOf(u)' = DepositsOf(u) /\ DepositsOf(u) \in Int
      BY <1>1, SumsAreIntegers DEF DepositsOf, Recorded
    <2>2. UnderWay(me, u) = 0
      BY <1>1, RestIsNothing DEF AtRest
    <2>3. UnderWay(next, u) = IF me.by = u THEN -me.amount ELSE 0
      BY <1>3 DEF UnderWay
    <2>4. balance \in [Accounts -> Int] /\ withdrawn[u] \in Int
      BY DEF BooksInv, BooksTyped, RestTyped
    <2>5. balance'[u] = IF me.by = u THEN balance[u] - me.amount ELSE balance[u]
      BY <1>1, <1>2, <2>4
    <2>6. CASE me.by = u
      BY <1>1, <1>2, <2>1, <2>2, <2>3, <2>4, <2>5, <2>6
    <2>7. CASE me.by # u
      BY <1>1, <2>1, <2>2, <2>3, <2>4, <2>5, <2>7
    <2>8. QED
      BY <2>6, <2>7
  <1>6. QED
    BY <1>1, <1>4, <1>5, MoveKeepsLedger

(* A debited withdrawal on its way to the payout keeps its claim.          *)
LEMMA PayingKeepsLedger ==
  ASSUME BridgeInv, BooksInv, RestTyped, LedgerHolds, BridgeInv', BooksInv', RestTyped',
         NEW r \in Requests, NEW next, Goes(r, next), request[r].stage \in DebitedStages,
         next.stage \in DebitedStages, next.by = request[r].by, next.amount = request[r].amount,
         UNCHANGED <<swap, failures, balance, deposited, withdrawn>>
  PROVE  LedgerHolds'
  <1>1. \A u \in Accounts : UnderWay(next, u) = UnderWay(request[r], u)
    BY DEF UnderWay, DebitedStages
  <1>2. QED
    BY <1>1, QuietKeepsLedger

(* The end of a debited withdrawal: the credits go back or are logged.     *)
LEMMA EndKeepsLedger ==
  ASSUME BridgeInv, BooksInv, RestTyped, LedgerHolds, BridgeInv', BooksInv', RestTyped',
         NEW r \in Requests, Refund(r) \/ LogWithdrawal(r)
  PROVE  LedgerHolds'
  <1> DEFINE me == request[r]
  <1>1. /\ me.stage \in {"refund", "log"} /\ Goes(r, Idle)
        /\ \/ /\ balance' = [balance EXCEPT ![me.by] = @ + me.amount]
              /\ UNCHANGED withdrawn
           \/ /\ withdrawn' = [withdrawn EXCEPT ![me.by] = @ + me.amount]
              /\ UNCHANGED balance
        /\ UNCHANGED <<swap, failures, deposited>>
    BY DEF Refund, LogWithdrawal, At, WithdrawElse
  <1>2. me.by \in Accounts /\ me.amount \in Nat
    BY <1>1, WithdrawalFields DEF WithdrawStages
  <1>3. \A t \in Txs : swap[t] = None => deposited'[t] = 0
    BY <1>1 DEF LedgerHolds
  <1>4. ASSUME NEW u \in Accounts
        PROVE  /\ UnderWay(Idle, u) \in Int
               /\ balance'[u] + withdrawn'[u] - DepositsOf(u)'
                    = balance[u] + withdrawn[u] - DepositsOf(u)
                      + UnderWay(Idle, u) - UnderWay(me, u)
    <2>1. DepositsOf(u)' = DepositsOf(u) /\ DepositsOf(u) \in Int
      BY <1>1, SumsAreIntegers DEF DepositsOf, Recorded
    <2>2. UnderWay(Idle, u) = 0
      BY RestIsNothing DEF AtRest, Idle
    <2>3. UnderWay(me, u) = IF me.by = u THEN -me.amount ELSE 0
      BY <1>1 DEF UnderWay
    <2>4. balance \in [Accounts -> Int] /\ withdrawn \in [Accounts -> Nat]
      BY DEF BooksInv, BooksTyped, RestTyped
    <2>5. balance'[u] + withdrawn'[u]
            = IF me.by = u THEN balance[u] + withdrawn[u] + me.amount
              ELSE balance[u] + withdrawn[u]
      BY <1>1, <1>2, <2>4
    <2>6. /\ balance[u] \in Int /\ withdrawn[u] \in Int
          /\ balance'[u] \in Int /\ withdrawn'[u] \in Int
      BY <2>4 DEF BooksInv, BooksTyped, RestTyped
    <2>7. CASE me.by = u
      BY <1>2, <2>1, <2>2, <2>3, <2>5, <2>6, <2>7
    <2>8. CASE me.by # u
      BY <2>1, <2>2, <2>3, <2>5, <2>6, <2>8
    <2>9. QED
      BY <2>7, <2>8
  <1>5. QED
    BY <1>1, <1>3, <1>4, MoveKeepsLedger

LEMMA WithdrawKeepsLedger ==
  ASSUME BridgeInv, BooksInv, RestTyped, LedgerHolds, BridgeInv', BooksInv', RestTyped',
         NEW r \in Requests, WithdrawStep(r)
  PROVE  LedgerHolds'
  <1>1. ASSUME NEW u \in Accounts, Withdraw(r, u)
        PROVE  LedgerHolds'
    <2>1. PICK c \in Withdrawals : Goes(r, [stage |-> "balance", by |-> u, amount |-> c])
      BY <1>1 DEF Withdraw
    <2> DEFINE next == [stage |-> "balance", by |-> u, amount |-> c]
    <2>2. UNCHANGED <<swap, failures, balance, deposited, withdrawn>>
      BY <1>1 DEF Withdraw, WithdrawElse
    <2>3. request[r].stage \in AtRest /\ next.stage \in AtRest
      BY <1>1 DEF Withdraw, Idle, AtRest
    <2> HIDE DEF next
    <2>4. Goes(r, next)
      BY <2>1 DEF next
    <2>5. QED
      BY <2>2, <2>3, <2>4, RestingKeepsLedger
  <1>2. CASE CheckBalance(r) \/ PriceWithdrawal(r) \/ CheckTreasury(r)
    <2>1. UNCHANGED <<swap, failures, balance, deposited, withdrawn>>
      BY <1>2 DEF CheckBalance, PriceWithdrawal, CheckTreasury, WithdrawElse
    <2>2. request[r].stage \in {"balance", "price", "treasury"}
      BY <1>2 DEF CheckBalance, PriceWithdrawal, CheckTreasury, At
    <2>3. PICK next : Goes(r, next) /\ next.stage \in {"price", "treasury", "debit", "idle"}
      <3>1. CASE Goes(r, Idle)
        BY <3>1 DEF Idle
      <3>2. ASSUME NEW stage \in {"price", "debit"}, Goes(r, [request[r] EXCEPT !.stage = stage])
            PROVE  \E next : Goes(r, next) /\ next.stage \in {"price", "treasury", "debit", "idle"}
        <4>1. [request[r] EXCEPT !.stage = stage].stage = stage
          BY DEF BridgeInv, DepositsAreOfSwaps, RequestOK
        <4>2. QED
          BY <3>2, <4>1
      <3>3. CASE CheckBalance(r)
        <4>1. CASE HasCredits(r)
          BY <3>2, <3>3, <4>1 DEF CheckBalance
        <4>2. CASE ~HasCredits(r)
          BY <3>1, <3>3, <4>2 DEF CheckBalance
        <4>3. QED
          BY <4>1, <4>2
      <3>4. CASE CheckTreasury(r)
        <4>1. Goes(r, [request[r] EXCEPT !.stage = "debit"]) \/ Goes(r, Idle)
          BY <3>4 DEF CheckTreasury
        <4>2. QED
          BY <3>1, <3>2, <4>1
      <3>5. CASE PriceWithdrawal(r)
        <4> DEFINE me == request[r]
                   next(p) == [stage |-> "treasury", by |-> me.by, amount |-> me.amount,
                               okb |-> OkbFor(me.amount, p)]
        <4>1. PICK p \in Quotes :
                Goes(r, IF p = None \/ OkbFor(me.amount, p) = 0 THEN Idle ELSE next(p))
          BY <3>5 DEF PriceWithdrawal
        <4>2. next(p).stage = "treasury"
          OBVIOUS
        <4> HIDE DEF next
        <4>3. CASE p = None \/ OkbFor(me.amount, p) = 0
          BY <3>1, <4>1, <4>3
        <4>4. CASE ~(p = None \/ OkbFor(me.amount, p) = 0)
          BY <4>1, <4>2, <4>4
        <4>5. QED
          BY <4>3, <4>4
      <3>6. QED
        BY <1>2, <3>3, <3>4, <3>5
    <2>4. QED
      BY <2>1, <2>2, <2>3, RestingKeepsLedger DEF AtRest
  <1>3. CASE ChooseSource(r) \/ SubmitPayout(r)
    <2> DEFINE me == request[r]
    <2>1. UNCHANGED <<swap, failures, balance, deposited, withdrawn>>
      BY <1>3 DEF ChooseSource, SubmitPayout, WithdrawElse
    <2>2. me.stage \in {"send", "submit"}
      BY <1>3 DEF ChooseSource, SubmitPayout, At
    <2>3. {"stage", "by", "amount"} \subseteq DOMAIN me
      BY <2>2, WithdrawalFields DEF WithdrawStages
    <2>4. PICK next : /\ Goes(r, next) /\ next.stage \in {"submit", "refund", "log"}
                      /\ next.by = me.by /\ next.amount = me.amount
      <3> DEFINE From(source) == [stage |-> "submit", by |-> me.by, amount |-> me.amount,
                                  okb |-> me.okb, from |-> source]
                 Stage(s) == [me EXCEPT !.stage = s]
      <3>1. PICK next \in {From("vault"), From("wallet"), Stage("refund"), Stage("log")} : Goes(r, next)
        <4>1. CASE ChooseSource(r)
          BY <4>1 DEF ChooseSource
        <4>2. CASE SubmitPayout(r)
          BY <4>2 DEF SubmitPayout
        <4>3. QED
          BY <1>3, <4>1, <4>2
      <3>2. ASSUME NEW s \in {"refund", "log"}
            PROVE  Stage(s).stage = s /\ Stage(s).by = me.by /\ Stage(s).amount = me.amount
        BY <2>3
      <3>3. ASSUME NEW s
            PROVE  From(s).stage = "submit" /\ From(s).by = me.by /\ From(s).amount = me.amount
        OBVIOUS
      <3> HIDE DEF From, Stage
      <3>4. QED
        BY <3>1, <3>2, <3>3
    <2>5. QED
      BY <2>1, <2>2, <2>4, PayingKeepsLedger DEF DebitedStages
  <1>4. QED
    BY <1>1, <1>2, <1>3, DebitKeepsLedger, EndKeepsLedger DEF WithdrawStep

(* Steps outside the requests: a swap is made or mined, or nothing that    *)
(* the ledger depends on.                                                  *)
LEMMA ElsewhereKeepsLedger ==
  ASSUME BridgeInv, BooksInv, LedgerHolds, BridgeNext \/ UNCHANGED bridgeVars,
         UNCHANGED <<request, failures, balance, deposited, withdrawn>>
  PROVE  LedgerHolds'
  <1>1. \A t \in Txs : swap[t] # None =>
          swap'[t] # None /\ swap'[t].by = swap[t].by /\ swap'[t].minted = swap[t].minted
    BY SwapsLast DEF BridgeInv
  <1>2. \A t \in Txs : swap'[t] = None => deposited'[t] = 0
    BY <1>1 DEF LedgerHolds
  <1> SUFFICES ASSUME failures = 0, NEW u \in Accounts
               PROVE  balance[u] = Opening - withdrawn[u] + DepositsOf(u)' + UnderWayOf(u)'
    BY <1>2 DEF LedgerHolds
  <1>3. DepositsOf(u)' = DepositsOf(u)
    <2> DEFINE f == [t \in Txs |-> Recorded(t, u)]
               g == [t \in Txs |-> Recorded(t, u)']
    <2>1. ASSUME NEW t \in Txs PROVE g[t] = f[t]
      <3>1. CASE swap[t] # None
        BY <1>1, <3>1 DEF Recorded
      <3>2. CASE swap[t] = None
        <4>1. deposited[t] = 0 /\ deposited'[t] = 0 /\ f[t] = 0
          BY <3>2 DEF LedgerHolds, Recorded
        <4>2. CASE swap'[t] # None /\ swap'[t].by = u
          <5>1. g[t] = deposited'[t] * swap'[t].minted
            BY <4>2 DEF Recorded
          <5>2. swap'[t].minted \in Nat
            BY <4>2, SwapsStep DEF BridgeInv, SwapsPriced, Swaps
          <5>3. PICK m \in Nat : m = swap'[t].minted
            BY <5>2
          <5>4. QED
            BY <4>1, <5>1, <5>3
        <4>3. CASE ~(swap'[t] # None /\ swap'[t].by = u)
          BY <4>1, <4>3 DEF Recorded
        <4>4. QED
          BY <4>2, <4>3
      <3>3. QED
        BY <3>1, <3>2
    <2>2. f = g
      BY <2>1
    <2>3. DepositsOf(u) = SumFunctionOnSet(f, Txs) /\ DepositsOf(u)' = SumFunctionOnSet(g, Txs)
      BY DEF DepositsOf
    <2> HIDE DEF f, g
    <2>4. QED
      BY <2>2, <2>3
  <1>4. UnderWayOf(u)' = UnderWayOf(u)
    <2> DEFINE f == [r \in Requests |-> UnderWay(request[r], u)]
               g == [r \in Requests |-> UnderWay(request[r], u)']
    <2>1. ASSUME NEW r \in Requests PROVE g[r] = f[r]
      <3>1. request'[r] = request[r]
        OBVIOUS
      <3>2. CASE request[r].stage = "record"
        <4>1. request[r].tx \in Txs /\ swap[request[r].tx] # None
          BY <3>2 DEF BridgeInv, DepositsAreOfSwaps, RequestOK, DepositStages, DepositOfSwap
        <4>2. swap'[request[r].tx].minted = swap[request[r].tx].minted
          BY <1>1, <4>1
        <4>3. QED
          BY <3>1, <3>2, <4>2 DEF UnderWay
      <3>3. CASE request[r].stage # "record"
        BY <3>1, <3>3 DEF UnderWay
      <3>4. QED
        BY <3>2, <3>3
    <2>2. f = g
      BY <2>1
    <2>3. UnderWayOf(u) = SumFunctionOnSet(f, Requests) /\ UnderWayOf(u)' = SumFunctionOnSet(g, Requests)
      BY DEF UnderWayOf
    <2> HIDE DEF f, g
    <2>4. QED
      BY <2>2, <2>3
  <1>5. QED
    BY <1>3, <1>4 DEF LedgerHolds

(* PostDeposit: a request that asks for nothing yet takes an idle place.   *)
LEMMA PostingKeepsLedger ==
  ASSUME BridgeInv, BooksInv, RestTyped, LedgerHolds, BridgeInv', BooksInv', RestTyped', PostDeposit
  PROVE  LedgerHolds'
  <1>1. PICK r \in Requests :
          /\ request[r] = Idle
          /\ Goes(r, [stage |-> "check", by |-> dialog.by, tx |-> dialog.tx,
                      amount |-> dialog.amount, read |-> TRUE, heard |-> TRUE])
    BY DEF PostDeposit, Goes
  <1> DEFINE next == [stage |-> "check", by |-> dialog.by, tx |-> dialog.tx,
                      amount |-> dialog.amount, read |-> TRUE, heard |-> TRUE]
  <1>2. UNCHANGED <<swap, failures, balance, deposited, withdrawn>>
    BY DEF PostDeposit, DialogElse, books
  <1>3. request[r].stage \in AtRest /\ next.stage \in AtRest
    BY <1>1 DEF Idle, AtRest
  <1>4. Goes(r, next)
    BY <1>1
  <1> HIDE DEF next
  <1>5. QED
    BY <1>2, <1>3, <1>4, RestingKeepsLedger

(* A backend that has died once promises nothing of the balances.          *)
LEMMA CrashKeepsLedger ==
  ASSUME BooksInv, LedgerHolds, Crash
  PROVE  LedgerHolds'
  <1>1. failures \in Nat /\ failures' = failures + 1 /\ UNCHANGED <<swap, deposited>>
    BY DEF BooksInv, BooksTyped, Crash, chain, books
  <1>2. failures' # 0
    BY <1>1
  <1>3. QED
    BY <1>1, <1>2 DEF LedgerHolds

LEMMA LedgerInit == BridgeInit => LedgerHolds
  <1> SUFFICES ASSUME BridgeInit PROVE LedgerHolds
    OBVIOUS
  <1>1. \A t \in Txs : swap[t] = None /\ deposited[t] = 0
    BY DEF BridgeInit
  <1>2. ASSUME NEW u \in Accounts
        PROVE  balance[u] = Opening - withdrawn[u] + DepositsOf(u) + UnderWayOf(u)
    <2> DEFINE f == [t \in Txs |-> Recorded(t, u)]
               g == [r \in Requests |-> UnderWay(request[r], u)]
    <2>1. \A t \in Txs : f[t] = 0
      BY <1>1 DEF Recorded
    <2>2. \A r \in Requests : g[r] = 0
      BY DEF BridgeInit, Idle, UnderWay
    <2>3. DepositsOf(u) = SumFunctionOnSet(f, Txs) /\ UnderWayOf(u) = SumFunctionOnSet(g, Requests)
      BY DEF DepositsOf, UnderWayOf
    <2> HIDE DEF f, g
    <2>4. SumFunctionOnSet(f, Txs) = 0
      BY <2>1, SumOfZeros, BridgeConstants
    <2>5. SumFunctionOnSet(g, Requests) = 0
      BY <2>2, SumOfZeros, BridgeConstants
    <2>6. balance[u] = Opening /\ withdrawn[u] = 0 /\ Opening \in Nat
      BY BridgeConstants DEF BridgeInit
    <2>7. QED
      BY <2>3, <2>4, <2>5, <2>6
  <1>3. QED
    BY <1>1, <1>2 DEF LedgerHolds

LEMMA LedgerStep ==
  /\ BridgeInv /\ BooksInv /\ RestTyped /\ LedgerHolds
  /\ BridgeInv' /\ BooksInv' /\ RestTyped'
  /\ [BridgeNext]_bridgeVars
  => LedgerHolds'
  <1> SUFFICES ASSUME BridgeInv, BooksInv, RestTyped, LedgerHolds, BridgeInv', BooksInv', RestTyped',
                      [BridgeNext]_bridgeVars
               PROVE  LedgerHolds'
    OBVIOUS
  <1> DEFINE Elsewhere == UNCHANGED <<request, failures, balance, deposited, withdrawn>>
  <1>1. CASE UNCHANGED bridgeVars
    BY <1>1 , ElsewhereKeepsLedger DEF bridgeVars, books
  <1>2. CASE \/ MarketMoves \/ QuotePrice \/ SyncReads \/ SyncIsMined
             \/ MineBlock \/ LiquidityChanges \/ VaultIsFunded
    <2>1. Elsewhere
      BY <1>2 DEF MarketMoves, QuotePrice, SyncReads, SyncIsMined, MineBlock, LiquidityChanges,
         VaultIsFunded, books
    <2>2. QED
      BY <2>1, ElsewhereKeepsLedger, <1>2 DEF BridgeNext
  <1>3. CASE \/ LoadConfig \/ ReadRouterPrice \/ CloseDialog \/ EditAmount
             \/ Convert
    <2>1. Elsewhere
      BY <1>3 DEF LoadConfig, ReadRouterPrice, CloseDialog, EditAmount, Convert, DialogElse, books
    <2>2. QED
      BY <2>1, ElsewhereKeepsLedger, <1>3 DEF BridgeNext
  <1>4. ASSUME NEW u \in Accounts, OpenDialog(u)
        PROVE  LedgerHolds'
    <2>1. Elsewhere
      BY <1>4 DEF OpenDialog, DialogElse, books
    <2>2. QED
      BY <2>1, ElsewhereKeepsLedger, <1>4 DEF BridgeNext
  <1>5. CASE PostDeposit
    BY <1>5, PostingKeepsLedger
  <1>6. ASSUME NEW r \in Requests, DepositStep(r) \/ WithdrawStep(r)
        PROVE  LedgerHolds'
    BY <1>6, DepositKeepsLedger, WithdrawKeepsLedger
  <1>7. ASSUME NEW p \in payouts, PayoutIsMined(p)
        PROVE  LedgerHolds'
    <2>1. Elsewhere
      BY <1>7 DEF PayoutIsMined, books
    <2>2. BridgeNext
      BY <1>7 DEF BridgeNext
    <2>3. QED
      BY <2>1, <2>2, ElsewhereKeepsLedger
  <1>8. CASE Crash
    BY <1>8, CrashKeepsLedger
  <1>9. QED
    BY <1>1, <1>2, <1>3, <1>4, <1>5, <1>6, <1>7, <1>8 DEF BridgeNext

LEMMA LedgerInvariant == BridgeSpec => []LedgerHolds
  BY LedgerInit, LedgerStep, BridgeInvariant, BooksInvariant, RestTypedInvariant, PTL DEF BridgeSpec

(* Every variable of the bridge keeps its type: the vault and the wallet   *)
(* never pay more than they hold, and no step leaves a request, a swap or  *)
(* a payout half made.                                                     *)
THEOREM BridgeTypeCorrect == BridgeSpec => []BridgeTypeOK
  BY InvariantsType, BridgeInvariant, BooksInvariant, RestTypedInvariant, PTL

(* While the backend lives, routes/credits.ts neither makes nor loses      *)
(* credits: a balance is the opening balance, the recorded deposits and    *)
(* the logged withdrawals, and what its requests have credited or debited  *)
(* and not yet written down, for any number of requests and swaps.         *)
THEOREM BalancesAreLedgers == BridgeSpec => []BalanceIsLedger
  <1>1. LedgerHolds /\ BridgeTypeOK => BalanceIsLedger
    BY DEF LedgerHolds, DepositsOf, UnderWayOf, BalanceIsLedger
  <1>2. QED
    BY <1>1, LedgerInvariant, BridgeTypeCorrect, PTL

-----------------------------------------------------------------------------
(***************************************************************************)
(* OnChainArcade: what the contracts' books and the indexer's metrics say, *)
(* for any accounts, amounts, prices, splits, chains and restarts.         *)
(***************************************************************************)

(* The credits: what was minted and burned, and why.                       *)
LedgerAddsUp ==
  /\ SumFunction(credits) = minted - burned
  /\ burned = pool.prizePool /\ pool.prizePool = EntryFee * Cardinality(joined)
  /\ pool.playerCount = Cardinality(joined)
  /\ \A a \in Accounts : IF a \in claimed THEN \E r \in Roots : rewards[a] = r[a]
                         ELSE rewards[a] = 0

(* A block without an event adds nothing.                                  *)
EventsCount ==
  /\ Len(blocks) > 0
  /\ \A n \in 1 .. Len(blocks) : blocks[n]["swaps"] = 0 =>
       \A field \in Fields : blocks[n][field] = 0

PollStates ==
       [stage : {"idle"}]
  \cup [stage : {"fetch", "move"}, beside : BOOLEAN, from : Nat, to : Nat]
  \cup [stage : {"read"}, beside : BOOLEAN, from : Nat, to : Nat, found : Counts]
  \cup [stage : {"write"}, beside : BOOLEAN, from : Nat, to : Nat, found : Counts,
        day : 1 .. MaxDays, sum : Counts]

(* A poll asks for blocks that stay as they are, and what it found in them *)
(* is still so.  What it will write is no more than the day has been       *)
(* brought and it found; alone, it is what the row has and it found.       *)
CallIsCurrent(call) ==
  /\ call.stage # "idle" => 1 <= call.from /\ call.from <= call.to /\ call.to < Len(blocks)
  /\ call.stage \in {"read", "write"} => call.found = EventsIn(call.from, call.to)
  /\ call.stage = "write" =>
       /\ \A field \in Fields : call.sum[field] <= brought[call.day][field] + call.found[field]
       /\ overlaps = 0 => call.sum = Plus(metrics[call.day], call.found)

(* The poll that began while no other was under way, and those that began  *)
(* beside another.                                                         *)
Leads(p) == Polling(p) /\ ~poll[p].beside
Lags(p) == Polling(p) /\ poll[p].beside

(* Whatever else is under way began after the poll that leads.             *)
BeganFirst(p) ==
  /\ poll[p].from <= lastIndexed + 1
  /\ overlaps = 0 => poll[p].from = lastIndexed + 1
  /\ \A q \in Polls : Leads(q) => q = p
  /\ \A q \in Polls : Polling(q) => poll[p].from <= poll[q].to

PollsAreCurrent ==
  /\ poll \in [Polls -> PollStates]
  /\ lastIndexed < Len(blocks)
  /\ \A p \in Polls : CallIsCurrent(poll[p])
  /\ \A p \in Polls : Lags(p) => overlaps > 0
  /\ \A p \in Polls : Leads(p) => BeganFirst(p)

RowsAreBrought ==
  \A d \in 1 .. MaxDays, field \in Fields : metrics[d][field] <= brought[d][field]

(* The last block whose events a poll has no more to bring, and where the  *)
(* cursor is or will be when the poll that leads has moved it.             *)
DoneTo(call) == IF call.stage = "move" THEN call.to ELSE call.from - 1
Reached == IF \E p \in Polls : Leads(p) THEN DoneTo(poll[CHOOSE p \in Polls : Leads(p)])
           ELSE lastIndexed

MetricsCover(field) ==
  DeployBlock > 0 /\ overlaps = 0 => EventsIn(1, Reached)[field] <= Indexed(field)

(* What the upserts have brought in all.                                   *)
Brought(field) ==
  SumFunctionOnSet([d \in 1 .. MaxDays |-> brought[d][field]], 1 .. MaxDays)

(* The polls that lag, and the events they have no more to bring.          *)
Lagging(call) == call.stage # "idle" /\ call.beside
Mark(call) == IF Lagging(call) THEN 1 ELSE 0
Weight(call, field) == IF Lagging(call) THEN EventsIn(1, DoneTo(call))[field] ELSE 0
Marks == [p \in Polls |-> Mark(poll[p])]
Weights(field) == [p \in Polls |-> Weight(poll[p], field)]
Laggards == SumFunctionOnSet(Marks, Polls)
AllBehind(field) == SumFunctionOnSet(Weights(field), Polls)

(* A restart, and an overlap that has ended, may have brought every event; *)
(* a poll that lags may still bring, or have read again, what is after the *)
(* blocks it is done with.                                                 *)
BroughtBound(field) ==
  (restarts + overlaps - Laggards) * EventsIn(1, Len(blocks))[field]
    + AllBehind(field) + EventsIn(1, Reached)[field]

BroughtBounded ==
  /\ Laggards <= overlaps
  /\ \A field \in Fields : Brought(field) <= BroughtBound(field)

ArcadeInv ==
  /\ ArcadeTypeOK
  /\ LedgerAddsUp
  /\ EventsCount /\ HookBooksAgree
  /\ PollsAreCurrent /\ RowsAreBrought
  /\ \A field \in Fields : MetricsCover(field)
  /\ BroughtBounded

-----------------------------------------------------------------------------
(* The events of a stretch of blocks.                                      *)

Told(field) == [n \in DOMAIN blocks |-> blocks[n][field]]

LEMMA ToldOf ==
  ASSUME NEW from, NEW to, NEW field \in Fields
  PROVE  EventsIn(from, to)[field] = SumFunctionOnSet(Told(field), from .. to)
  BY DEF EventsIn, Told

LEMMA BlocksTell ==
  ASSUME blocks \in Seq(Counts), NEW field \in Fields
  PROVE  /\ Len(blocks) \in Nat /\ DOMAIN blocks = 1 .. Len(blocks)
         /\ \A n \in 1 .. Len(blocks) : /\ blocks[n] \in Counts /\ blocks[n][field] \in Nat
                                        /\ Told(field)[n] = blocks[n][field]
  <1>1. /\ Len(blocks) \in Nat /\ DOMAIN blocks = 1 .. Len(blocks)
        /\ blocks \in [1 .. Len(blocks) -> Counts]
    BY LenProperties
  <1>2. QED
    BY <1>1 DEF Told, Counts

LEMMA EventsAreCounts ==
  ASSUME blocks \in Seq(Counts), NEW from \in Nat \ {0}, NEW to \in Nat, to <= Len(blocks)
  PROVE  /\ EventsIn(from, to) \in Counts
         /\ \A field \in Fields : EventsIn(from, to)[field] \in Nat
  <1>1. ASSUME NEW field \in Fields
        PROVE  SumFunctionOnSet(Told(field), from .. to) \in Nat
    <2>1. \A n \in from .. to : Told(field)[n] \in Nat
      <3>1. Len(blocks) \in Nat
        BY BlocksTell
      <3>2. from .. to \subseteq 1 .. Len(blocks)
        BY <3>1
      <3>3. QED
        BY <3>2, BlocksTell
    <2>2. IsFiniteSet(from .. to)
      BY FS_Interval
    <2>3. QED
      BY <2>1, <2>2, SumIsNat
  <1>2. \A field \in Fields : EventsIn(from, to)[field] \in Nat
    BY <1>1, ToldOf
  <1>3. QED
    BY <1>2 DEF EventsIn, Counts

LEMMA EventsGoOn ==
  ASSUME blocks \in Seq(Counts), NEW i \in Nat, NEW n \in Nat, i <= n, n <= Len(blocks),
         NEW field \in Fields
  PROVE  EventsIn(1, n)[field] = EventsIn(1, i)[field] + EventsIn(i + 1, n)[field]
  <1>1. \A x \in 1 .. n : Told(field)[x] \in Int
    <2>1. Len(blocks) \in Nat
      BY BlocksTell
    <2>2. 1 .. n \subseteq 1 .. Len(blocks)
      BY <2>1
    <2>3. QED
      BY <2>2, BlocksTell
  <1>2. QED
    BY <1>1, SumGoesOn, ToldOf

LEMMA NoBlocksNoEvents ==
  ASSUME NEW field \in Fields
  PROVE  EventsIn(1, 0)[field] = 0
  <1>1. 1 .. 0 = {}
    OBVIOUS
  <1>2. QED
    BY <1>1, SumEmpty, ToldOf

(* A poll that finds no swap misses no event.                              *)
LEMMA NoSwapNoEvents ==
  ASSUME blocks \in Seq(Counts), EventsCount, NEW from \in Nat \ {0}, NEW to \in Nat,
         to <= Len(blocks), EventsIn(from, to)["swaps"] = 0, NEW field \in Fields
  PROVE  EventsIn(from, to)[field] = 0
  <1>1. "swaps" \in Fields
    BY DEF Fields
  <1>2. IsFiniteSet(from .. to)
    BY FS_Interval
  <1>3. from .. to \subseteq 1 .. Len(blocks)
    <2>1. Len(blocks) \in Nat
      BY BlocksTell
    <2>2. QED
      BY <2>1
  <1>4. \A n \in from .. to : Told("swaps")[n] = blocks[n]["swaps"] /\ Told("swaps")[n] \in Nat
    BY <1>1, <1>3, BlocksTell
  <1>5. SumFunctionOnSet(Told("swaps"), from .. to) = 0
    BY <1>1, ToldOf
  <1>6. \A n \in from .. to : blocks[n]["swaps"] = 0
    <2>1. \A n \in from .. to : Told("swaps")[n] \in Nat
      BY <1>4
    <2>2. \A n \in from .. to : Told("swaps")[n] = 0
      BY <1>2, <1>5, <2>1, SumIsNat
    <2>3. QED
      BY <1>4, <2>2
  <1>7. \A n \in from .. to : Told(field)[n] = 0
    BY <1>3, <1>6, BlocksTell DEF EventsCount
  <1>8. QED
    BY <1>2, <1>7, SumOfZeros, ToldOf

(* What blocks that stay as they are tell stays the same.                  *)
LEMMA EventsStay ==
  ASSUME blocks \in Seq(Counts), blocks' \in Seq(Counts), NEW from \in Nat \ {0}, NEW to \in Nat,
         to <= Len(blocks), to <= Len(blocks'), \A n \in from .. to : blocks'[n] = blocks[n]
  PROVE  /\ EventsIn(from, to)' = EventsIn(from, to)
         /\ \A field \in Fields : EventsIn(from, to)'[field] = EventsIn(from, to)[field]
  <1> DEFINE now(field) == [n \in DOMAIN blocks' |-> blocks'[n][field]]
             was(field) == [n \in DOMAIN blocks |-> blocks[n][field]]
  <1>1. ASSUME NEW field \in Fields
        PROVE  SumFunctionOnSet(now(field), from .. to) = SumFunctionOnSet(was(field), from .. to)
    <2>1. IsFiniteSet(from .. to)
      BY FS_Interval
    <2>2. /\ DOMAIN blocks = 1 .. Len(blocks) /\ DOMAIN blocks' = 1 .. Len(blocks')
          /\ Len(blocks) \in Nat /\ Len(blocks') \in Nat
          /\ blocks \in [1 .. Len(blocks) -> Counts]
      BY LenProperties
    <2>3. from .. to \subseteq 1 .. Len(blocks) /\ from .. to \subseteq 1 .. Len(blocks')
      BY <2>2
    <2>4. \A n \in from .. to : was(field)[n] \in Int
      BY <2>2, <2>3 DEF Counts
    <2>5. \A n \in from .. to : now(field)[n] = was(field)[n]
      BY <2>2, <2>3
    <2> HIDE DEF now, was
    <2>6. QED
      BY <2>1, <2>4, <2>5, SumSame
  <1>2. EventsIn(from, to)' = EventsIn(from, to)
    <2>1. EventsIn(from, to)' = [field \in Fields |-> SumFunctionOnSet(now(field), from .. to)]
      BY DEF EventsIn
    <2>2. EventsIn(from, to) = [field \in Fields |-> SumFunctionOnSet(was(field), from .. to)]
      BY DEF EventsIn
    <2> HIDE DEF now, was
    <2>3. QED
      BY <1>1, <2>1, <2>2
  <1>3. QED
    BY <1>2

-----------------------------------------------------------------------------
(* The contracts.                                                          *)

LEMMA ArcadeConstantsAreNat ==
  /\ EntryFee \in Nat /\ MaxPlayers \in Nat /\ DeployBlock \in {0, 1}
  /\ MaxBlocks \in Nat /\ MaxBlocks > 0 /\ MaxDays \in Nat /\ MaxDays > 0 /\ MaxRestarts \in Nat
  /\ MaxOverlaps \in Nat /\ IsFiniteSet(Accounts) /\ IsFiniteSet(Polls)
  BY ArcadeConstants

LEMMA MintsAreNat ==
  ASSUME NEW a \in Nat, price \in Prices \cup {0}
  PROVE  ComputeCredits(a) \in Nat
  <1>1. price \in Nat /\ CreditScale \in Nat \ {0}
    BY ContractConstants
  <1>2. a * price \in Nat
    BY <1>1
  <1> DEFINE n == a * price * CREDITS_PER_USD
  <1>3. n \in Nat
    BY <1>2 DEF CREDITS_PER_USD
  <1> HIDE DEF n
  <1>4. n \div CreditScale \in Nat
    BY <1>1, <1>3
  <1>5. QED
    BY <1>4 DEF n, ComputeCredits

(* The three parts of a fee are the fee, whatever the split.               *)
LEMMA PartsOfFee ==
  ASSUME NEW fee \in Nat, split \in Splits
  PROVE  /\ Route(fee).treasury \in Nat /\ Route(fee).jackpot \in Nat /\ Route(fee).ecosystem \in Nat
         /\ Route(fee).treasury + Route(fee).jackpot + Route(fee).ecosystem = fee
         /\ DOMAIN Route(fee) = {"treasury", "jackpot", "ecosystem"}
  <1>1. /\ split.treasury \in Nat /\ split.jackpot \in Nat /\ split.ecosystem \in Nat
        /\ split.treasury + split.jackpot + split.ecosystem = 10000
    BY ContractConstants DEF BPS
  <1>2. PICK x \in Nat : x = fee * split.treasury
    BY <1>1
  <1>3. PICK y \in Nat : y = fee * split.jackpot
    BY <1>1
  <1>4. x + y <= fee * 10000
    <2>1. PICK k \in Nat : k = split.treasury + split.jackpot
      BY <1>1
    <2>2. fee * k = x + y
      BY <1>1, <1>2, <1>3, <2>1
    <2>3. k <= 10000
      BY <1>1, <2>1
    <2>4. fee * k <= fee * 10000
      BY <2>3
    <2>5. QED
      BY <2>2, <2>4
  <1>5. /\ x \div 10000 \in Nat /\ y \div 10000 \in Nat
        /\ fee - (x \div 10000) - (y \div 10000) \in Nat
    BY <1>4
  <1>6. Route(fee) = [treasury |-> x \div 10000, jackpot |-> y \div 10000,
                      ecosystem |-> fee - (x \div 10000) - (y \div 10000)]
    BY <1>2, <1>3 DEF Route, BPS
  <1>7. QED
    BY <1>5, <1>6

LEMMA FeesAreNat ==
  ASSUME NEW n \in Nat
  PROVE  HookFee(n) \in Nat
  <1>1. n * 500 \in Nat
    OBVIOUS
  <1>2. QED
    BY <1>1 DEF HookFee, HOOK_SWAP_FEE_BPS, BPS

EventIsRouted(fee) ==
  /\ hook' = [swaps |-> hook.swaps + 1, routed |-> hook.routed + fee,
              jackpot |-> hook.jackpot + Route(fee).jackpot,
              ecosystem |-> hook.ecosystem + Route(fee).ecosystem]
  /\ quote' = quote + Route(fee).treasury + Route(fee).jackpot + Route(fee).ecosystem
  /\ blocks' = [blocks EXCEPT ![Len(blocks)] = Plus(@, Event(fee))]

Minted(u, amount) ==
  /\ credits' = [credits EXCEPT ![u] = @ + amount]
  /\ minted' = minted + amount /\ UNCHANGED burned

(* A swap mints, and the hook's fee, if there is one, is in its event.     *)
LEMMA SwapDoes ==
  ASSUME ArcadeTypeOK, NEW u \in Accounts, NEW a \in Amounts, Swap(u, a)
  PROVE  /\ \E amount \in Nat : Minted(u, amount)
         /\ okb' \in [{"router", "pool", "vault"} -> Nat] /\ liquidity' \in Nat
         /\ \/ UNCHANGED <<hook, quote, blocks>>
            \/ \E fee \in Nat : EventIsRouted(fee)
  <1>1. /\ a \in Nat /\ liquidity \in Nat /\ price \in Prices \cup {0}
        /\ okb \in [{"router", "pool", "vault"} -> Nat]
        /\ hook \in [swaps : Nat, routed : Nat, jackpot : Nat, ecosystem : Nat]
    BY ContractConstants DEF ArcadeTypeOK, ContractsTypeOK
  <1>2. SwapForCredits(u, a) /\ UNCHANGED <<escrow, indexer>>
    BY DEF Swap
  <1>3. Minted(u, ComputeCredits(a)) /\ ComputeCredits(a) \in Nat
    BY <1>1, <1>2, MintsAreNat DEF SwapForCredits, MintCredits, Minted
  <1>4. Spent(a) \in Nat /\ Spent(a) <= a /\ Spent(a) <= liquidity
    BY <1>1 DEF Spent, Lesser
  <1>5. CASE liquidity = 0
    <2>1. okb' = [okb EXCEPT !.router = @ + a] /\ UNCHANGED <<hook, quote, liquidity>>
      BY <1>2, <1>5 DEF SwapForCredits
    <2>2. blocks' = blocks
      BY <2>1 DEF Swap
    <2>3. okb' \in [{"router", "pool", "vault"} -> Nat]
      BY <1>1, <2>1
    <2>4. QED
      BY <1>1, <1>3, <2>1, <2>2, <2>3
  <1>6. CASE liquidity # 0
    <2>1. /\ okb' = [okb EXCEPT !.pool = @ + Spent(a), !.router = @ + a - Spent(a)]
          /\ AfterSwap(Spent(a))
          /\ liquidity' = liquidity - Spent(a)
      BY <1>2, <1>6 DEF SwapForCredits
    <2>2. okb' \in [{"router", "pool", "vault"} -> Nat] /\ liquidity' \in Nat
      <3>1. PICK s \in Nat : s = Spent(a) /\ s <= a /\ s <= liquidity
        BY <1>4
      <3>2. okb.pool + s \in Nat /\ okb.router + a - s \in Nat /\ liquidity - s \in Nat
        BY <1>1, <3>1
      <3>3. okb' = [okb EXCEPT !.pool = okb.pool + s, !.router = okb.router + a - s]
        BY <1>1, <2>1, <3>1
      <3>4. QED
        BY <1>1, <2>1, <3>1, <3>2, <3>3
    <2>3. CASE HookFee(Spent(a)) = 0
      <3>1. UNCHANGED <<hook, quote>>
        BY <2>1, <2>3 DEF AfterSwap
      <3>2. blocks' = blocks
        BY <3>1 DEF Swap
      <3>3. QED
        BY <1>3, <2>2, <3>1, <3>2
    <2>4. CASE HookFee(Spent(a)) # 0
      <3>1. PICK fee \in Nat : fee = HookFee(Spent(a))
        BY <1>4, FeesAreNat
      <3>2. /\ hook' = [swaps |-> hook.swaps + 1, routed |-> hook.routed + fee,
                        jackpot |-> hook.jackpot + Route(fee).jackpot,
                        ecosystem |-> hook.ecosystem + Route(fee).ecosystem]
            /\ quote' = quote + Route(fee).treasury + Route(fee).jackpot + Route(fee).ecosystem
        BY <2>1, <2>4, <3>1 DEF AfterSwap
      <3>3. hook' # hook
        <4>1. hook'.swaps = hook.swaps + 1 /\ hook.swaps \in Nat
          BY <1>1, <3>2
        <4>2. QED
          BY <4>1
      <3>4. EventIsRouted(fee)
        BY <3>1, <3>2, <3>3 DEF Swap, EventIsRouted
      <3>5. QED
        BY <1>3, <2>2, <3>4
    <2>5. QED
      BY <2>3, <2>4
  <1>7. QED
    BY <1>5, <1>6

(* What an event tells, and the block it is in.                            *)
LEMMA EventTells ==
  ASSUME NEW fee \in Nat, split \in Splits
  PROVE  /\ Event(fee) \in Counts
         /\ Event(fee)["swaps"] = 1 /\ Event(fee)["treasury"] = Route(fee).treasury
         /\ Event(fee)["jackpot"] = Route(fee).jackpot
         /\ Event(fee)["ecosystem"] = Route(fee).ecosystem
  <1>1. /\ SwapRouted(fee)["treasury"] = Route(fee).treasury
        /\ SwapRouted(fee)["jackpot"] = Route(fee).jackpot
        /\ SwapRouted(fee)["ecosystem"] = Route(fee).ecosystem
    BY DEF SwapRouted
  <1>2. \A field \in Fields : \/ field = "swaps" \/ field = "treasury"
                              \/ field = "jackpot" \/ field = "ecosystem"
    BY DEF Fields
  <1>3. {"swaps", "treasury", "jackpot", "ecosystem"} \subseteq Fields
    BY DEF Fields
  <1>4. /\ Event(fee)["swaps"] = 1 /\ Event(fee)["treasury"] = Route(fee).treasury
        /\ Event(fee)["jackpot"] = Route(fee).jackpot
        /\ Event(fee)["ecosystem"] = Route(fee).ecosystem
    BY <1>1, <1>3 DEF Event
  <1>4a. /\ Event(fee)["swaps"] \in Nat /\ Event(fee)["treasury"] \in Nat
         /\ Event(fee)["jackpot"] \in Nat /\ Event(fee)["ecosystem"] \in Nat
    BY <1>4, PartsOfFee
  <1>5. \A field \in Fields : Event(fee)[field] \in Nat
    BY <1>2, <1>4a, Zenon
  <1>6. QED
    BY <1>4, <1>5 DEF Event, Counts

LEMMA PlusCounts ==
  ASSUME NEW a \in Counts, NEW b \in Counts
  PROVE  /\ Plus(a, b) \in Counts
         /\ \A field \in Fields : Plus(a, b)[field] = a[field] + b[field]
  BY DEF Plus, Counts

LEMMA BlockHasEvent ==
  ASSUME ArcadeTypeOK, EventsCount, NEW fee \in Nat, EventIsRouted(fee)
  PROVE  /\ Len(blocks) \in 1 .. Len(blocks)
         /\ blocks' \in Seq(Counts) /\ Len(blocks') = Len(blocks)
         /\ \A n \in 1 .. Len(blocks) :
              blocks'[n] = IF n = Len(blocks) THEN Plus(blocks[n], Event(fee)) ELSE blocks[n]
  <1>1. blocks \in Seq(Counts) /\ split \in Splits
    BY DEF ArcadeTypeOK, ContractsTypeOK
  <1>2. Len(blocks) \in 1 .. Len(blocks)
    BY <1>1, LenProperties DEF EventsCount
  <1>3. Plus(blocks[Len(blocks)], Event(fee)) \in Counts
    BY <1>1, <1>2, ElementOfSeq, EventTells, PlusCounts
  <1>4. blocks' = [blocks EXCEPT ![Len(blocks)] = Plus(blocks[Len(blocks)], Event(fee))]
    BY DEF EventIsRouted
  <1>5. QED
    BY <1>1, <1>2, <1>3, <1>4, ExceptSeq

Pools == [state : {"none", "open", "closed", "settled"}, time : {"before", "in", "after"},
          prizePool : Nat, playerCount : 0 .. MaxPlayers]

(* Every step is one of a few kinds.                                       *)
EscrowStep ==
  /\ UNCHANGED <<swapping, blocks, indexer>>
  /\ \/ CreateTournament \/ PoolTimePasses \/ Close \/ Settle
     \/ \E r \in Roots : SetMerkleRoot(r)
     \/ \E u \in Accounts : Join(u) \/ Claim(u)

PollStepOf(p) == \/ Poll(p) \/ FetchLogs(p) \/ ReadMetrics(p) \/ WriteMetrics(p)
                 \/ Move(p) \/ PollFails(p)
PollStep == (\E p \in Polls : PollStepOf(p)) \/ Restart

LEMMA StepKinds ==
  ASSUME [ArcadeNext]_arcadeVars
  PROVE  \/ EscrowStep
         \/ \E u \in Accounts, a \in Amounts : Swap(u, a)
         \/ Administer \/ NextBlock \/ DayPasses \/ PollStep
         \/ UNCHANGED arcadeVars
  <1>1. CASE ArcadeNext
    <2>1. CASE \E u \in Accounts : Join(u) \/ Claim(u) \/ \E a \in Amounts : Swap(u, a)
      BY <2>1 DEF EscrowStep, Join, Claim, EscrowOnly
    <2>2. CASE CreateTournament \/ PoolTimePasses \/ Close \/ Settle
      BY <2>2 DEF EscrowStep, CreateTournament, PoolTimePasses, Close, Settle, EscrowOnly
    <2>3. CASE \E r \in Roots : SetMerkleRoot(r)
      BY <2>3 DEF EscrowStep, SetMerkleRoot, contracts
    <2>4. QED
      BY <1>1, <2>1, <2>2, <2>3 DEF ArcadeNext, PollStep, PollStepOf
  <1>2. QED
    BY <1>1

(* What a step of another kind leaves alone.                               *)
LEMMA PollLeaves ==
  ASSUME PollStep
  PROVE  UNCHANGED <<contracts, escrow, blocks, today>>
  <1>1. ASSUME NEW p \in Polls, PollStepOf(p) PROVE UNCHANGED <<Chain, today>>
    BY <1>1 DEF PollStepOf, Poll, FetchLogs, ReadMetrics, WriteMetrics, Move, PollFails
  <1>2. CASE Restart
    BY <1>2 DEF Restart, Chain
  <1>3. QED
    BY <1>1, <1>2 DEF PollStep, Chain

LEMMA SwapLeaves ==
  ASSUME NEW u, NEW a, Swap(u, a)
  PROVE  UNCHANGED <<escrow, indexer, price, split, vault>>
  BY DEF Swap, SwapForCredits

LEMMA AdministerLeaves ==
  ASSUME ArcadeTypeOK, Administer
  PROVE  /\ UNCHANGED <<escrow, blocks, indexer, ledger, okb, quote, hook, vault>>
         /\ price' \in Prices \cup {0} /\ split' \in Splits /\ liquidity' \in Nat
  <1>1. price \in Prices \cup {0} /\ split \in Splits /\ liquidity \in Nat
    BY DEF ArcadeTypeOK, ContractsTypeOK
  <1>2. UNCHANGED <<escrow, blocks, indexer>>
    BY DEF Administer
  <1>3. CASE \E p \in Prices : SetOkbUsdPrice(p)
    BY <1>1, <1>2, <1>3 DEF SetOkbUsdPrice
  <1>4. CASE \E s \in Splits : SetSplit(s)
    BY <1>1, <1>2, <1>4 DEF SetSplit
  <1>5. CASE \E a \in Amounts \cup {0} : ChangeLiquidity(a)
    <2>1. Amounts \cup {0} \subseteq Nat
      BY ContractConstants
    <2>2. QED
      BY <1>1, <1>2, <1>5, <2>1 DEF ChangeLiquidity
  <1>6. QED
    BY <1>3, <1>4, <1>5 DEF Administer

LEMMA EscrowTypes ==
  ASSUME ArcadeTypeOK, LedgerAddsUp, EscrowStep
  PROVE  /\ pool' \in Pools /\ joined' \subseteq Accounts /\ claimed' \subseteq Accounts
         /\ root' \in Roots /\ rewards' \in [Accounts -> Nat]
         /\ credits' \in [Accounts -> Nat] /\ minted' \in Nat /\ burned' \in Nat
  <1>1. /\ pool \in Pools /\ joined \subseteq Accounts /\ claimed \subseteq Accounts
        /\ root \in Roots /\ rewards \in [Accounts -> Nat]
        /\ credits \in [Accounts -> Nat] /\ minted \in Nat /\ burned \in Nat
    BY DEF ArcadeTypeOK, ContractsTypeOK, Pools
  <1>2. CASE CreateTournament
    <2>1. pool' = [pool EXCEPT !.state = "open"]
      BY <1>2 DEF CreateTournament
    <2>2. QED
      BY <1>1, <1>2, <2>1 DEF CreateTournament, EscrowOnly, ledger, Pools
  <1>3. CASE PoolTimePasses
    <2>1. pool' \in Pools
      <3>1. pool' = [pool EXCEPT !.time = "in"] \/ pool' = [pool EXCEPT !.time = "after"]
        BY <1>3 DEF PoolTimePasses
      <3>2. QED
        BY <1>1, <3>1 DEF Pools
    <2>2. QED
      BY <1>1, <1>3, <2>1 DEF PoolTimePasses, EscrowOnly, ledger
  <1>4. CASE Close \/ Settle
    <2>1. pool' \in Pools
      <3>1. pool' = [pool EXCEPT !.state = "closed"] \/ pool' = [pool EXCEPT !.state = "settled"]
        BY <1>4 DEF Close, Settle
      <3>2. QED
        BY <1>1, <3>1 DEF Pools
    <2>2. QED
      BY <1>1, <1>4, <2>1 DEF Close, Settle, EscrowOnly, ledger
  <1>5. CASE \E r \in Roots : SetMerkleRoot(r)
    BY <1>1, <1>5 DEF SetMerkleRoot, contracts, ledger
  <1>6. ASSUME NEW u \in Accounts, Join(u)
        PROVE  /\ pool' \in Pools /\ joined' \subseteq Accounts /\ claimed' \subseteq Accounts
               /\ root' \in Roots /\ rewards' \in [Accounts -> Nat]
               /\ credits' \in [Accounts -> Nat] /\ minted' \in Nat /\ burned' \in Nat
    <2>1. UNCHANGED <<root, claimed, rewards>> /\ joined' = joined \cup {u}
      BY <1>6 DEF Join, EscrowOnly
    <2>2. pool' \in Pools
      <3>1. pool' = [pool EXCEPT !.prizePool = @ + EntryFee, !.playerCount = @ + 1]
        BY <1>6 DEF Join
      <3>2. pool.playerCount < MaxPlayers /\ pool.playerCount \in 0 .. MaxPlayers
        BY <1>1, <1>6 DEF Join, MayJoin, Pools
      <3>3. pool.playerCount + 1 \in 0 .. MaxPlayers
        BY <3>2, ArcadeConstantsAreNat
      <3>4. pool.prizePool + EntryFee \in Nat
        BY <1>1, ArcadeConstantsAreNat DEF Pools
      <3>5. QED
        BY <1>1, <3>1, <3>3, <3>4 DEF Pools
    <2>3. credits' \in [Accounts -> Nat] /\ minted' \in Nat /\ burned' \in Nat
      <3>1. CASE EntryFee > 0
        <4>1. /\ credits[u] >= EntryFee /\ credits' = [credits EXCEPT ![u] = @ - EntryFee]
              /\ burned' = burned + EntryFee /\ minted' = minted
          BY <1>6, <3>1 DEF Join, BurnCredits
        <4>2. credits[u] - EntryFee \in Nat
          BY <1>1, <4>1, ArcadeConstantsAreNat
        <4>3. QED
          BY <1>1, <4>1, <4>2, ArcadeConstantsAreNat
      <3>2. CASE ~(EntryFee > 0)
        BY <1>1, <1>6, <3>2 DEF Join, ledger
      <3>3. QED
        BY <3>1, <3>2
    <2>4. QED
      BY <1>1, <2>1, <2>2, <2>3
  <1>7. ASSUME NEW u \in Accounts, Claim(u)
        PROVE  /\ pool' \in Pools /\ joined' \subseteq Accounts /\ claimed' \subseteq Accounts
               /\ root' \in Roots /\ rewards' \in [Accounts -> Nat]
               /\ credits' \in [Accounts -> Nat] /\ minted' \in Nat /\ burned' \in Nat
    <2>1. root[u] \in Nat
      BY <1>1, ContractConstants
    <2>2. QED
      BY <1>1, <1>7, <2>1 DEF Claim, MintCredits
  <1>8. QED
    BY <1>2, <1>3, <1>4, <1>5, <1>6, <1>7 DEF EscrowStep

LEMMA ArcadeTypesStep ==
  ASSUME ArcadeInv, [ArcadeNext]_arcadeVars, PollsAreCurrent'
  PROVE  ArcadeTypeOK'
  <1>1. /\ ArcadeTypeOK /\ ContractsTypeOK /\ LedgerAddsUp /\ EventsCount
        /\ blocks \in Seq(Counts) /\ Len(blocks) <= MaxBlocks
        /\ today \in 1 .. MaxDays
        /\ lastIndexed \in 0 .. MaxBlocks /\ restarts \in 0 .. MaxRestarts
        /\ overlaps \in 0 .. MaxOverlaps
        /\ poll \in [Polls -> PollStates] /\ PollsAreCurrent
    BY DEF ArcadeInv, ArcadeTypeOK, PollsAreCurrent
  <1>1a. metrics \in [1 .. MaxDays -> Counts] /\ brought \in [1 .. MaxDays -> Counts]
    BY DEF ArcadeInv, ArcadeTypeOK
  <1>2. DOMAIN poll' = Polls
        /\ \A p \in Polls : poll'[p].stage \in {"idle", "fetch", "read", "write", "move"}
    <2>1. poll' \in [Polls -> PollStates]
      BY DEF PollsAreCurrent
    <2>2. \A c \in PollStates : c.stage \in {"idle", "fetch", "read", "write", "move"}
      BY DEF PollStates
    <2>3. QED
      BY <2>1, <2>2
  <1>3. CASE EscrowStep
    <2>1. UNCHANGED <<swapping, blocks, indexer>>
      BY <1>3 DEF EscrowStep
    <2>2. ContractsTypeOK'
      BY <1>1, <1>3, <2>1, EscrowTypes DEF ContractsTypeOK, swapping
    <2>3. QED
      BY <1>1, <1>2, <1>3, <2>1, <2>2, EscrowTypes DEF ArcadeTypeOK, Pools, indexer
  <1>4. ASSUME NEW u \in Accounts, NEW a \in Amounts, Swap(u, a) PROVE ArcadeTypeOK'
    <2>1. UNCHANGED <<escrow, indexer, price, split, vault>>
      BY <1>4, SwapLeaves
    <2>2. PICK amount \in Nat : Minted(u, amount)
      BY <1>1, <1>4, SwapDoes
    <2>3. credits' \in [Accounts -> Nat] /\ minted' \in Nat /\ burned' \in Nat
      BY <1>1, <2>2 DEF Minted, ContractsTypeOK
    <2>4. okb' \in [{"router", "pool", "vault"} -> Nat] /\ liquidity' \in Nat
      BY <1>1, <1>4, SwapDoes
    <2>5. /\ hook' \in [swaps : Nat, routed : Nat, jackpot : Nat, ecosystem : Nat]
          /\ quote' \in Nat /\ blocks' \in Seq(Counts) /\ Len(blocks') = Len(blocks)
      <3>1. /\ hook \in [swaps : Nat, routed : Nat, jackpot : Nat, ecosystem : Nat]
            /\ quote \in Nat /\ split \in Splits
        BY <1>1 DEF ContractsTypeOK
      <3>2. CASE UNCHANGED <<hook, quote, blocks>>
        BY <1>1, <3>1, <3>2
      <3>3. CASE \E fee \in Nat : EventIsRouted(fee)
        <4>1. PICK fee \in Nat : EventIsRouted(fee)
          BY <3>3
        <4>2. /\ Route(fee).treasury \in Nat /\ Route(fee).jackpot \in Nat
              /\ Route(fee).ecosystem \in Nat
          BY <3>1, PartsOfFee
        <4>3. /\ hook' \in [swaps : Nat, routed : Nat, jackpot : Nat, ecosystem : Nat]
              /\ quote' \in Nat
          <5>1. PICK i, j, k \in Nat : /\ i = Route(fee).treasury /\ j = Route(fee).jackpot
                                       /\ k = Route(fee).ecosystem
            BY <4>2
          <5>2. /\ hook' = [swaps |-> hook.swaps + 1, routed |-> hook.routed + fee,
                            jackpot |-> hook.jackpot + j, ecosystem |-> hook.ecosystem + k]
                /\ quote' = quote + i + j + k
            BY <4>1, <5>1 DEF EventIsRouted
          <5>3. /\ hook.swaps + 1 \in Nat /\ hook.routed + fee \in Nat
                /\ hook.jackpot + j \in Nat /\ hook.ecosystem + k \in Nat
            BY <3>1
          <5>4. QED
            BY <3>1, <5>2, <5>3
        <4>4. QED
          BY <1>1, <4>1, <4>3, BlockHasEvent
      <3>4. QED
        BY <1>1, <1>4, <3>2, <3>3, SwapDoes
    <2>6. ContractsTypeOK'
      BY <1>1, <2>1, <2>3, <2>4, <2>5 DEF ContractsTypeOK
    <2>7. QED
      BY <1>1, <1>2, <2>1, <2>5, <2>6 DEF ArcadeTypeOK, escrow, indexer
  <1>5. CASE Administer
    <2>1. ContractsTypeOK'
      BY <1>1, <1>5, AdministerLeaves DEF ContractsTypeOK, ledger
    <2>2. QED
      BY <1>1, <1>2, <1>5, <2>1, AdministerLeaves DEF ArcadeTypeOK, escrow, indexer
  <1>6. CASE NextBlock
    <2>1. blocks' \in Seq(Counts) /\ Len(blocks') <= MaxBlocks
      <3>1. NoEvents \in Counts
        BY DEF NoEvents, Counts
      <3>2. blocks' = Append(blocks, NoEvents) /\ Len(blocks) < MaxBlocks /\ Len(blocks) \in Nat
        BY <1>1, <1>6, LenProperties DEF NextBlock
      <3>3. blocks' \in Seq(Counts) /\ Len(blocks') = Len(blocks) + 1
        BY <1>1, <3>1, <3>2, AppendProperties
      <3>4. QED
        BY <3>2, <3>3, ArcadeConstantsAreNat
    <2>2. UNCHANGED <<contracts, escrow, indexer>>
      BY <1>6 DEF NextBlock
    <2>3. ContractsTypeOK'
      BY <1>1, <2>2 DEF ContractsTypeOK, contracts, ledger, swapping
    <2>4. QED
      BY <1>1, <1>2, <2>1, <2>2, <2>3 DEF ArcadeTypeOK, escrow, indexer
  <1>7. CASE DayPasses \/ PollStep
    <2>1. UNCHANGED Chain
      BY <1>7, PollLeaves DEF DayPasses, Chain
    <2>2. today' \in 1 .. MaxDays
      <3>1. CASE DayPasses
        BY <1>1, <3>1, ArcadeConstantsAreNat DEF DayPasses
      <3>2. CASE PollStep
        BY <1>1, <3>2, PollLeaves
      <3>3. QED
        BY <1>7, <3>1, <3>2
    <2>3. /\ metrics' \in [1 .. MaxDays -> Counts] /\ brought' \in [1 .. MaxDays -> Counts]
          /\ restarts' \in 0 .. MaxRestarts
      <3>1. ASSUME NEW p \in Polls, WriteMetrics(p)
            PROVE  metrics' \in [1 .. MaxDays -> Counts] /\ brought' \in [1 .. MaxDays -> Counts]
        <4>1. PICK call : call = poll[p]
          OBVIOUS
        <4>2. call \in PollStates /\ call.stage = "write"
          BY <1>1, <3>1, <4>1 DEF WriteMetrics
        <4>3. call.sum \in Counts /\ call.day \in 1 .. MaxDays /\ call.found \in Counts
          BY <4>2 DEF PollStates
        <4>4. Plus(brought[call.day], call.found) \in Counts
          BY <1>1a, <4>3, PlusCounts
        <4>5. /\ metrics' = [metrics EXCEPT ![call.day] = call.sum]
              /\ brought' = [brought EXCEPT ![call.day] = Plus(brought[call.day], call.found)]
          BY <3>1, <4>1 DEF WriteMetrics
        <4>6. QED
          BY <1>1a, <4>3, <4>4, <4>5
      <3>2. ASSUME NEW p \in Polls, PollStepOf(p) PROVE restarts' = restarts
        BY <3>2 DEF PollStepOf, Poll, FetchLogs, ReadMetrics, WriteMetrics, Move, PollFails
      <3>3. ASSUME NEW p \in Polls, PollStepOf(p), ~WriteMetrics(p) PROVE UNCHANGED Books
        BY <3>3 DEF PollStepOf, Poll, FetchLogs, ReadMetrics, WriteMetrics, Move, PollFails
      <3>4. CASE Restart
        BY <1>1, <1>1a, <3>4, ArcadeConstantsAreNat DEF Restart, Books
      <3>5. CASE DayPasses
        BY <1>1, <1>1a, <3>5 DEF DayPasses, Books
      <3>6. CASE \E p \in Polls : PollStepOf(p)
        BY <1>1, <1>1a, <3>1, <3>2, <3>3, <3>6 DEF Books
      <3>7. QED
        BY <1>7, <3>4, <3>5, <3>6 DEF PollStep
    <2>4. overlaps' \in 0 .. MaxOverlaps
      <3>1. CASE overlaps' = overlaps
        BY <1>1, <3>1
      <3>2. CASE overlaps < MaxOverlaps /\ overlaps' = overlaps + 1
        BY <1>1, <3>2, ArcadeConstantsAreNat
      <3>3. ASSUME NEW p \in Polls, PollStepOf(p)
            PROVE  overlaps' = overlaps \/ (overlaps < MaxOverlaps /\ overlaps' = overlaps + 1)
        BY <3>3 DEF PollStepOf, Poll, FetchLogs, ReadMetrics, WriteMetrics, Move, PollFails
      <3>4. CASE Restart \/ DayPasses
        BY <3>1, <3>4 DEF Restart, DayPasses
      <3>5. QED
        BY <1>7, <3>1, <3>2, <3>3, <3>4 DEF PollStep
    <2>5. blocks' = blocks
      BY <2>1 DEF Chain
    <2>6. lastIndexed' \in 0 .. MaxBlocks
      <3>1. lastIndexed' < Len(blocks) /\ Len(blocks) \in Nat
        BY <1>1, <2>5, LenProperties DEF PollsAreCurrent
      <3>2. lastIndexed' \in Nat
        <4>1. ASSUME NEW p \in Polls, Poll(p) PROVE lastIndexed' \in Nat
          <5>1. PICK latest \in 1 .. Sees :
                  lastIndexed' = IF lastIndexed = 0 THEN Start(latest) ELSE lastIndexed
            BY <4>1 DEF Poll
          <5>2. latest \in Nat \ {0}
            BY <1>1, LenProperties DEF Sees
          <5>3. Start(latest) \in Nat
            BY <5>2, ArcadeConstantsAreNat DEF Start
          <5>4. lastIndexed \in Nat
            BY <1>1, ArcadeConstantsAreNat
          <5>5. QED
            BY <5>1, <5>3, <5>4
        <4>2. ASSUME NEW p \in Polls, Move(p) PROVE lastIndexed' \in Nat
          <5>1. PICK call \in PollStates : call = poll[p]
            BY <1>1
          <5>2. call.stage = "move" /\ lastIndexed' = call.to
            BY <4>2, <5>1 DEF Move
          <5>3. call.to \in Nat
            BY <5>1, <5>2 DEF PollStates
          <5>4. QED
            BY <5>2, <5>3
        <4>3. ASSUME NEW p \in Polls, PollStepOf(p), ~Poll(p), ~Move(p)
              PROVE  lastIndexed' = lastIndexed
          BY <4>3 DEF PollStepOf, FetchLogs, ReadMetrics, WriteMetrics, PollFails
        <4>4. Restart \/ DayPasses => lastIndexed' = lastIndexed \/ lastIndexed' = 0
          BY DEF Restart, DayPasses
        <4>5. lastIndexed \in Nat
          BY <1>1, ArcadeConstantsAreNat
        <4>6. QED
          BY <1>7, <4>1, <4>2, <4>3, <4>4, <4>5 DEF PollStep
      <3>3. QED
        BY <1>1, <3>1, <3>2, ArcadeConstantsAreNat
    <2>7. ContractsTypeOK'
      BY <1>1, <2>1 DEF ContractsTypeOK, Chain, contracts, ledger, swapping
    <2>8. QED
      BY <1>1, <1>2, <2>1, <2>2, <2>3, <2>4, <2>6, <2>7 DEF ArcadeTypeOK, Chain, escrow
  <1>8. CASE UNCHANGED arcadeVars
    BY <1>1, <1>8 DEF ArcadeTypeOK, ContractsTypeOK, arcadeVars, contracts, ledger, swapping, escrow,
                      indexer
  <1>9. QED
    BY <1>3, <1>4, <1>5, <1>6, <1>7, <1>8, StepKinds

-----------------------------------------------------------------------------
(* The credits.                                                            *)

LEMMA HeldByAccounts ==
  ASSUME NEW held \in [Accounts -> Nat]
  PROVE  /\ SumFunction(held) = SumFunctionOnSet(held, Accounts)
         /\ SumFunction(held) \in Nat
  <1>1. SumFunction(held) = SumFunctionOnSet(held, Accounts)
    BY DEF SumFunction
  <1>2. \A a \in Accounts : held[a] \in Nat
    OBVIOUS
  <1>3. QED
    BY <1>1, <1>2, SumIsNat, ArcadeConstantsAreNat

LEMMA HeldChanges ==
  ASSUME NEW held \in [Accounts -> Nat], NEW now \in [Accounts -> Nat], NEW u \in Accounts,
         \A a \in Accounts \ {u} : now[a] = held[a]
  PROVE  SumFunction(now) = SumFunction(held) + now[u] - held[u]
  <1>1. /\ \A a \in Accounts : held[a] \in Int
        /\ \A a \in Accounts : now[a] \in Int
    OBVIOUS
  <1>2. SumFunctionOnSet(now, Accounts) = SumFunctionOnSet(held, Accounts) + now[u] - held[u]
    BY <1>1, SumChanges, ArcadeConstantsAreNat
  <1>3. QED
    BY <1>1, <1>2, HeldByAccounts

LEMMA LedgerKept ==
  ASSUME ArcadeInv, ArcadeTypeOK', [ArcadeNext]_arcadeVars
  PROVE  LedgerAddsUp'
  <1>1. /\ ArcadeTypeOK /\ LedgerAddsUp
        /\ credits \in [Accounts -> Nat] /\ minted \in Nat /\ burned \in Nat
        /\ credits' \in [Accounts -> Nat] /\ minted' \in Nat /\ burned' \in Nat
        /\ pool \in Pools /\ joined \subseteq Accounts /\ claimed \subseteq Accounts
        /\ root \in Roots /\ rewards \in [Accounts -> Nat]
    BY DEF ArcadeInv, ArcadeTypeOK, ContractsTypeOK, Pools
  <1>2. CASE UNCHANGED <<credits, minted, burned, joined, claimed, rewards>>
             /\ pool'.prizePool = pool.prizePool /\ pool'.playerCount = pool.playerCount
    BY <1>1, <1>2 DEF LedgerAddsUp
  <1>3. CASE \/ CreateTournament \/ PoolTimePasses \/ Close \/ Settle
             \/ \E r \in Roots : SetMerkleRoot(r)
    <2>1. UNCHANGED <<credits, minted, burned, joined, claimed, rewards>>
      BY <1>3 DEF CreateTournament, PoolTimePasses, Close, Settle, SetMerkleRoot, EscrowOnly,
                  contracts, ledger
    <2>2. pool'.prizePool = pool.prizePool /\ pool'.playerCount = pool.playerCount
      BY <1>1, <1>3 DEF CreateTournament, PoolTimePasses, Close, Settle, SetMerkleRoot, Pools
    <2>3. QED
      BY <1>2, <2>1, <2>2
  <1>4. ASSUME NEW u \in Accounts, Join(u) PROVE LedgerAddsUp'
    <2>1. /\ u \notin joined /\ joined' = joined \cup {u} /\ UNCHANGED <<claimed, rewards>>
          /\ pool' = [pool EXCEPT !.prizePool = @ + EntryFee, !.playerCount = @ + 1]
      BY <1>4 DEF Join, MayJoin, EscrowOnly
    <2>2. /\ pool'.prizePool = pool.prizePool + EntryFee
          /\ pool'.playerCount = pool.playerCount + 1
      BY <1>1, <2>1 DEF Pools
    <2>3. IsFiniteSet(joined)
      BY <1>1, FS_Subset, ArcadeConstantsAreNat
    <2>4. Cardinality(joined') = Cardinality(joined) + 1 /\ Cardinality(joined) \in Nat
      BY <2>1, <2>3, FS_AddElement, FS_CardinalityType
    <2>5. /\ SumFunction(credits') = SumFunction(credits) - EntryFee
          /\ minted' = minted /\ burned' = burned + EntryFee
      <3>1. CASE EntryFee > 0
        <4>1. /\ credits[u] >= EntryFee /\ credits' = [credits EXCEPT ![u] = @ - EntryFee]
              /\ burned' = burned + EntryFee /\ minted' = minted
          BY <1>4, <3>1 DEF Join, BurnCredits
        <4>2. PICK n \in Nat : n = credits[u] - EntryFee
          BY <1>1, <4>1, ArcadeConstantsAreNat
        <4>3. credits' = [credits EXCEPT ![u] = n]
          BY <4>1, <4>2
        <4>4. SumFunction(credits') = SumFunction(credits) + n - credits[u]
          <5>1. credits'[u] = n /\ \A a \in Accounts \ {u} : credits'[a] = credits[a]
            BY <1>1, <4>3
          <5>2. SumFunction(credits') = SumFunction(credits) + credits'[u] - credits[u]
            BY <1>1, <5>1, HeldChanges
          <5>3. QED
            BY <5>1, <5>2
        <4>5. credits[u] \in Nat /\ SumFunction(credits) \in Nat
          BY <1>1, HeldByAccounts
        <4>6. n - credits[u] = -EntryFee
          BY <4>2, <4>5, ArcadeConstantsAreNat
        <4>7. PICK h \in Nat : h = SumFunction(credits)
          BY <4>5
        <4>8. QED
          BY <4>1, <4>2, <4>4, <4>5, <4>7, ArcadeConstantsAreNat
      <3>2. CASE ~(EntryFee > 0)
        <4>1. UNCHANGED <<credits, minted, burned>> /\ EntryFee = 0
          BY <1>4, <3>2, ArcadeConstantsAreNat DEF Join, ledger
        <4>2. QED
          BY <1>1, <4>1, HeldByAccounts
      <3>3. QED
        BY <3>1, <3>2
    <2>6. EntryFee * (Cardinality(joined) + 1) = EntryFee * Cardinality(joined) + EntryFee
      BY <2>4, ArcadeConstantsAreNat
    <2>7. SumFunction(credits) \in Nat
      BY <1>1, HeldByAccounts
    <2>8. PICK all \in Nat : all = EntryFee * Cardinality(joined)
      BY <2>4, ArcadeConstantsAreNat
    <2>9. /\ burned' = pool'.prizePool /\ pool'.prizePool = EntryFee * Cardinality(joined')
          /\ pool'.playerCount = Cardinality(joined')
      BY <1>1, <2>2, <2>4, <2>5, <2>6, <2>8 DEF LedgerAddsUp
    <2>10. SumFunction(credits') = minted' - burned'
      BY <1>1, <2>5, <2>7, ArcadeConstantsAreNat DEF LedgerAddsUp
    <2>11. QED
      BY <1>1, <2>1, <2>9, <2>10 DEF LedgerAddsUp
  <1>5. ASSUME NEW u \in Accounts, Claim(u) PROVE LedgerAddsUp'
    <2>1. /\ u \notin claimed /\ claimed' = claimed \cup {u} /\ UNCHANGED <<pool, joined, burned>>
          /\ credits' = [credits EXCEPT ![u] = @ + root[u]] /\ minted' = minted + root[u]
          /\ rewards' = [rewards EXCEPT ![u] = @ + root[u]]
      BY <1>5 DEF Claim, MintCredits
    <2>2. PICK gain \in Nat : gain = root[u]
      BY <1>1, ContractConstants
    <2>3. SumFunction(credits') = SumFunction(credits) + gain
      <3>1. PICK n \in Nat : n = credits[u] + gain
        BY <1>1
      <3>2. credits' = [credits EXCEPT ![u] = n]
        BY <2>1, <2>2, <3>1
      <3>3. SumFunction(credits') = SumFunction(credits) + n - credits[u]
        <4>1. credits'[u] = n /\ \A a \in Accounts \ {u} : credits'[a] = credits[a]
          BY <1>1, <3>2
        <4>2. SumFunction(credits') = SumFunction(credits) + credits'[u] - credits[u]
          BY <1>1, <4>1, HeldChanges
        <4>3. QED
          BY <4>1, <4>2
      <3>4. credits[u] \in Nat /\ SumFunction(credits) \in Nat
        BY <1>1, HeldByAccounts
      <3>5. QED
        BY <3>1, <3>3, <3>4
    <2>4. rewards[u] = 0
      BY <1>1, <2>1 DEF LedgerAddsUp
    <2>5. rewards'[u] = root[u] /\ \A a \in Accounts \ {u} : rewards'[a] = rewards[a]
      BY <1>1, <2>1, <2>2, <2>4
    <2>6. \A a \in Accounts : IF a \in claimed' THEN \E r \in Roots : rewards'[a] = r[a]
                              ELSE rewards'[a] = 0
      BY <1>1, <2>1, <2>5 DEF LedgerAddsUp
    <2>7. SumFunction(credits') = minted' - burned'
      BY <1>1, <2>1, <2>2, <2>3, HeldByAccounts DEF LedgerAddsUp
    <2>8. QED
      BY <1>1, <2>1, <2>6, <2>7 DEF LedgerAddsUp
  <1>6. ASSUME NEW u \in Accounts, NEW a \in Amounts, Swap(u, a) PROVE LedgerAddsUp'
    <2>1. UNCHANGED escrow
      BY <1>6, SwapLeaves
    <2>2. PICK amount \in Nat : Minted(u, amount)
      BY <1>1, <1>6, SwapDoes
    <2>3. PICK n \in Nat : n = credits[u] + amount
      BY <1>1
    <2>4. credits' = [credits EXCEPT ![u] = n] /\ minted' = minted + amount /\ burned' = burned
      BY <2>2, <2>3 DEF Minted
    <2>5. SumFunction(credits') = SumFunction(credits) + n - credits[u]
      <3>1. credits'[u] = n /\ \A x \in Accounts \ {u} : credits'[x] = credits[x]
        BY <1>1, <2>4
      <3>2. SumFunction(credits') = SumFunction(credits) + credits'[u] - credits[u]
        BY <1>1, <3>1, HeldChanges
      <3>3. QED
        BY <3>1, <3>2
    <2>6. SumFunction(credits') = minted' - burned'
      <3>1. credits[u] \in Nat /\ SumFunction(credits) \in Nat
        BY <1>1, HeldByAccounts
      <3>2. SumFunction(credits) = minted - burned
        BY <1>1 DEF LedgerAddsUp
      <3>3. SumFunction(credits') = SumFunction(credits) + amount
        BY <2>3, <2>5, <3>1
      <3>4. QED
        BY <1>1, <2>4, <3>1, <3>2, <3>3
    <2>7. QED
      BY <1>1, <2>1, <2>4, <2>6 DEF LedgerAddsUp, escrow
  <1>7. CASE Administer \/ NextBlock \/ DayPasses \/ PollStep \/ UNCHANGED arcadeVars
    <2>1. CASE Administer
      BY <1>1, <1>2, <2>1, AdministerLeaves DEF escrow, ledger
    <2>2. CASE NextBlock \/ DayPasses \/ PollStep \/ UNCHANGED arcadeVars
      <3>1. UNCHANGED <<contracts, escrow>>
        BY <2>2, PollLeaves DEF NextBlock, DayPasses, Chain, contracts, arcadeVars
      <3>2. QED
        BY <1>2, <3>1 DEF contracts, escrow, ledger
    <2>3. QED
      BY <1>7, <2>1, <2>2
  <1>8. QED
    BY <1>3, <1>4, <1>5, <1>6, <1>7, StepKinds DEF EscrowStep

-----------------------------------------------------------------------------
(* The blocks.                                                             *)

LEMMA ToldNext ==
  ASSUME blocks' \in Seq(Counts), NEW from, NEW to, NEW field \in Fields
  PROVE  /\ EventsIn(from, to)'[field] = SumFunctionOnSet(Told(field)', from .. to)
         /\ \A n \in 1 .. Len(blocks') : Told(field)'[n] = blocks'[n][field]
                                         /\ blocks'[n][field] \in Nat
         /\ Len(blocks') \in Nat
  <1>1. /\ Len(blocks') \in Nat /\ DOMAIN blocks' = 1 .. Len(blocks')
        /\ blocks' \in [1 .. Len(blocks') -> Counts]
    BY LenProperties
  <1>2. EventsIn(from, to)'[field] = SumFunctionOnSet(Told(field)', from .. to)
    BY DEF EventsIn, Told
  <1>3. QED
    BY <1>1, <1>2 DEF Told, Counts

LEMMA EventAdds ==
  ASSUME ArcadeTypeOK, EventsCount, NEW fee \in Nat, EventIsRouted(fee),
         NEW n, n = Len(blocks), NEW field \in Fields
  PROVE  EventsIn(1, n)'[field] = EventsIn(1, n)[field] + Event(fee)[field]
  <1>1. blocks \in Seq(Counts) /\ split \in Splits
    BY DEF ArcadeTypeOK, ContractsTypeOK
  <1>2. /\ n \in 1 .. n /\ n \in Nat
        /\ blocks' \in Seq(Counts) /\ Len(blocks') = n
        /\ \A k \in 1 .. n : blocks'[k] = IF k = n THEN Plus(blocks[k], Event(fee)) ELSE blocks[k]
    BY <1>1, BlockHasEvent, BlocksTell
  <1>3. PICK was : was = Told(field)
    OBVIOUS
  <1>4. PICK now : now = Told(field)'
    OBVIOUS
  <1>5. /\ \A k \in 1 .. n : was[k] = blocks[k][field] /\ was[k] \in Int
        /\ \A k \in 1 .. n : was[k] \in Int
    BY <1>1, <1>3, BlocksTell
  <1>6. /\ \A k \in 1 .. n : now[k] = blocks'[k][field]
        /\ \A k \in 1 .. n : now[k] \in Int
    BY <1>2, <1>4, ToldNext
  <1>7. \A k \in (1 .. n) \ {n} : now[k] = was[k]
    BY <1>2, <1>5, <1>6
  <1>8. now[n] = was[n] + Event(fee)[field]
    <2>1. now[n] = Plus(blocks[n], Event(fee))[field]
      BY <1>2, <1>6
    <2>2. blocks[n] \in Counts /\ Event(fee) \in Counts
      BY <1>1, <1>2, BlocksTell, EventTells
    <2>3. QED
      BY <1>2, <1>5, <2>1, <2>2, PlusCounts
  <1>9. Event(fee)[field] \in Int
    <2>1. Event(fee) \in Counts
      BY <1>1, EventTells
    <2>2. Event(fee)[field] \in Nat
      BY <2>1 DEF Counts
    <2>3. QED
      BY <2>2
  <1>10. IsFiniteSet(1 .. n)
    BY <1>2, FS_Interval
  <1>11. SumFunctionOnSet(now, 1 .. n) = SumFunctionOnSet(was, 1 .. n) + now[n] - was[n]
    BY <1>2, <1>5, <1>6, <1>7, <1>10, SumChanges
  <1>12. SumFunctionOnSet(was, 1 .. n) \in Int
    BY <1>5, <1>10, SumIsInt
  <1>13. /\ EventsIn(1, n)'[field] = SumFunctionOnSet(now, 1 .. n)
         /\ EventsIn(1, n)[field] = SumFunctionOnSet(was, 1 .. n)
    BY <1>2, <1>3, <1>4, ToldNext, ToldOf
  <1>14. was[n] \in Int
    BY <1>2, <1>5
  <1>15. QED
    BY <1>8, <1>9, <1>11, <1>12, <1>13, <1>14

LEMMA NextBlockDoes ==
  ASSUME ArcadeTypeOK, NextBlock
  PROVE  /\ blocks' \in Seq(Counts) /\ Len(blocks') = Len(blocks) + 1 /\ Len(blocks) \in Nat
         /\ \A n \in 1 .. Len(blocks) : blocks'[n] = blocks[n]
         /\ blocks'[Len(blocks')] = NoEvents
  <1>1. NoEvents \in Counts
    BY DEF NoEvents, Counts
  <1>2. /\ blocks' = Append(blocks, NoEvents) /\ Len(blocks) \in Nat /\ blocks \in Seq(Counts)
    BY LenProperties DEF NextBlock, ArcadeTypeOK
  <1>3. QED
    BY <1>1, <1>2, AppendProperties

LEMMA NextBlockAdds ==
  ASSUME ArcadeTypeOK, NextBlock, NEW n, n = Len(blocks), NEW field \in Fields
  PROVE  EventsIn(1, n + 1)'[field] = EventsIn(1, n)[field]
  <1>1. blocks \in Seq(Counts)
    BY DEF ArcadeTypeOK
  <1>2. /\ blocks' \in Seq(Counts) /\ n \in Nat /\ Len(blocks') = n + 1
        /\ \A k \in 1 .. n : blocks'[k] = blocks[k]
        /\ blocks'[n + 1] = NoEvents
    BY NextBlockDoes
  <1>3. EventsIn(1, n)'[field] = EventsIn(1, n)[field]
    BY <1>1, <1>2, EventsStay
  <1>4. EventsIn(1, n)[field] \in Nat
    <2>1. 1 \in Nat \ {0} /\ n <= Len(blocks)
      BY <1>2
    <2>2. QED
      BY <1>1, <1>2, <2>1, EventsAreCounts
  <1>5. PICK now : now = Told(field)'
    OBVIOUS
  <1>6. /\ \A k \in 1 .. n + 1 : now[k] \in Int
        /\ now[n + 1] = 0
    <2>1. n + 1 \in 1 .. n + 1
      BY <1>2
    <2>2. QED
      BY <1>2, <1>5, <2>1, ToldNext DEF NoEvents
  <1>7. SumFunctionOnSet(now, 1 .. n + 1)
          = SumFunctionOnSet(now, 1 .. n) + SumFunctionOnSet(now, n + 1 .. n + 1)
    <2>1. n + 1 \in Nat /\ n <= n + 1
      BY <1>2
    <2>2. QED
      BY <1>2, <1>6, <2>1, SumGoesOn
  <1>8. SumFunctionOnSet(now, n + 1 .. n + 1) = 0
    <2>1. IsFiniteSet(n + 1 .. n + 1)
      <3>1. n + 1 \in Int
        BY <1>2
      <3>2. QED
        BY <3>1, FS_Interval
    <2>2. \A k \in n + 1 .. n + 1 : now[k] = 0
      BY <1>2, <1>6
    <2>3. QED
      BY <2>1, <2>2, SumOfZeros
  <1>9. /\ EventsIn(1, n + 1)'[field] = SumFunctionOnSet(now, 1 .. n + 1)
        /\ EventsIn(1, n)'[field] = SumFunctionOnSet(now, 1 .. n)
    BY <1>2, <1>5, ToldNext
  <1>10. QED
    BY <1>3, <1>4, <1>7, <1>8, <1>9

(* What the hook's counters and the events say moves together.             *)
BooksAgree(n) ==
  /\ quote = hook.routed
  /\ EventsIn(1, n)["swaps"] = hook.swaps
  /\ EventsIn(1, n)["jackpot"] = hook.jackpot /\ EventsIn(1, n)["ecosystem"] = hook.ecosystem
  /\ EventsIn(1, n)["treasury"] = hook.routed - hook.jackpot - hook.ecosystem

LEMMA TheRestIsTreasury ==
  ASSUME NEW fee \in Nat, NEW i \in Nat, NEW j \in Nat, NEW k \in Nat, i + j + k = fee,
         NEW a \in Nat, NEW b \in Nat, NEW c \in Nat,
         NEW x, x = a + fee, NEW y, y = b + j, NEW z, z = c + k
  PROVE  (a - b - c) + i = x - y - z
  OBVIOUS

LEMMA BlocksStep ==
  ASSUME ArcadeInv, [ArcadeNext]_arcadeVars
  PROVE  EventsCount' /\ HookBooksAgree'
  <1>1. /\ ArcadeTypeOK /\ EventsCount /\ HookBooksAgree
        /\ blocks \in Seq(Counts) /\ split \in Splits /\ quote \in Nat
        /\ hook \in [swaps : Nat, routed : Nat, jackpot : Nat, ecosystem : Nat]
    BY DEF ArcadeInv, ArcadeTypeOK, ContractsTypeOK
  <1>2. PICK n : n = Len(blocks)
    OBVIOUS
  <1>3. BooksAgree(n) /\ n \in Nat /\ n \in 1 .. n
    <2>1. n \in Nat /\ n > 0
      BY <1>1, <1>2, BlocksTell DEF EventsCount
    <2>2. BooksAgree(n)
      BY <1>1, <1>2 DEF HookBooksAgree, BooksAgree
    <2>3. QED
      BY <2>1, <2>2
  <1>4. ASSUME NEW m, m = Len(blocks'), BooksAgree(m)' PROVE HookBooksAgree'
    <2>1. EventsIn(1, Len(blocks))' = EventsIn(1, m)'
      BY <1>4 DEF EventsIn
    <2>2. QED
      BY <1>4, <2>1 DEF HookBooksAgree, BooksAgree
  <1>5. {"swaps", "treasury", "jackpot", "ecosystem"} \subseteq Fields
    BY DEF Fields
  <1>6. CASE UNCHANGED <<hook, quote, blocks>>
    <2>1. BooksAgree(n)'
      BY <1>3, <1>6 DEF BooksAgree, EventsIn
    <2>2. EventsCount'
      BY <1>1, <1>6 DEF EventsCount
    <2>3. QED
      BY <1>2, <1>4, <1>6, <2>1, <2>2
  <1>7. ASSUME NEW fee \in Nat, EventIsRouted(fee) PROVE EventsCount' /\ HookBooksAgree'
    <2>1. /\ blocks' \in Seq(Counts) /\ Len(blocks') = n
          /\ \A k \in 1 .. n : blocks'[k] = IF k = n THEN Plus(blocks[k], Event(fee)) ELSE blocks[k]
      BY <1>1, <1>2, <1>7, BlockHasEvent
    <2>2. Event(fee) \in Counts /\ Event(fee)["swaps"] = 1
      BY <1>1, EventTells
    <2>3. EventsCount'
      <3>1. ASSUME NEW k \in 1 .. n, blocks'[k]["swaps"] = 0, NEW field \in Fields
            PROVE  blocks'[k][field] = 0
        <4>1. CASE k = n
          <5>1. blocks[k] \in Counts /\ blocks[k]["swaps"] \in Nat
            BY <1>1, <1>2, <1>5, BlocksTell
          <5>2. blocks'[k]["swaps"] = blocks[k]["swaps"] + 1
            BY <1>5, <2>1, <2>2, <4>1, <5>1, PlusCounts
          <5>3. QED
            BY <3>1, <5>1, <5>2
        <4>2. CASE k # n
          BY <1>1, <1>2, <2>1, <3>1, <4>2 DEF EventsCount
        <4>3. QED
          BY <4>1, <4>2
      <3>2. QED
        BY <1>3, <2>1, <3>1 DEF EventsCount
    <2>4. \A field \in Fields : EventsIn(1, n)'[field] = EventsIn(1, n)[field] + Event(fee)[field]
      BY <1>1, <1>2, <1>7, EventAdds
    <2>5. PICK i, j, k \in Nat : /\ i = Route(fee).treasury /\ j = Route(fee).jackpot
                                 /\ k = Route(fee).ecosystem
      BY <1>1, PartsOfFee, Zenon
    <2>5a. i + j + k = fee
      BY <1>1, <2>5, PartsOfFee
    <2>6. /\ Event(fee)["swaps"] = 1 /\ Event(fee)["treasury"] = i
          /\ Event(fee)["jackpot"] = j /\ Event(fee)["ecosystem"] = k
      BY <1>1, <2>5, EventTells
    <2>7. /\ EventsIn(1, n)'["swaps"] = EventsIn(1, n)["swaps"] + 1
          /\ EventsIn(1, n)'["treasury"] = EventsIn(1, n)["treasury"] + i
          /\ EventsIn(1, n)'["jackpot"] = EventsIn(1, n)["jackpot"] + j
          /\ EventsIn(1, n)'["ecosystem"] = EventsIn(1, n)["ecosystem"] + k
      BY <1>5, <2>4, <2>6
    <2>8. /\ hook'.swaps = hook.swaps + 1 /\ hook'.routed = hook.routed + fee
          /\ hook'.jackpot = hook.jackpot + j /\ hook'.ecosystem = hook.ecosystem + k
          /\ quote' = quote + i + j + k
      BY <1>7, <2>5 DEF EventIsRouted
    <2>9. /\ hook.swaps \in Nat /\ hook.routed \in Nat
          /\ hook.jackpot \in Nat /\ hook.ecosystem \in Nat
      BY <1>1
    <2>10. /\ EventsIn(1, n)["swaps"] = hook.swaps /\ quote = hook.routed
           /\ EventsIn(1, n)["jackpot"] = hook.jackpot
           /\ EventsIn(1, n)["ecosystem"] = hook.ecosystem
           /\ EventsIn(1, n)["treasury"] = hook.routed - hook.jackpot - hook.ecosystem
      BY <1>3 DEF BooksAgree
    <2>11. /\ quote' = hook'.routed
           /\ EventsIn(1, n)'["swaps"] = hook'.swaps
           /\ EventsIn(1, n)'["jackpot"] = hook'.jackpot
           /\ EventsIn(1, n)'["ecosystem"] = hook'.ecosystem
           /\ EventsIn(1, n)'["treasury"] = hook'.routed - hook'.jackpot - hook'.ecosystem
      <3>0. quote' = hook'.routed
        <4>1. quote' = hook.routed + i + j + k
          BY <2>8, <2>10
        <4>2. QED
          BY <2>5, <2>5a, <2>8, <2>9, <4>1
      <3>1. /\ quote' = hook'.routed
            /\ EventsIn(1, n)'["swaps"] = hook'.swaps
            /\ EventsIn(1, n)'["jackpot"] = hook'.jackpot
            /\ EventsIn(1, n)'["ecosystem"] = hook'.ecosystem
        BY <2>7, <2>8, <2>10, <3>0
      <3>2. EventsIn(1, n)'["treasury"] = hook'.routed - hook'.jackpot - hook'.ecosystem
        <4>1. EventsIn(1, n)'["treasury"] = hook.routed - hook.jackpot - hook.ecosystem + i
          <5>1. EventsIn(1, n)["treasury"] = hook.routed - hook.jackpot - hook.ecosystem
            BY <2>10
          <5>2. EventsIn(1, n)'["treasury"] = EventsIn(1, n)["treasury"] + i
            BY <2>7
          <5>3. QED
            BY <5>1, <5>2
        <4>2. /\ hook'.routed = hook.routed + fee
              /\ hook'.jackpot = hook.jackpot + j /\ hook'.ecosystem = hook.ecosystem + k
          BY <2>8
        <4>3. QED
          BY <2>5, <2>5a, <2>9, <4>1, <4>2, TheRestIsTreasury
      <3>3. QED
        BY <3>1, <3>2
    <2>12. BooksAgree(n)'
      BY <2>11 DEF BooksAgree
    <2>13. QED
      BY <1>4, <2>1, <2>3, <2>12
  <1>8. CASE NextBlock
    <2>1. /\ blocks' \in Seq(Counts) /\ Len(blocks') = n + 1
          /\ \A k \in 1 .. n : blocks'[k] = blocks[k]
          /\ blocks'[n + 1] = NoEvents
      BY <1>1, <1>2, <1>8, NextBlockDoes
    <2>2. EventsCount'
      <3>1. \A k \in 1 .. n + 1 : k \in 1 .. n \/ k = n + 1
        BY <1>3
      <3>2. \A k \in 1 .. n + 1 : blocks'[k]["swaps"] = 0 =>
              \A field \in Fields : blocks'[k][field] = 0
        BY <1>1, <1>2, <2>1, <3>1 DEF EventsCount, NoEvents
      <3>3. QED
        BY <1>3, <2>1, <3>2 DEF EventsCount
    <2>3. \A field \in Fields : EventsIn(1, n + 1)'[field] = EventsIn(1, n)[field]
      BY <1>1, <1>2, <1>8, NextBlockAdds
    <2>4. UNCHANGED <<quote, hook>>
      BY <1>8 DEF NextBlock, contracts, swapping
    <2>5. PICK m : m = n + 1
      OBVIOUS
    <2>6. BooksAgree(m)'
      BY <1>3, <1>5, <2>3, <2>4, <2>5 DEF BooksAgree
    <2>7. QED
      BY <1>4, <2>1, <2>2, <2>5, <2>6
  <1>9. CASE EscrowStep \/ Administer \/ DayPasses \/ PollStep \/ UNCHANGED arcadeVars
    <2>1. CASE EscrowStep
      BY <1>6, <2>1 DEF EscrowStep, swapping
    <2>2. CASE Administer
      BY <1>1, <1>6, <2>2, AdministerLeaves
    <2>3. CASE DayPasses \/ PollStep \/ UNCHANGED arcadeVars
      <3>1. UNCHANGED <<contracts, blocks>>
        BY <2>3, PollLeaves DEF DayPasses, Chain, arcadeVars
      <3>2. QED
        BY <1>6, <3>1 DEF contracts, swapping
    <2>4. QED
      BY <1>9, <2>1, <2>2, <2>3
  <1>10. ASSUME NEW u \in Accounts, NEW a \in Amounts, Swap(u, a)
         PROVE  EventsCount' /\ HookBooksAgree'
    <2>1. UNCHANGED <<hook, quote, blocks>> \/ \E fee \in Nat : EventIsRouted(fee)
      BY <1>1, <1>10, SwapDoes
    <2>2. QED
      BY <1>6, <1>7, <2>1
  <1>11. QED
    BY <1>8, <1>9, <1>10, StepKinds

-----------------------------------------------------------------------------
(* The indexer.                                                            *)

(* What every step does to the blocks: those before the last one stay.     *)
LEMMA BlocksLast ==
  ASSUME ArcadeInv, [ArcadeNext]_arcadeVars
  PROVE  /\ blocks \in Seq(Counts) /\ blocks' \in Seq(Counts)
         /\ Len(blocks) \in Nat /\ Len(blocks') \in Nat /\ Len(blocks) <= Len(blocks')
         /\ \A n \in 1 .. Len(blocks) - 1 : blocks'[n] = blocks[n]
         /\ \A field \in Fields, n \in {Len(blocks)}, m \in {Len(blocks')} :
              EventsIn(1, n)[field] <= EventsIn(1, m)'[field]
  <1>1. /\ ArcadeTypeOK /\ EventsCount /\ blocks \in Seq(Counts) /\ Len(blocks) \in Nat
        /\ split \in Splits
    BY LenProperties DEF ArcadeInv, ArcadeTypeOK, ContractsTypeOK
  <1>2. PICK n : n = Len(blocks)
    OBVIOUS
  <1>3. \A field \in Fields : EventsIn(1, n)[field] \in Nat
    BY <1>1, <1>2, EventsAreCounts
  <1>4. CASE UNCHANGED blocks
    <2>1. \A field \in Fields : EventsIn(1, n)'[field] = EventsIn(1, n)[field]
      BY <1>4 DEF EventsIn
    <2>2. QED
      BY <1>1, <1>2, <1>3, <1>4, <2>1
  <1>5. ASSUME NEW fee \in Nat, EventIsRouted(fee)
        PROVE  /\ blocks' \in Seq(Counts) /\ Len(blocks') = n
               /\ \A k \in 1 .. n - 1 : blocks'[k] = blocks[k]
               /\ \A field \in Fields : EventsIn(1, n)[field] <= EventsIn(1, n)'[field]
    <2>1. /\ blocks' \in Seq(Counts) /\ Len(blocks') = n
          /\ \A k \in 1 .. n : blocks'[k] = IF k = n THEN Plus(blocks[k], Event(fee)) ELSE blocks[k]
      BY <1>1, <1>2, <1>5, BlockHasEvent
    <2>2. \A k \in 1 .. n - 1 : k \in 1 .. n /\ k # n
      BY <1>1, <1>2
    <2>3. \A field \in Fields : EventsIn(1, n)'[field] = EventsIn(1, n)[field] + Event(fee)[field]
      BY <1>1, <1>2, <1>5, EventAdds
    <2>4. \A field \in Fields : Event(fee)[field] \in Nat
      BY <1>1, EventTells DEF Counts
    <2>5. \A field \in Fields : EventsIn(1, n)[field] <= EventsIn(1, n)'[field]
      BY <1>3, <2>3, <2>4
    <2>6. QED
      BY <2>1, <2>2, <2>5
  <1>6. CASE NextBlock
    <2>1. /\ blocks' \in Seq(Counts) /\ Len(blocks') = n + 1
          /\ \A k \in 1 .. n : blocks'[k] = blocks[k]
      BY <1>1, <1>2, <1>6, NextBlockDoes
    <2>2. \A field \in Fields : EventsIn(1, n + 1)'[field] = EventsIn(1, n)[field]
      BY <1>1, <1>2, <1>6, NextBlockAdds
    <2>3. PICK m : m = n + 1
      OBVIOUS
    <2>4. \A field \in Fields : EventsIn(1, n)[field] <= EventsIn(1, m)'[field]
      BY <1>3, <2>2, <2>3
    <2>5. QED
      BY <1>1, <1>2, <2>1, <2>3, <2>4
  <1>7. ASSUME NEW u \in Accounts, NEW a \in Amounts, Swap(u, a)
        PROVE  UNCHANGED blocks \/ \E fee \in Nat : EventIsRouted(fee)
    BY <1>1, <1>7, SwapDoes
  <1>8. CASE EscrowStep \/ Administer \/ DayPasses \/ PollStep \/ UNCHANGED arcadeVars
    BY <1>4, <1>8, PollLeaves DEF EscrowStep, Administer, DayPasses, Chain, arcadeVars
  <1>9. ASSUME NEW fee \in Nat, EventIsRouted(fee)
        PROVE  /\ blocks' \in Seq(Counts)
               /\ Len(blocks') \in Nat /\ Len(blocks) <= Len(blocks')
               /\ \A k \in 1 .. Len(blocks) - 1 : blocks'[k] = blocks[k]
               /\ \A field \in Fields, i \in {Len(blocks)}, m \in {Len(blocks')} :
                    EventsIn(1, i)[field] <= EventsIn(1, m)'[field]
    BY <1>1, <1>2, <1>5, <1>9
  <1>10. QED
    BY <1>1, <1>4, <1>6, <1>7, <1>8, <1>9, StepKinds

-----------------------------------------------------------------------------
(* The polls: what each step does to those under way.                      *)

(* A step that leaves the poll alone.                                      *)
PollRests == UNCHANGED <<metrics, brought, lastIndexed, poll, restarts, overlaps>>

LEMMA QuietOrPoll ==
  ASSUME [ArcadeNext]_arcadeVars
  PROVE  PollRests \/ (PollStep /\ UNCHANGED <<blocks, today>>)
  <1>1. ASSUME NEW u, NEW a, Swap(u, a) PROVE PollRests
    BY <1>1, SwapLeaves DEF PollRests, indexer
  <1>2. CASE EscrowStep \/ Administer \/ NextBlock \/ DayPasses \/ UNCHANGED arcadeVars
    BY <1>2 DEF EscrowStep, Administer, NextBlock, DayPasses, arcadeVars, indexer, PollRests, Books
  <1>3. CASE PollStep
    BY <1>3, PollLeaves
  <1>4. QED
    BY <1>1, <1>2, <1>3, StepKinds

(* What is known of a poll that is under way.                              *)
LEMMA CallIsTyped ==
  ASSUME NEW call \in PollStates, call.stage # "idle"
  PROVE  /\ call.beside \in BOOLEAN /\ call.from \in Nat /\ call.to \in Nat
         /\ call.stage \in {"read", "write"} => call.found \in Counts
         /\ call.stage = "write" => call.day \in 1 .. MaxDays /\ call.sum \in Counts
         /\ call.stage \in {"fetch", "read", "write", "move"}
  BY DEF PollStates

LEMMA CallOf ==
  ASSUME PollsAreCurrent, blocks \in Seq(Counts), NEW p \in Polls, Polling(p)
  PROVE  /\ poll[p] \in PollStates /\ CallIsCurrent(poll[p]) /\ poll[p].stage # "idle"
         /\ poll[p].beside \in BOOLEAN
         /\ poll[p].from \in Nat \ {0} /\ poll[p].to \in Nat /\ Len(blocks) \in Nat
         /\ poll[p].from <= poll[p].to /\ poll[p].to < Len(blocks)
         /\ DoneTo(poll[p]) \in Nat /\ DoneTo(poll[p]) <= poll[p].to
         /\ poll[p].from <= DoneTo(poll[p]) + 1
  <1>1. PICK call : call = poll[p]
    OBVIOUS
  <1>2. call \in PollStates /\ CallIsCurrent(call) /\ call.stage # "idle" /\ Len(blocks) \in Nat
    BY <1>1, LenProperties DEF PollsAreCurrent, Polling
  <1>3. /\ call.beside \in BOOLEAN /\ call.from \in Nat /\ call.to \in Nat
        /\ 1 <= call.from /\ call.from <= call.to /\ call.to < Len(blocks)
    BY <1>2, CallIsTyped DEF CallIsCurrent
  <1>4. /\ DoneTo(call) \in Nat /\ DoneTo(call) <= call.to /\ call.from <= DoneTo(call) + 1
    BY <1>3 DEF DoneTo
  <1>5. QED
    BY <1>1, <1>2, <1>3, <1>4

LEMMA TwoOverlap ==
  ASSUME PollsAreCurrent, NEW p \in Polls, NEW q \in Polls, p # q, Polling(p), Polling(q)
  PROVE  overlaps > 0
  BY DEF PollsAreCurrent, BeganFirst, Leads, Lags

LEMMA CurrentNext ==
  ASSUME NEW p \in Polls, NEW c, c = poll'[p], CallIsCurrent(c)'
  PROVE  CallIsCurrent(poll[p])'
  BY DEF CallIsCurrent, EventsIn, Plus

(* A step of one poll leaves the others current.                           *)
LEMMA OneCallMoves ==
  ASSUME PollsAreCurrent, UNCHANGED blocks, brought \in [1 .. MaxDays -> Counts],
         brought' \in [1 .. MaxDays -> Counts],
         NEW p \in Polls, NEW c \in PollStates, poll' = [poll EXCEPT ![p] = c],
         lastIndexed' < Len(blocks), CallIsCurrent(c)',
         overlaps' = overlaps \/ overlaps' > 0,
         \A d \in 1 .. MaxDays, field \in Fields : brought[d][field] <= brought'[d][field],
         UNCHANGED metrics \/ Polling(p),
         c.stage # "idle" /\ c.beside => overlaps' > 0,
         \A q \in Polls : Leads(q)' => BeganFirst(q)'
  PROVE  PollsAreCurrent'
  <1>1. poll \in [Polls -> PollStates]
    BY DEF PollsAreCurrent
  <1>2. /\ poll' \in [Polls -> PollStates] /\ poll'[p] = c
        /\ \A q \in Polls \ {p} : poll'[q] = poll[q]
    BY <1>1
  <1>3. ASSUME NEW q \in Polls PROVE CallIsCurrent(poll[q])'
    <2>1. CASE q = p
      BY <1>2, <2>1, CurrentNext
    <2>2. CASE q # p
      <3>1. PICK call \in PollStates : call = poll[q]
        BY <1>1
      <3>2. call = poll'[q] /\ CallIsCurrent(call)
        BY <1>2, <2>2, <3>1 DEF PollsAreCurrent
      <3>3. EventsIn(call.from, call.to)' = EventsIn(call.from, call.to)
        BY DEF EventsIn
      <3>4. ASSUME call.stage = "write", NEW field \in Fields
            PROVE  call.sum[field] <= brought'[call.day][field] + call.found[field]
        <4>1. /\ call.day \in 1 .. MaxDays /\ call.sum \in Counts /\ call.found \in Counts
              /\ call.sum[field] <= brought[call.day][field] + call.found[field]
          BY <3>2, <3>4, CallIsTyped DEF CallIsCurrent
        <4>2. brought[call.day] \in Counts /\ brought'[call.day] \in Counts
          BY <4>1
        <4>3. /\ call.sum[field] \in Nat /\ call.found[field] \in Nat
              /\ brought[call.day][field] \in Nat /\ brought'[call.day][field] \in Nat
          BY <4>1, <4>2 DEF Counts
        <4>4. brought[call.day][field] <= brought'[call.day][field]
          BY <4>1
        <4>5. QED
          BY <4>1, <4>3, <4>4
      <3>5. ASSUME call.stage = "write", overlaps' = 0
            PROVE  call.sum = Plus(metrics[call.day], call.found)'
        <4>1. overlaps = 0
          BY <3>5
        <4>2. ~Polling(p)
          BY <2>2, <3>1, <3>5, <4>1, TwoOverlap DEF Polling
        <4>3. metrics' = metrics
          BY <4>2
        <4>4. call.sum = Plus(metrics[call.day], call.found)
          BY <3>2, <3>5, <4>1 DEF CallIsCurrent
        <4>5. QED
          BY <4>3, <4>4 DEF Plus
      <3>6. CallIsCurrent(call)'
        BY <3>2, <3>3, <3>4, <3>5 DEF CallIsCurrent
      <3>7. QED
        BY <3>2, <3>6, CurrentNext
    <2>3. QED
      BY <2>1, <2>2
  <1>4. ASSUME NEW q \in Polls, Lags(q)' PROVE overlaps' > 0
    <2>1. CASE q = p
      BY <1>2, <1>4, <2>1 DEF Lags, Polling
    <2>2. CASE q # p
      <3>1. Lags(q)
        BY <1>2, <1>4, <2>2 DEF Lags, Polling
      <3>2. overlaps > 0
        BY <3>1 DEF PollsAreCurrent
      <3>3. QED
        BY <3>2
    <2>3. QED
      BY <2>1, <2>2
  <1>5. QED
    BY <1>2, <1>3, <1>4 DEF PollsAreCurrent

(* A poll that goes on, and one that ends, leaves the poll that leads      *)
(* before the others.                                                      *)
LEMMA LeaderGoesOn ==
  ASSUME PollsAreCurrent, NEW p \in Polls, NEW c, poll' = [poll EXCEPT ![p] = c],
         Polling(p), c.stage # "idle", c.beside = poll[p].beside,
         c.from = poll[p].from, c.to = poll[p].to,
         lastIndexed' = lastIndexed, overlaps' = overlaps
  PROVE  \A q \in Polls : Leads(q)' => BeganFirst(q)'
  <1>1. /\ poll'[p] = c /\ \A q \in Polls \ {p} : poll'[q] = poll[q]
    BY DEF PollsAreCurrent
  <1>2. \A q \in Polls : /\ Leads(q)' <=> Leads(q)
                         /\ Polling(q)' <=> Polling(q)
    BY <1>1 DEF Leads, Polling
  <1>3. \A q \in Polls : Polling(q) => poll'[q].from = poll[q].from /\ poll'[q].to = poll[q].to
    BY <1>1
  <1>4. ASSUME NEW q \in Polls, Leads(q)' PROVE BeganFirst(q)'
    <2>1. BeganFirst(q) /\ Polling(q)
      BY <1>2, <1>4 DEF PollsAreCurrent, Leads
    <2>2. QED
      BY <1>2, <1>3, <2>1 DEF BeganFirst
  <1>5. QED
    BY <1>4

LEMMA LeaderStays ==
  ASSUME PollsAreCurrent, blocks \in Seq(Counts), lastIndexed \in Nat,
         NEW p \in Polls, poll' = [poll EXCEPT ![p] = Resting], Polling(p),
         lastIndexed' = lastIndexed \/ lastIndexed' = poll[p].to, overlaps' = overlaps
  PROVE  \A q \in Polls : Leads(q)' => BeganFirst(q)'
  <1>1. /\ poll'[p] = Resting /\ \A q \in Polls \ {p} : poll'[q] = poll[q]
    BY DEF PollsAreCurrent
  <1>2. ~Polling(p)' /\ ~Leads(p)'
    BY <1>1 DEF Leads, Polling, Resting
  <1>3. \A q \in Polls \ {p} : /\ Leads(q)' <=> Leads(q)
                               /\ Polling(q)' <=> Polling(q)
    BY <1>1 DEF Leads, Polling
  <1>4. ASSUME NEW q \in Polls, Leads(q)' PROVE BeganFirst(q)'
    <2>1. q # p
      BY <1>2, <1>4
    <2>2. BeganFirst(q) /\ Polling(q) /\ poll'[q] = poll[q]
      BY <1>1, <1>3, <1>4, <2>1 DEF PollsAreCurrent, Leads
    <2>3. overlaps > 0
      BY <2>1, <2>2, TwoOverlap
    <2>4. poll[q].from \in Nat /\ poll[p].to \in Nat /\ poll[q].from <= poll[p].to
      BY <2>2, CallOf DEF BeganFirst
    <2>5. poll'[q].from <= lastIndexed' + 1
      BY <2>2, <2>4 DEF BeganFirst
    <2>6. \A r \in Polls : Leads(r)' => r = q
      BY <1>2, <1>3, <2>2 DEF BeganFirst
    <2>7. \A r \in Polls : Polling(r)' => poll'[q].from <= poll'[r].to
      BY <1>1, <1>2, <1>3, <2>2 DEF BeganFirst
    <2>8. ~(overlaps' = 0)
      BY <2>3
    <2>9. QED
      BY <2>5, <2>6, <2>7, <2>8 DEF BeganFirst
  <1>5. QED
    BY <1>4

(* A poll that begins.                                                     *)
LEMMA LeaderBegins ==
  ASSUME PollsAreCurrent, blocks \in Seq(Counts), lastIndexed \in Nat,
         NEW p \in Polls, NEW c \in PollStates, poll' = [poll EXCEPT ![p] = c], ~Polling(p),
         NEW cursor \in Nat, lastIndexed' = cursor, lastIndexed <= cursor,
         c.stage = "fetch", c.beside = SomePolling, c.from = cursor + 1, c.from <= c.to,
         overlaps \in Nat, overlaps' = IF SomePolling THEN overlaps + 1 ELSE overlaps
  PROVE  \A q \in Polls : Leads(q)' => BeganFirst(q)'
  <1>1. /\ poll'[p] = c /\ \A q \in Polls \ {p} : poll'[q] = poll[q]
    BY DEF PollsAreCurrent
  <1>2. \A q \in Polls \ {p} : /\ Leads(q)' <=> Leads(q)
                               /\ Polling(q)' <=> Polling(q)
    BY <1>1 DEF Leads, Polling
  <1>3. c.to \in Nat /\ c.from \in Nat
    BY CallIsTyped
  <1>4. CASE ~SomePolling
    <2>1. \A q \in Polls : ~Polling(q)
      BY <1>4 DEF SomePolling
    <2>2. \A q \in Polls : Polling(q)' => q = p
      BY <1>2, <2>1
    <2>3. ASSUME NEW q \in Polls, Leads(q)' PROVE BeganFirst(q)'
      <3>1. q = p
        BY <2>2, <2>3 DEF Leads
      <3>2. poll'[q] = c /\ poll'[q].from = lastIndexed' + 1
        BY <1>1, <3>1
      <3>3. poll'[q].from <= lastIndexed' + 1
        BY <3>2, <1>3
      <3>4. \A r \in Polls : Leads(r)' => r = q
        BY <2>2, <3>1 DEF Leads
      <3>5. \A r \in Polls : Polling(r)' => poll'[q].from <= poll'[r].to
        BY <1>1, <2>2, <3>1
      <3>6. QED
        BY <3>2, <3>3, <3>4, <3>5 DEF BeganFirst
    <2>4. QED
      BY <2>3
  <1>5. CASE SomePolling
    <2>1. ~Leads(p)'
      BY <1>1, <1>5 DEF Leads
    <2>2. ASSUME NEW q \in Polls, Leads(q)' PROVE BeganFirst(q)'
      <3>1. q # p /\ Leads(q) /\ Polling(q)
        BY <1>2, <2>1, <2>2 DEF Leads
      <3>2. BeganFirst(q) /\ poll'[q] = poll[q] /\ poll[q].from \in Nat
        BY <1>1, <3>1, CallOf DEF PollsAreCurrent
      <3>3. poll'[q].from <= lastIndexed' + 1
        BY <3>2 DEF BeganFirst
      <3>4. \A r \in Polls : Leads(r)' => r = q
        BY <1>2, <2>1, <3>2 DEF BeganFirst
      <3>5. poll'[q].from <= c.to
        BY <1>3, <3>2, <3>3
      <3>6. \A r \in Polls : Polling(r)' => poll'[q].from <= poll'[r].to
        BY <1>1, <1>2, <3>2, <3>5 DEF BeganFirst
      <3>7. ~(overlaps' = 0)
        BY <1>5
      <3>8. QED
        BY <3>3, <3>4, <3>6, <3>7 DEF BeganFirst
    <2>3. QED
      BY <2>2
  <1>6. QED
    BY <1>4, <1>5

(* A step that leaves the polls alone.                                     *)
LEMMA QuietKeepsPolls ==
  ASSUME ArcadeInv, [ArcadeNext]_arcadeVars, PollRests
  PROVE  PollsAreCurrent'
  <1>1. /\ PollsAreCurrent /\ poll \in [Polls -> PollStates] /\ blocks \in Seq(Counts)
        /\ Len(blocks) \in Nat /\ lastIndexed < Len(blocks) /\ lastIndexed \in Nat
    <2>1. lastIndexed \in 0 .. MaxBlocks
      BY DEF ArcadeInv, ArcadeTypeOK
    <2>2. lastIndexed \in Nat
      BY <2>1, ArcadeConstantsAreNat
    <2>3. QED
      BY <2>2, LenProperties DEF ArcadeInv, ArcadeTypeOK, PollsAreCurrent
  <1>2. UNCHANGED <<metrics, brought, lastIndexed, poll, restarts, overlaps>>
    BY DEF PollRests
  <1>3. /\ blocks' \in Seq(Counts) /\ Len(blocks') \in Nat /\ Len(blocks) <= Len(blocks')
        /\ \A n \in 1 .. Len(blocks) - 1 : blocks'[n] = blocks[n]
    BY BlocksLast
  <1>4. ASSUME NEW p \in Polls PROVE CallIsCurrent(poll[p])'
    <2>1. PICK call \in PollStates : call = poll[p]
      BY <1>1
    <2>2. call = poll'[p] /\ CallIsCurrent(call)
      BY <1>1, <1>2, <2>1 DEF PollsAreCurrent
    <2>3. CASE call.stage = "idle"
      <3>1. CallIsCurrent(call)'
        BY <2>3 DEF CallIsCurrent
      <3>2. QED
        BY <2>2, <3>1, CurrentNext
    <2>4. CASE call.stage # "idle"
      <3>1. PICK from \in Nat, to \in Nat : from = call.from /\ to = call.to
        BY <2>4, CallIsTyped
      <3>2. 1 <= from /\ from <= to /\ to < Len(blocks)
        BY <2>2, <2>4, <3>1 DEF CallIsCurrent
      <3>3. /\ from \in Nat \ {0} /\ to <= Len(blocks) /\ to <= Len(blocks') /\ to < Len(blocks')
            /\ from .. to \subseteq 1 .. Len(blocks) - 1
        BY <1>1, <1>3, <3>2
      <3>4. \A n \in from .. to : blocks'[n] = blocks[n]
        BY <1>3, <3>3
      <3>5. EventsIn(from, to)' = EventsIn(from, to)
        BY <1>1, <1>3, <3>1, <3>3, <3>4, EventsStay
      <3>6. /\ EventsIn(call.from, call.to)' = EventsIn(call.from, call.to)
            /\ Plus(metrics[call.day], call.found)' = Plus(metrics[call.day], call.found)
        BY <1>2, <3>1, <3>5 DEF Plus
      <3>7. CallIsCurrent(call)'
        BY <1>2, <2>2, <3>1, <3>2, <3>3, <3>6 DEF CallIsCurrent
      <3>8. QED
        BY <2>2, <3>7, CurrentNext
    <2>5. QED
      BY <2>3, <2>4
  <1>5. lastIndexed' < Len(blocks')
    BY <1>1, <1>2, <1>3
  <1>6. \A p \in Polls : Lags(p)' => overlaps' > 0
    BY <1>1, <1>2 DEF PollsAreCurrent, Lags, Polling
  <1>7. \A p \in Polls : Leads(p)' => BeganFirst(p)'
    BY <1>1, <1>2 DEF PollsAreCurrent, Leads, Polling, BeganFirst
  <1>8. QED
    BY <1>1, <1>2, <1>4, <1>5, <1>6, <1>7 DEF PollsAreCurrent

(* What a poll does.                                                       *)
LEMMA PollBegins ==
  ASSUME ArcadeInv, NEW p \in Polls, Poll(p)
  PROVE  /\ ~Polling(p) /\ UNCHANGED <<blocks, metrics, brought, restarts>>
         /\ \E cursor \in Nat :
              /\ lastIndexed' = cursor /\ lastIndexed <= cursor /\ cursor < Len(blocks)
              /\ cursor = lastIndexed \/ ~(DeployBlock > 0)
              /\ \/ UNCHANGED <<poll, overlaps>> /\ cursor = lastIndexed
                 \/ \E c \in PollStates :
                      /\ poll' = [poll EXCEPT ![p] = c]
                      /\ overlaps' = IF SomePolling THEN overlaps + 1 ELSE overlaps
                      /\ c.stage = "fetch" /\ c.beside = SomePolling
                      /\ c.from = cursor + 1 /\ c.from <= c.to /\ c.to < Len(blocks)
  <1>1. /\ blocks \in Seq(Counts) /\ Len(blocks) \in Nat /\ lastIndexed < Len(blocks)
        /\ lastIndexed \in Nat
    <2>1. lastIndexed \in 0 .. MaxBlocks
      BY DEF ArcadeInv, ArcadeTypeOK
    <2>2. lastIndexed \in Nat
      BY <2>1, ArcadeConstantsAreNat
    <2>3. QED
      BY <2>2, LenProperties DEF ArcadeInv, ArcadeTypeOK, PollsAreCurrent
  <1>2. ~Polling(p) /\ UNCHANGED <<blocks, metrics, brought, restarts>>
    BY DEF Poll, Chain, Books
  <1>3. PICK latest \in 1 .. Sees :
          /\ lastIndexed' = IF lastIndexed = 0 THEN Start(latest) ELSE lastIndexed
          /\ IF latest <= lastIndexed' THEN UNCHANGED <<poll, overlaps>>
             ELSE /\ SomePolling => overlaps < MaxOverlaps
                  /\ overlaps' = IF SomePolling THEN overlaps + 1 ELSE overlaps
                  /\ poll' = [poll EXCEPT ![p] = [stage |-> "fetch", beside |-> SomePolling,
                                                  from |-> lastIndexed' + 1, to |-> latest]]
    BY DEF Poll
  <1>4. latest \in Nat \ {0} /\ latest < Len(blocks)
    BY <1>1, <1>3 DEF Sees
  <1>5. /\ Start(latest) \in Nat /\ Start(latest) < Len(blocks)
        /\ DeployBlock > 0 => Start(latest) = 0
        /\ ~(DeployBlock > 0) => Start(latest) < latest
    BY <1>1, <1>4, ArcadeConstantsAreNat DEF Start
  <1>6. PICK cursor \in Nat : cursor = IF lastIndexed = 0 THEN Start(latest) ELSE lastIndexed
    BY <1>1, <1>5
  <1>7. /\ lastIndexed' = cursor /\ lastIndexed <= cursor /\ cursor < Len(blocks)
        /\ cursor = lastIndexed \/ ~(DeployBlock > 0)
        /\ latest <= cursor => cursor = lastIndexed
    BY <1>1, <1>3, <1>4, <1>5, <1>6
  <1>8. CASE ~(latest <= cursor)
    <2> DEFINE c == [stage |-> "fetch", beside |-> SomePolling, from |-> cursor + 1, to |-> latest]
    <2>1. SomePolling \in BOOLEAN
      BY DEF SomePolling
    <2>2. c \in PollStates
      BY <1>4, <2>1 DEF PollStates
    <2>3. /\ poll' = [poll EXCEPT ![p] = c]
          /\ overlaps' = IF SomePolling THEN overlaps + 1 ELSE overlaps
      BY <1>3, <1>7, <1>8
    <2>4. c.stage = "fetch" /\ c.beside = SomePolling /\ c.from = cursor + 1 /\ c.to = latest
      OBVIOUS
    <2>5. c.from <= c.to /\ c.to < Len(blocks)
      BY <1>4, <1>8, <2>4
    <2> HIDE DEF c
    <2>6. QED
      BY <1>2, <1>7, <2>2, <2>3, <2>4, <2>5
  <1>9. QED
    BY <1>2, <1>3, <1>7, <1>8

GoesOn(p, c) ==
  /\ Polling(p) /\ c \in PollStates /\ c.stage # "idle"
  /\ c.beside = poll[p].beside /\ c.from = poll[p].from /\ c.to = poll[p].to
  /\ poll' = [poll EXCEPT ![p] = c]
  /\ UNCHANGED <<blocks, lastIndexed, restarts, overlaps>>

LEMMA PollFetches ==
  ASSUME ArcadeInv, NEW p \in Polls, FetchLogs(p)
  PROVE  \E c : /\ GoesOn(p, c) /\ CallIsCurrent(c)' /\ UNCHANGED <<metrics, brought>>
                /\ DoneTo(poll[p]) = poll[p].from - 1
                /\ \/ DoneTo(c) = poll[p].from - 1
                   \/ /\ DoneTo(c) = poll[p].to
                      /\ EventsIn(poll[p].from, poll[p].to)["swaps"] = 0
  <1>1. blocks \in Seq(Counts) /\ PollsAreCurrent
    BY DEF ArcadeInv, ArcadeTypeOK
  <1>2. Polling(p) /\ poll[p].stage = "fetch"
    BY DEF FetchLogs, Polling
  <1>3. PICK call \in PollStates : call = poll[p]
    BY <1>1, <1>2, CallOf
  <1>4. /\ call.beside \in BOOLEAN /\ call.from \in Nat \ {0} /\ call.to \in Nat
        /\ call.from <= call.to /\ call.to < Len(blocks) /\ Len(blocks) \in Nat
    BY <1>1, <1>2, <1>3, CallOf
  <1>5. PICK found : found = EventsIn(call.from, call.to)
    OBVIOUS
  <1>6. found \in Counts /\ EventsIn(call.from, call.to)' = found
    <2>1. call.to <= Len(blocks)
      BY <1>4
    <2>2. found \in Counts
      BY <1>1, <1>4, <1>5, <2>1, EventsAreCounts
    <2>3. EventsIn(call.from, call.to)' = EventsIn(call.from, call.to)
      BY DEF FetchLogs, Chain, EventsIn
    <2>4. QED
      BY <1>5, <2>2, <2>3
  <1>7. UNCHANGED <<blocks, metrics, brought, lastIndexed, restarts, overlaps>>
    BY DEF FetchLogs, Chain, Books
  <1>8. PICK c : /\ poll' = [poll EXCEPT ![p] = c]
                 /\ c = IF found["swaps"] = 0 THEN Moving(call)
                        ELSE [stage |-> "read", beside |-> call.beside, from |-> call.from,
                              to |-> call.to, found |-> found]
    BY <1>3, <1>5 DEF FetchLogs
  <1>9. /\ c \in PollStates /\ c.beside = call.beside /\ c.from = call.from /\ c.to = call.to
        /\ \/ c.stage = "move" /\ found["swaps"] = 0
           \/ c.stage = "read" /\ c.found = found
    <2>1. CASE found["swaps"] = 0
      BY <1>4, <1>8, <2>1 DEF Moving, PollStates
    <2>2. CASE found["swaps"] # 0
      BY <1>4, <1>6, <1>8, <2>2 DEF PollStates
    <2>3. QED
      BY <2>1, <2>2
  <1>10. CallIsCurrent(c)'
    <2>1. EventsIn(c.from, c.to)' = found
      BY <1>6, <1>9
    <2>2. 1 <= c.from /\ c.from <= c.to /\ c.to < Len(blocks')
      BY <1>4, <1>7, <1>9
    <2>3. QED
      BY <1>9, <2>1, <2>2 DEF CallIsCurrent
  <1>11. GoesOn(p, c)
    BY <1>2, <1>3, <1>7, <1>8, <1>9 DEF GoesOn
  <1>12. DoneTo(call) = call.from - 1
    BY <1>2, <1>3 DEF DoneTo
  <1>13. \/ DoneTo(c) = call.from - 1
         \/ DoneTo(c) = call.to /\ found["swaps"] = 0
    BY <1>9 DEF DoneTo
  <1>14. QED
    BY <1>3, <1>5, <1>7, <1>10, <1>11, <1>12, <1>13

LEMMA PollReads ==
  ASSUME ArcadeInv, NEW p \in Polls, ReadMetrics(p)
  PROVE  \E c : /\ GoesOn(p, c) /\ CallIsCurrent(c)' /\ UNCHANGED <<metrics, brought>>
                /\ DoneTo(c) = DoneTo(poll[p])
  <1>1. /\ blocks \in Seq(Counts) /\ PollsAreCurrent /\ today \in 1 .. MaxDays
        /\ metrics \in [1 .. MaxDays -> Counts] /\ brought \in [1 .. MaxDays -> Counts]
        /\ RowsAreBrought
    BY DEF ArcadeInv, ArcadeTypeOK
  <1>2. Polling(p) /\ poll[p].stage = "read"
    BY DEF ReadMetrics, Polling
  <1>3. PICK call \in PollStates : call = poll[p]
    BY <1>1, <1>2, CallOf
  <1>4. /\ call.beside \in BOOLEAN /\ call.from \in Nat \ {0} /\ call.to \in Nat
        /\ call.from <= call.to /\ call.to < Len(blocks) /\ call.found \in Counts
        /\ call.found = EventsIn(call.from, call.to)
    BY <1>1, <1>2, <1>3, CallOf, CallIsTyped DEF CallIsCurrent
  <1>5. UNCHANGED <<blocks, metrics, brought, lastIndexed, restarts, overlaps>>
    BY DEF ReadMetrics, Chain, Books
  <1>6. PICK sum \in Counts : sum = Plus(metrics[today], call.found)
    BY <1>1, <1>4, PlusCounts
  <1>7. PICK c : /\ poll' = [poll EXCEPT ![p] = c]
                 /\ c = [stage |-> "write", beside |-> call.beside, from |-> call.from,
                         to |-> call.to, found |-> call.found, day |-> today, sum |-> sum]
    BY <1>3, <1>6 DEF ReadMetrics
  <1>8. /\ c \in PollStates /\ c.beside = call.beside /\ c.from = call.from /\ c.to = call.to
        /\ c.stage = "write" /\ c.found = call.found /\ c.day = today /\ c.sum = sum
    BY <1>1, <1>4, <1>6, <1>7 DEF PollStates
  <1>9. ASSUME NEW field \in Fields
        PROVE  sum[field] <= brought[today][field] + call.found[field]
    <2>1. sum[field] = metrics[today][field] + call.found[field]
      BY <1>6 DEF Plus
    <2>2. metrics[today] \in Counts /\ brought[today] \in Counts
      BY <1>1
    <2>3. /\ metrics[today][field] \in Nat /\ brought[today][field] \in Nat
          /\ call.found[field] \in Nat
      BY <1>4, <2>2 DEF Counts
    <2>4. metrics[today][field] <= brought[today][field]
      BY <1>1 DEF RowsAreBrought
    <2>5. QED
      BY <2>1, <2>3, <2>4
  <1>10. CallIsCurrent(c)'
    <2>1. EventsIn(c.from, c.to)' = call.found
      BY <1>4, <1>5, <1>8 DEF EventsIn
    <2>2. 1 <= c.from /\ c.from <= c.to /\ c.to < Len(blocks')
      BY <1>4, <1>5, <1>8
    <2>3. \A field \in Fields : c.sum[field] <= brought'[c.day][field] + c.found[field]
      BY <1>5, <1>8, <1>9
    <2>4. c.sum = Plus(metrics[c.day], c.found)'
      BY <1>5, <1>6, <1>8 DEF Plus
    <2>5. QED
      BY <1>8, <2>1, <2>2, <2>3, <2>4 DEF CallIsCurrent
  <1>11. GoesOn(p, c)
    BY <1>2, <1>3, <1>5, <1>7, <1>8 DEF GoesOn
  <1>12. QED
    BY <1>2, <1>3, <1>5, <1>8, <1>10, <1>11 DEF DoneTo

LEMMA PollWrites ==
  ASSUME ArcadeInv, NEW p \in Polls, WriteMetrics(p)
  PROVE  \E c : /\ GoesOn(p, c) /\ CallIsCurrent(c)'
                /\ DoneTo(poll[p]) = poll[p].from - 1 /\ DoneTo(c) = poll[p].to
                /\ \E day \in 1 .. MaxDays, found \in Counts :
                     /\ found = EventsIn(poll[p].from, poll[p].to)
                     /\ metrics' \in [1 .. MaxDays -> Counts]
                     /\ brought' = [brought EXCEPT ![day] = Plus(brought[day], found)]
                     /\ overlaps = 0 =>
                          metrics' = [metrics EXCEPT ![day] = Plus(metrics[day], found)]
         /\ RowsAreBrought'
  <1>1. /\ blocks \in Seq(Counts) /\ PollsAreCurrent
        /\ metrics \in [1 .. MaxDays -> Counts] /\ brought \in [1 .. MaxDays -> Counts]
        /\ RowsAreBrought
    BY DEF ArcadeInv, ArcadeTypeOK
  <1>2. Polling(p) /\ poll[p].stage = "write"
    BY DEF WriteMetrics, Polling
  <1>3. PICK call \in PollStates : call = poll[p]
    BY <1>1, <1>2, CallOf
  <1>4. /\ call.beside \in BOOLEAN /\ call.from \in Nat \ {0} /\ call.to \in Nat
        /\ call.from <= call.to /\ call.to < Len(blocks)
        /\ call.found \in Counts /\ call.sum \in Counts /\ call.day \in 1 .. MaxDays
        /\ CallIsCurrent(call)
    BY <1>1, <1>2, <1>3, CallOf, CallIsTyped
  <1>5. UNCHANGED <<blocks, lastIndexed, restarts, overlaps>>
    BY DEF WriteMetrics, Chain
  <1>6. PICK day, found : day = call.day /\ found = call.found
    OBVIOUS
  <1>7. /\ metrics' = [metrics EXCEPT ![day] = call.sum]
        /\ brought' = [brought EXCEPT ![day] = Plus(brought[day], found)]
        /\ poll' = [poll EXCEPT ![p] = Moving(call)]
    BY <1>3, <1>6 DEF WriteMetrics
  <1>8. PICK c : c = Moving(call)
    OBVIOUS
  <1>9. /\ c \in PollStates /\ c.beside = call.beside /\ c.from = call.from /\ c.to = call.to
        /\ c.stage = "move"
    BY <1>4, <1>8 DEF Moving, PollStates
  <1>10. CallIsCurrent(c)'
    <2>1. 1 <= c.from /\ c.from <= c.to /\ c.to < Len(blocks')
      BY <1>4, <1>5, <1>9
    <2>2. QED
      BY <1>9, <2>1 DEF CallIsCurrent
  <1>11. GoesOn(p, c)
    BY <1>2, <1>3, <1>5, <1>7, <1>8, <1>9 DEF GoesOn
  <1>12. metrics' \in [1 .. MaxDays -> Counts]
    BY <1>1, <1>4, <1>6, <1>7
  <1>13. found = EventsIn(call.from, call.to)
         /\ (overlaps = 0 => call.sum = Plus(metrics[day], found))
    BY <1>2, <1>3, <1>4, <1>6 DEF CallIsCurrent
  <1>14. ASSUME NEW d \in 1 .. MaxDays, NEW field \in Fields
         PROVE  metrics'[d][field] <= brought'[d][field]
    <2>1. CASE d = day
      <3>1. metrics'[d] = call.sum /\ brought'[d] = Plus(brought[day], found)
        BY <1>1, <1>7, <2>1
      <3>2. brought'[d][field] = brought[day][field] + found[field]
        BY <3>1 DEF Plus
      <3>3. call.sum[field] <= brought[day][field] + found[field]
        BY <1>2, <1>3, <1>4, <1>6 DEF CallIsCurrent
      <3>4. QED
        BY <3>1, <3>2, <3>3
    <2>2. CASE d # day
      <3>1. metrics'[d] = metrics[d] /\ brought'[d] = brought[d]
        BY <1>1, <1>7, <2>2
      <3>2. QED
        BY <1>1, <3>1 DEF RowsAreBrought
    <2>3. QED
      BY <2>1, <2>2
  <1>15. RowsAreBrought'
    BY <1>14 DEF RowsAreBrought
  <1>16. DoneTo(call) = call.from - 1 /\ DoneTo(c) = call.to
    BY <1>2, <1>3, <1>9 DEF DoneTo
  <1>17. /\ day \in 1 .. MaxDays /\ found \in Counts
         /\ overlaps = 0 => metrics' = [metrics EXCEPT ![day] = Plus(metrics[day], found)]
    BY <1>4, <1>6, <1>7, <1>13
  <1>18. QED
    BY <1>3, <1>7, <1>10, <1>11, <1>12, <1>13, <1>15, <1>16, <1>17

LEMMA PollEnds ==
  ASSUME ArcadeInv, NEW p \in Polls, Move(p) \/ PollFails(p)
  PROVE  /\ Polling(p) /\ poll' = [poll EXCEPT ![p] = Resting]
         /\ UNCHANGED <<blocks, metrics, brought, restarts, overlaps>>
         /\ \/ lastIndexed' = poll[p].to /\ DoneTo(poll[p]) = poll[p].to
            \/ lastIndexed' = lastIndexed /\ DoneTo(poll[p]) = poll[p].from - 1
  <1>1. CASE Move(p)
    BY <1>1 DEF Move, Polling, DoneTo, Chain, Books
  <1>2. CASE PollFails(p)
    BY <1>2 DEF PollFails, Polling, DoneTo, Chain, Books
  <1>3. QED
    BY <1>1, <1>2

LEMMA BroughtGrows ==
  ASSUME brought \in [1 .. MaxDays -> Counts], NEW day \in 1 .. MaxDays, NEW found \in Counts,
         brought' = [brought EXCEPT ![day] = Plus(brought[day], found)]
  PROVE  \A d \in 1 .. MaxDays, field \in Fields : brought[d][field] <= brought'[d][field]
  <1>1. ASSUME NEW d \in 1 .. MaxDays, NEW field \in Fields
        PROVE  brought[d][field] <= brought'[d][field]
    <2>1. brought[d] \in Counts /\ found[field] \in Nat
      BY DEF Counts
    <2>2. brought[d][field] \in Nat
      BY <2>1 DEF Counts
    <2>3. brought'[d] = IF d = day THEN Plus(brought[d], found) ELSE brought[d]
      OBVIOUS
    <2>4. brought'[d][field] = brought[d][field] + found[field] \/ brought'[d][field] = brought[d][field]
      BY <2>3 DEF Plus
    <2>5. QED
      BY <2>1, <2>2, <2>4
  <1>2. QED
    BY <1>1

LEMMA PollKept ==
  ASSUME ArcadeInv, [ArcadeNext]_arcadeVars
  PROVE  PollsAreCurrent' /\ RowsAreBrought'
  <1>1. /\ PollsAreCurrent /\ RowsAreBrought /\ blocks \in Seq(Counts)
        /\ brought \in [1 .. MaxDays -> Counts] /\ lastIndexed < Len(blocks)
        /\ poll \in [Polls -> PollStates] /\ lastIndexed \in Nat /\ overlaps \in Nat
    <2>1. lastIndexed \in 0 .. MaxBlocks /\ overlaps \in 0 .. MaxOverlaps
      BY DEF ArcadeInv, ArcadeTypeOK
    <2>2. lastIndexed \in Nat /\ overlaps \in Nat
      BY <2>1, ArcadeConstantsAreNat
    <2>3. QED
      BY <2>2 DEF ArcadeInv, ArcadeTypeOK, PollsAreCurrent
  <1>2. UNCHANGED <<metrics, brought>> => RowsAreBrought'
    BY <1>1 DEF RowsAreBrought
  <1>3. UNCHANGED brought =>
          /\ brought' \in [1 .. MaxDays -> Counts]
          /\ \A d \in 1 .. MaxDays, field \in Fields : brought[d][field] <= brought'[d][field]
    <2>1. ASSUME NEW d \in 1 .. MaxDays, NEW field \in Fields
          PROVE  brought[d][field] <= brought[d][field]
      <3>1. brought[d][field] \in Nat
        BY <1>1 DEF Counts
      <3>2. QED
        BY <3>1
    <2>2. QED
      BY <1>1, <2>1
  <1>4. CASE PollRests
    BY <1>2, <1>4, QuietKeepsPolls DEF PollRests
  <1>5. ASSUME NEW p \in Polls, Poll(p) PROVE PollsAreCurrent' /\ RowsAreBrought'
    <2>1. ~Polling(p) /\ UNCHANGED <<blocks, metrics, brought, restarts>>
      BY <1>5, PollBegins
    <2>2. PICK cursor \in Nat :
            /\ lastIndexed' = cursor /\ lastIndexed <= cursor /\ cursor < Len(blocks)
            /\ \/ UNCHANGED <<poll, overlaps>> /\ cursor = lastIndexed
               \/ \E c \in PollStates :
                    /\ poll' = [poll EXCEPT ![p] = c]
                    /\ overlaps' = IF SomePolling THEN overlaps + 1 ELSE overlaps
                    /\ c.stage = "fetch" /\ c.beside = SomePolling
                    /\ c.from = cursor + 1 /\ c.from <= c.to /\ c.to < Len(blocks)
      BY <1>5, PollBegins
    <2>3. ASSUME NEW c \in PollStates, poll' = [poll EXCEPT ![p] = c],
                 overlaps' = IF SomePolling THEN overlaps + 1 ELSE overlaps,
                 c.stage = "fetch", c.beside = SomePolling,
                 c.from = cursor + 1, c.from <= c.to, c.to < Len(blocks)
          PROVE  PollsAreCurrent'
      <3>1. \A q \in Polls : Leads(q)' => BeganFirst(q)'
        BY <1>1, <2>1, <2>2, <2>3, LeaderBegins
      <3>2. overlaps' = overlaps \/ overlaps' > 0
        BY <1>1, <2>3
      <3>3. c.stage # "idle" /\ c.beside => overlaps' > 0
        BY <1>1, <2>3
      <3>4. CallIsCurrent(c)'
        <4>1. 1 <= c.from /\ c.to < Len(blocks')
          BY <2>1, <2>3
        <4>2. QED
          BY <2>3, <4>1 DEF CallIsCurrent
      <3>5. lastIndexed' < Len(blocks)
        BY <2>2
      <3>6. QED
        BY <1>1, <1>3, <2>1, <2>3, <3>1, <3>2, <3>3, <3>4, <3>5, OneCallMoves
    <2>4. ASSUME UNCHANGED <<poll, overlaps>>, cursor = lastIndexed
          PROVE  PollsAreCurrent'
      <3>1. ASSUME NEW q \in Polls PROVE CallIsCurrent(poll[q])'
        <4>1. PICK call : call = poll[q]
          OBVIOUS
        <4>2. CallIsCurrent(call) /\ call = poll'[q]
          BY <1>1, <2>4, <4>1 DEF PollsAreCurrent
        <4>3. EventsIn(call.from, call.to)' = EventsIn(call.from, call.to)
          BY <2>1 DEF EventsIn
        <4>4. CallIsCurrent(call)'
          BY <2>1, <2>4, <4>2, <4>3 DEF CallIsCurrent, Plus
        <4>5. QED
          BY <4>2, <4>4, CurrentNext
      <3>2. ASSUME NEW q \in Polls, Leads(q)' PROVE BeganFirst(q)'
        <4>1. BeganFirst(q) /\ Polling(q)
          <5>1. Leads(q)
            BY <2>4, <3>2 DEF Leads, Polling
          <5>2. QED
            BY <1>1, <5>1 DEF PollsAreCurrent, Leads
        <4>2. poll[q].from \in Nat \ {0}
          BY <1>1, <4>1, CallOf
        <4>3. poll[q].from <= cursor + 1
          BY <2>4, <4>1 DEF BeganFirst
        <4>4. overlaps = 0 => poll[q].from = cursor + 1
          BY <2>4, <4>1 DEF BeganFirst
        <4>5. QED
          BY <2>2, <2>4, <4>1, <4>3, <4>4 DEF BeganFirst, Leads, Polling
      <3>3. \A q \in Polls : Lags(q)' => overlaps' > 0
        BY <1>1, <2>4 DEF PollsAreCurrent, Lags, Polling
      <3>4. lastIndexed' < Len(blocks') /\ poll' \in [Polls -> PollStates]
        BY <1>1, <2>1, <2>2, <2>4
      <3>5. QED
        BY <3>1, <3>2, <3>3, <3>4 DEF PollsAreCurrent
    <2>5. QED
      BY <1>2, <2>1, <2>2, <2>3, <2>4
  <1>6. ASSUME NEW p \in Polls, NEW c, GoesOn(p, c), CallIsCurrent(c)',
               brought' \in [1 .. MaxDays -> Counts],
               \A d \in 1 .. MaxDays, field \in Fields : brought[d][field] <= brought'[d][field]
        PROVE  PollsAreCurrent'
    <2>1. \A q \in Polls : Leads(q)' => BeganFirst(q)'
      BY <1>1, <1>6, LeaderGoesOn DEF GoesOn
    <2>2. c.stage # "idle" /\ c.beside => overlaps' > 0
      BY <1>1, <1>6 DEF GoesOn, PollsAreCurrent, Lags
    <2>3. QED
      BY <1>1, <1>6, <2>1, <2>2, OneCallMoves DEF GoesOn
  <1>7. ASSUME NEW p \in Polls, FetchLogs(p) \/ ReadMetrics(p)
        PROVE  PollsAreCurrent' /\ RowsAreBrought'
    <2>1. PICK c : GoesOn(p, c) /\ CallIsCurrent(c)' /\ UNCHANGED <<metrics, brought>>
      BY <1>7, PollFetches, PollReads
    <2>2. QED
      BY <1>2, <1>3, <1>6, <2>1
  <1>8. ASSUME NEW p \in Polls, WriteMetrics(p) PROVE PollsAreCurrent' /\ RowsAreBrought'
    <2>1. PICK c : /\ GoesOn(p, c) /\ CallIsCurrent(c)'
                   /\ \E day \in 1 .. MaxDays, found \in Counts :
                        brought' = [brought EXCEPT ![day] = Plus(brought[day], found)]
      BY <1>8, PollWrites
    <2>2. PICK day \in 1 .. MaxDays, found \in Counts :
            brought' = [brought EXCEPT ![day] = Plus(brought[day], found)]
      BY <2>1
    <2>3. brought[day] \in Counts /\ Plus(brought[day], found) \in Counts
      BY <1>1, PlusCounts
    <2>4. brought' \in [1 .. MaxDays -> Counts]
      BY <1>1, <2>2, <2>3
    <2>5. \A d \in 1 .. MaxDays, field \in Fields : brought[d][field] <= brought'[d][field]
      BY <1>1, <2>2, BroughtGrows
    <2>6. PollsAreCurrent'
      BY <1>6, <2>1, <2>4, <2>5
    <2>7. QED
      BY <1>8, <2>6, PollWrites
  <1>9. ASSUME NEW p \in Polls, Move(p) \/ PollFails(p) PROVE PollsAreCurrent' /\ RowsAreBrought'
    <2>1. /\ Polling(p) /\ poll' = [poll EXCEPT ![p] = Resting]
          /\ UNCHANGED <<blocks, metrics, brought, restarts, overlaps>>
          /\ lastIndexed' = lastIndexed \/ lastIndexed' = poll[p].to
      BY <1>9, PollEnds
    <2>2. \A q \in Polls : Leads(q)' => BeganFirst(q)'
      BY <1>1, <2>1, LeaderStays
    <2>3. lastIndexed' < Len(blocks)
      BY <1>1, <2>1, CallOf
    <2>4. Resting \in PollStates /\ Resting.stage = "idle" /\ CallIsCurrent(Resting)'
      BY DEF Resting, PollStates, CallIsCurrent
    <2>5. PollsAreCurrent'
      BY <1>1, <1>3, <2>1, <2>2, <2>3, <2>4, OneCallMoves
    <2>6. QED
      BY <1>2, <2>1, <2>5
  <1>10. CASE Restart
    <2>1. /\ poll' = [p \in Polls |-> Resting] /\ lastIndexed' = 0
          /\ UNCHANGED <<blocks, metrics, brought>>
      BY <1>10 DEF Restart, Chain, Books
    <2>2. Resting \in PollStates /\ Resting.stage = "idle" /\ CallIsCurrent(Resting)'
      BY DEF Resting, PollStates, CallIsCurrent
    <2>3. poll' \in [Polls -> PollStates] /\ \A p \in Polls : poll'[p] = Resting
      BY <2>1, <2>2
    <2>4. \A p \in Polls : CallIsCurrent(poll[p])'
      BY <2>2, <2>3, CurrentNext
    <2>5. \A p \in Polls : ~Lags(p)' /\ ~Leads(p)'
      BY <2>2, <2>3 DEF Lags, Leads, Polling
    <2>6. lastIndexed' < Len(blocks')
      BY <1>1, <2>1, LenProperties
    <2>7. QED
      BY <1>2, <2>1, <2>3, <2>4, <2>5, <2>6 DEF PollsAreCurrent
  <1>11. QED
    BY <1>4, <1>5, <1>7, <1>8, <1>9, <1>10, QuietOrPoll DEF PollStep, PollStepOf

-----------------------------------------------------------------------------
(* What the polls bring to the rows.                                       *)

LEMMA IndexedIsNat ==
  ASSUME NEW rows \in [1 .. MaxDays -> Counts], NEW field \in Fields
  PROVE  /\ SumFunction([d \in 1 .. MaxDays |-> rows[d][field]])
              = SumFunctionOnSet([d \in 1 .. MaxDays |-> rows[d][field]], 1 .. MaxDays)
         /\ SumFunction([d \in 1 .. MaxDays |-> rows[d][field]]) \in Nat
  <1> DEFINE f == [d \in 1 .. MaxDays |-> rows[d][field]]
  <1>1. SumFunction(f) = SumFunctionOnSet(f, 1 .. MaxDays)
    BY DEF SumFunction
  <1>2. \A d \in 1 .. MaxDays : f[d] \in Nat
    BY DEF Counts
  <1>3. IsFiniteSet(1 .. MaxDays)
    BY FS_Interval, ArcadeConstantsAreNat
  <1> HIDE DEF f
  <1>4. SumFunctionOnSet(f, 1 .. MaxDays) \in Nat
    BY <1>2, <1>3, SumIsNat
  <1>5. QED
    BY <1>1, <1>4 DEF f

(* A row that gets more events in it adds them to the sum of the rows.     *)
LEMMA WritingAdds ==
  ASSUME metrics \in [1 .. MaxDays -> Counts], NEW day \in 1 .. MaxDays, NEW more \in Counts,
         metrics' = [metrics EXCEPT ![day] = Plus(metrics[day], more)], NEW field \in Fields
  PROVE  Indexed(field)' = Indexed(field) + more[field]
  <1> DEFINE was == [d \in 1 .. MaxDays |-> metrics[d][field]]
             now == [d \in 1 .. MaxDays |-> metrics'[d][field]]
  <1>1. metrics[day] \in Counts /\ Plus(metrics[day], more) \in Counts
    BY PlusCounts
  <1>2. metrics' \in [1 .. MaxDays -> Counts]
    BY <1>1
  <1>3. /\ Indexed(field) = SumFunctionOnSet(was, 1 .. MaxDays) /\ Indexed(field) \in Nat
        /\ Indexed(field)' = SumFunctionOnSet(now, 1 .. MaxDays)
    <2>1. Indexed(field) = SumFunction(was) /\ Indexed(field)' = SumFunction(now)
      BY DEF Indexed
    <2>2. QED
      BY <1>2, <2>1, IndexedIsNat
  <1>4. /\ \A d \in 1 .. MaxDays : was[d] \in Int
        /\ \A d \in 1 .. MaxDays : now[d] \in Int
        /\ \A d \in (1 .. MaxDays) \ {day} : now[d] = was[d]
    <2>1. ASSUME NEW d \in 1 .. MaxDays PROVE was[d] \in Int /\ now[d] \in Int
      <3>1. metrics[d] \in Counts /\ metrics'[d] \in Counts
        BY <1>2
      <3>2. metrics[d][field] \in Nat /\ metrics'[d][field] \in Nat
        BY <3>1 DEF Counts
      <3>3. QED
        BY <3>2
    <2>2. ASSUME NEW d \in (1 .. MaxDays) \ {day} PROVE now[d] = was[d]
      <3>1. metrics'[d] = metrics[d]
        OBVIOUS
      <3>2. QED
        BY <3>1
    <2>3. QED
      BY <2>1, <2>2
  <1>5. now[day] = was[day] + more[field]
    BY <1>1, PlusCounts
  <1>6. IsFiniteSet(1 .. MaxDays) /\ more[field] \in Nat /\ was[day] \in Int
    BY <1>4, FS_Interval, ArcadeConstantsAreNat DEF Counts
  <1> HIDE DEF was, now
  <1>7. SumFunctionOnSet(now, 1 .. MaxDays)
          = SumFunctionOnSet(was, 1 .. MaxDays) + now[day] - was[day]
    BY <1>4, <1>6, SumChanges
  <1>8. QED
    BY <1>3, <1>5, <1>6, <1>7

LEMMA BroughtIsNat ==
  ASSUME brought \in [1 .. MaxDays -> Counts], NEW field \in Fields
  PROVE  Brought(field) \in Nat
  <1>1. Brought(field) = SumFunction([d \in 1 .. MaxDays |-> brought[d][field]])
    BY IndexedIsNat DEF Brought
  <1>2. QED
    BY <1>1, IndexedIsNat

LEMMA WritingBrings ==
  ASSUME brought \in [1 .. MaxDays -> Counts], NEW day \in 1 .. MaxDays, NEW more \in Counts,
         brought' = [brought EXCEPT ![day] = Plus(brought[day], more)], NEW field \in Fields
  PROVE  Brought(field)' = Brought(field) + more[field]
  <1> DEFINE was == [d \in 1 .. MaxDays |-> brought[d][field]]
             now == [d \in 1 .. MaxDays |-> brought'[d][field]]
  <1>1. brought[day] \in Counts /\ Plus(brought[day], more) \in Counts
    BY PlusCounts
  <1>2. brought' \in [1 .. MaxDays -> Counts]
    BY <1>1
  <1>3. /\ Brought(field) = SumFunctionOnSet(was, 1 .. MaxDays) /\ Brought(field) \in Nat
        /\ Brought(field)' = SumFunctionOnSet(now, 1 .. MaxDays)
    <2>1. Brought(field) = SumFunctionOnSet(was, 1 .. MaxDays)
      BY DEF Brought
    <2>2. Brought(field)' = SumFunctionOnSet(now, 1 .. MaxDays)
      BY DEF Brought
    <2>3. QED
      BY <2>1, <2>2, BroughtIsNat
  <1>4. /\ \A d \in 1 .. MaxDays : was[d] \in Int
        /\ \A d \in 1 .. MaxDays : now[d] \in Int
        /\ \A d \in (1 .. MaxDays) \ {day} : now[d] = was[d]
    <2>1. ASSUME NEW d \in 1 .. MaxDays PROVE was[d] \in Int /\ now[d] \in Int
      <3>1. brought[d] \in Counts /\ brought'[d] \in Counts
        BY <1>2
      <3>2. brought[d][field] \in Nat /\ brought'[d][field] \in Nat
        BY <3>1 DEF Counts
      <3>3. QED
        BY <3>2
    <2>2. ASSUME NEW d \in (1 .. MaxDays) \ {day} PROVE now[d] = was[d]
      <3>1. brought'[d] = brought[d]
        OBVIOUS
      <3>2. QED
        BY <3>1
    <2>3. QED
      BY <2>1, <2>2
  <1>5. now[day] = was[day] + more[field]
    BY <1>1, PlusCounts
  <1>6. IsFiniteSet(1 .. MaxDays) /\ more[field] \in Nat /\ was[day] \in Int
    BY <1>4, FS_Interval, ArcadeConstantsAreNat DEF Counts
  <1> HIDE DEF was, now
  <1>7. SumFunctionOnSet(now, 1 .. MaxDays)
          = SumFunctionOnSet(was, 1 .. MaxDays) + now[day] - was[day]
    BY <1>4, <1>6, SumChanges
  <1>8. QED
    BY <1>3, <1>5, <1>6, <1>7

LEMMA MoreOfAll ==
  ASSUME NEW r \in Nat, NEW a \in Nat, NEW b \in Nat, a <= b
  PROVE  r * a \in Nat /\ r * b \in Nat /\ r * a <= r * b
  OBVIOUS

LEMMA OnceMore ==
  ASSUME NEW r \in Nat, NEW a \in Nat
  PROVE  (r + 1) * a = r * a + a
  OBVIOUS

(* What is told of more blocks is more.                                    *)
LEMMA EventsGrow ==
  ASSUME blocks \in Seq(Counts), NEW i \in Nat, NEW n \in Nat, i <= n, n <= Len(blocks),
         NEW field \in Fields
  PROVE  /\ EventsIn(1, i)[field] \in Nat /\ EventsIn(1, n)[field] \in Nat
         /\ EventsIn(1, i)[field] <= EventsIn(1, n)[field]
  <1>1. Len(blocks) \in Nat
    BY LenProperties
  <1>2. i <= Len(blocks) /\ i + 1 \in Nat \ {0}
    BY <1>1
  <1>3. /\ EventsIn(1, i)[field] \in Nat /\ EventsIn(1, n)[field] \in Nat
        /\ EventsIn(i + 1, n)[field] \in Nat
    BY <1>2, EventsAreCounts
  <1>4. EventsIn(1, n)[field] = EventsIn(1, i)[field] + EventsIn(i + 1, n)[field]
    BY EventsGoOn
  <1>5. QED
    BY <1>3, <1>4

LEMMA ReachedIs ==
  ASSUME PollsAreCurrent, blocks \in Seq(Counts), lastIndexed \in Nat
  PROVE  /\ \A p \in Polls : Leads(p) => Reached = DoneTo(poll[p])
         /\ (\A p \in Polls : ~Leads(p)) => Reached = lastIndexed
         /\ Reached \in Nat /\ Reached < Len(blocks)
         /\ overlaps = 0 => lastIndexed <= Reached
  <1>1. CASE \A p \in Polls : ~Leads(p)
    <2>1. Reached = lastIndexed
      BY <1>1 DEF Reached
    <2>2. QED
      BY <1>1, <2>1 DEF PollsAreCurrent
  <1>2. CASE \E p \in Polls : Leads(p)
    <2>1. PICK first : first = CHOOSE p \in Polls : Leads(p)
      OBVIOUS
    <2>2. first \in Polls /\ Leads(first) /\ BeganFirst(first)
      BY <1>2, <2>1 DEF PollsAreCurrent
    <2>3. Reached = DoneTo(poll[first])
      BY <1>2, <2>1 DEF Reached
    <2>4. \A p \in Polls : Leads(p) => p = first
      BY <2>2 DEF BeganFirst
    <2>5. /\ poll[first].from \in Nat /\ poll[first].to \in Nat /\ poll[first].to < Len(blocks)
          /\ DoneTo(poll[first]) \in Nat /\ DoneTo(poll[first]) <= poll[first].to
          /\ poll[first].from <= DoneTo(poll[first]) + 1 /\ Len(blocks) \in Nat
      BY <2>2, CallOf DEF Leads
    <2>6. Reached \in Nat /\ Reached < Len(blocks)
      BY <2>3, <2>5
    <2>7. overlaps = 0 => lastIndexed <= Reached
      BY <2>2, <2>3, <2>5 DEF BeganFirst
    <2>8. QED
      BY <2>2, <2>3, <2>4, <2>6, <2>7
  <1>3. QED
    BY <1>1, <1>2

LEMMA ReachedNext ==
  ASSUME PollsAreCurrent'
  PROVE  /\ \A p \in Polls : Leads(p)' => Reached' = DoneTo(poll'[p])
         /\ (\A p \in Polls : ~Leads(p)') => Reached' = lastIndexed'
  <1>1. (\A p \in Polls : ~Leads(p)') => Reached' = lastIndexed'
    BY DEF Reached
  <1>2. ASSUME NEW p \in Polls, Leads(p)' PROVE Reached' = DoneTo(poll'[p])
    <2>1. PICK first : first = CHOOSE q \in Polls : Leads(q)'
      OBVIOUS
    <2>2. first \in Polls /\ Leads(first)' /\ BeganFirst(first)'
      BY <1>2, <2>1 DEF PollsAreCurrent
    <2>3. Reached' = DoneTo(poll'[first])
      BY <1>2, <2>1 DEF Reached, DoneTo
    <2>4. p = first
      BY <1>2, <2>2 DEF BeganFirst
    <2>5. QED
      BY <2>3, <2>4
  <1>3. QED
    BY <1>1, <1>2

(* A sum of naturals that are at most so many times others.                *)
LEMMA SumScales ==
  ASSUME NEW f, NEW g, NEW D, IsFiniteSet(D), NEW most \in Nat,
         \A x \in D : f[x] \in Nat, \A x \in D : g[x] \in Nat,
         \A x \in D : g[x] <= f[x] * most
  PROVE  SumFunctionOnSet(g, D) <= SumFunctionOnSet(f, D) * most
  <1> DEFINE Scaled(s) == SumFunctionOnSet(g, s) <= SumFunctionOnSet(f, s) * most
             S == {n \in Nat : \A s \in SUBSET D : Cardinality(s) = n => Scaled(s)}
  <1>1. \A s \in SUBSET D : IsFiniteSet(s)
    BY FS_Subset
  <1>2. 0 \in S
    <2>1. \A s \in SUBSET D : Cardinality(s) = 0 => s = {}
      BY <1>1, FS_EmptySet
    <2>2. SumFunctionOnSet(f, {}) = 0 /\ SumFunctionOnSet(g, {}) = 0
      BY SumEmpty
    <2>3. Scaled({})
      BY <2>2
    <2> HIDE DEF Scaled
    <2>4. QED
      BY <2>1, <2>3
  <1>3. \A n \in S : n + 1 \in S
    <2> HIDE DEF Scaled
    <2> SUFFICES ASSUME NEW n \in S, NEW s \in SUBSET D, Cardinality(s) = n + 1
                 PROVE  Scaled(s)
      OBVIOUS
    <2>0. n \in Nat
      BY Zenon DEF S
    <2> HIDE DEF S
    <2>1. s # {}
      BY <2>0, FS_EmptySet
    <2>2. PICK d \in s : TRUE
      BY <2>1
    <2>3. /\ IsFiniteSet(s) /\ IsFiniteSet(s \ {d}) /\ s \ {d} \in SUBSET D
          /\ Cardinality(s \ {d}) = n
      <3>1. IsFiniteSet(s)
        BY <1>1
      <3>2. IsFiniteSet(s \ {d}) /\ Cardinality(s \ {d}) = Cardinality(s) - 1
        BY <3>1, FS_RemoveElement
      <3>3. QED
        BY <2>0, <3>1, <3>2
    <2>4. Scaled(s \ {d})
      BY <2>3 DEF S
    <2>5. /\ \A x \in D : f[x] \in Int
          /\ \A x \in D : g[x] \in Int
      OBVIOUS
    <2>6. /\ SumFunctionOnSet(f, s) = f[d] + SumFunctionOnSet(f, s \ {d})
          /\ SumFunctionOnSet(g, s) = g[d] + SumFunctionOnSet(g, s \ {d})
      BY <2>3, <2>5, SumTakes
    <2>7. SumFunctionOnSet(f, s \ {d}) \in Nat /\ SumFunctionOnSet(g, s \ {d}) \in Nat
      BY <2>3, SumIsNat
    <2>8. f[d] \in Nat /\ g[d] \in Nat /\ g[d] <= f[d] * most
      OBVIOUS
    <2>9. PICK a \in Nat, b \in Nat, x \in Nat, y \in Nat :
            /\ a = f[d] /\ b = SumFunctionOnSet(f, s \ {d})
            /\ x = g[d] /\ y = SumFunctionOnSet(g, s \ {d})
      BY <2>7, <2>8
    <2>10. x <= a * most /\ y <= b * most
      BY <2>4, <2>8, <2>9 DEF Scaled
    <2>11. (a + b) * most = a * most + b * most /\ a * most \in Nat /\ b * most \in Nat
      OBVIOUS
    <2>12. x + y <= (a + b) * most
      BY <2>10, <2>11
    <2>13. QED
      BY <2>6, <2>9, <2>12 DEF Scaled
  <1> HIDE DEF S, Scaled
  <1>4. S = Nat
    <2>1. S \in SUBSET Nat
      BY DEF S
    <2>2. QED
      BY <1>2, <1>3, <2>1, AllNaturals
  <1>5. Cardinality(D) \in S
    BY <1>4, FS_CardinalityType
  <1>6. Scaled(D)
    BY <1>5 DEF S
  <1>7. QED
    BY <1>6 DEF Scaled

(* The polls that lag, summed up.                                          *)
LEMMA OneWeighs ==
  ASSUME PollsAreCurrent, blocks \in Seq(Counts), NEW p \in Polls, NEW field \in Fields
  PROVE  /\ Mark(poll[p]) \in Nat /\ Weight(poll[p], field) \in Nat
         /\ Weight(poll[p], field) <= Mark(poll[p]) * EventsIn(1, Len(blocks))[field]
         /\ Lags(p) => /\ Mark(poll[p]) = 1
                       /\ Weight(poll[p], field) = EventsIn(1, DoneTo(poll[p]))[field]
         /\ ~Lags(p) => Mark(poll[p]) = 0 /\ Weight(poll[p], field) = 0
  <1>1. Lags(p) <=> Lagging(poll[p])
    BY DEF Lags, Polling, Lagging
  <1>2. Len(blocks) \in Nat
    BY LenProperties
  <1>3. EventsIn(1, Len(blocks))[field] \in Nat
    BY <1>2, EventsGrow
  <1>4. CASE ~Lags(p)
    <2>1. Mark(poll[p]) = 0 /\ Weight(poll[p], field) = 0
      BY <1>1, <1>4 DEF Mark, Weight
    <2>2. QED
      BY <1>3, <1>4, <2>1
  <1>5. CASE Lags(p)
    <2>1. Mark(poll[p]) = 1 /\ Weight(poll[p], field) = EventsIn(1, DoneTo(poll[p]))[field]
      BY <1>1, <1>5 DEF Mark, Weight
    <2>2. DoneTo(poll[p]) \in Nat /\ DoneTo(poll[p]) <= Len(blocks)
      BY <1>2, <1>5, CallOf DEF Lags
    <2>3. /\ EventsIn(1, DoneTo(poll[p]))[field] \in Nat
          /\ EventsIn(1, DoneTo(poll[p]))[field] <= EventsIn(1, Len(blocks))[field]
      BY <1>2, <2>2, EventsGrow
    <2>4. QED
      BY <1>3, <1>5, <2>1, <2>3
  <1>6. QED
    BY <1>4, <1>5

LEMMA SumsAre ==
  ASSUME PollsAreCurrent, blocks \in Seq(Counts), NEW field \in Fields
  PROVE  /\ Laggards \in Nat /\ AllBehind(field) \in Nat
         /\ AllBehind(field) <= Laggards * EventsIn(1, Len(blocks))[field]
         /\ (\A p \in Polls : ~Lags(p)) => Laggards = 0 /\ AllBehind(field) = 0
  <1>1. PICK most \in Nat : most = EventsIn(1, Len(blocks))[field]
    <2>1. Len(blocks) \in Nat
      BY LenProperties
    <2>2. QED
      BY <2>1, EventsGrow
  <1>2. PICK f, g : f = Marks /\ g = Weights(field)
    OBVIOUS
  <1>3. /\ \A p \in Polls : f[p] = Mark(poll[p])
        /\ \A p \in Polls : g[p] = Weight(poll[p], field)
    BY <1>2 DEF Marks, Weights
  <1>4. /\ \A p \in Polls : f[p] \in Nat
        /\ \A p \in Polls : g[p] \in Nat
        /\ \A p \in Polls : g[p] <= f[p] * most
    BY <1>1, <1>3, OneWeighs
  <1>5. IsFiniteSet(Polls)
    BY ArcadeConstants
  <1>6. Laggards = SumFunctionOnSet(f, Polls) /\ AllBehind(field) = SumFunctionOnSet(g, Polls)
    BY <1>2 DEF Laggards, AllBehind
  <1>7. SumFunctionOnSet(f, Polls) \in Nat /\ SumFunctionOnSet(g, Polls) \in Nat
    BY <1>4, <1>5, SumIsNat
  <1>8. SumFunctionOnSet(g, Polls) <= SumFunctionOnSet(f, Polls) * most
    BY <1>4, <1>5, SumScales
  <1>9. ASSUME \A p \in Polls : ~Lags(p)
        PROVE  SumFunctionOnSet(f, Polls) = 0 /\ SumFunctionOnSet(g, Polls) = 0
    <2>1. /\ \A p \in Polls : f[p] = 0
          /\ \A p \in Polls : g[p] = 0
      BY <1>3, <1>9, OneWeighs
    <2>2. QED
      BY <1>5, <2>1, SumOfZeros
  <1>10. QED
    BY <1>1, <1>6, <1>7, <1>8, <1>9

LEMMA SumsNext ==
  ASSUME PollsAreCurrent, blocks \in Seq(Counts), UNCHANGED blocks, NEW field \in Fields
  PROVE  /\ Laggards' = SumFunctionOnSet([p \in Polls |-> Mark(poll'[p])], Polls)
         /\ AllBehind(field)' = SumFunctionOnSet([p \in Polls |-> Weight(poll'[p], field)], Polls)
  <1>1. Laggards' = SumFunctionOnSet([p \in Polls |-> Mark(poll'[p])], Polls)
    BY DEF Laggards, Marks, Mark, Lagging
  <1>2. AllBehind(field)' = SumFunctionOnSet([p \in Polls |-> Weight(poll'[p], field)], Polls)
    BY DEF AllBehind, Weights, Weight, Lagging, DoneTo, EventsIn
  <1>3. QED
    BY <1>1, <1>2

(* A step of one poll changes its part of the sums.                        *)
LEMMA OneWeightChanges ==
  ASSUME PollsAreCurrent, blocks \in Seq(Counts), UNCHANGED blocks, NEW p \in Polls, NEW c,
         poll' = [poll EXCEPT ![p] = c], NEW field \in Fields,
         Mark(c) \in Nat, Weight(c, field) \in Nat
  PROVE  /\ Laggards' = Laggards + Mark(c) - Mark(poll[p])
         /\ AllBehind(field)' = AllBehind(field) + Weight(c, field) - Weight(poll[p], field)
  <1>1. poll'[p] = c /\ \A q \in Polls \ {p} : poll'[q] = poll[q]
    BY DEF PollsAreCurrent
  <1>2. PICK f, g, fn, gn : /\ f = Marks /\ g = Weights(field)
                            /\ fn = [q \in Polls |-> Mark(poll'[q])]
                            /\ gn = [q \in Polls |-> Weight(poll'[q], field)]
    OBVIOUS
  <1>3. /\ \A q \in Polls : f[q] = Mark(poll[q])
        /\ \A q \in Polls : g[q] = Weight(poll[q], field)
    BY <1>2 DEF Marks, Weights
  <1>4. /\ \A q \in Polls : f[q] \in Int
        /\ \A q \in Polls : g[q] \in Int
    BY <1>3, OneWeighs
  <1>5. fn[p] = Mark(c) /\ gn[p] = Weight(c, field)
    BY <1>1, <1>2
  <1>6. /\ \A q \in Polls \ {p} : fn[q] = f[q]
        /\ \A q \in Polls \ {p} : gn[q] = g[q]
    BY <1>1, <1>2, <1>3
  <1>7. /\ \A q \in Polls : fn[q] \in Int
        /\ \A q \in Polls : gn[q] \in Int
    BY <1>4, <1>5, <1>6
  <1>8. IsFiniteSet(Polls)
    BY ArcadeConstants
  <1>9. /\ SumFunctionOnSet(fn, Polls) = SumFunctionOnSet(f, Polls) + fn[p] - f[p]
        /\ SumFunctionOnSet(gn, Polls) = SumFunctionOnSet(g, Polls) + gn[p] - g[p]
    BY <1>4, <1>6, <1>7, <1>8, SumChanges
  <1>10. /\ Laggards = SumFunctionOnSet(f, Polls) /\ AllBehind(field) = SumFunctionOnSet(g, Polls)
         /\ Laggards' = SumFunctionOnSet(fn, Polls)
         /\ AllBehind(field)' = SumFunctionOnSet(gn, Polls)
    BY <1>2, SumsNext DEF Laggards, AllBehind
  <1>11. QED
    BY <1>3, <1>5, <1>9, <1>10

LEMMA ArcadeFacts ==
  ASSUME ArcadeInv
  PROVE  /\ blocks \in Seq(Counts) /\ Len(blocks) \in Nat /\ PollsAreCurrent
         /\ lastIndexed \in Nat /\ lastIndexed < Len(blocks)
         /\ overlaps \in Nat /\ restarts \in Nat
         /\ metrics \in [1 .. MaxDays -> Counts] /\ brought \in [1 .. MaxDays -> Counts]
         /\ Reached \in Nat /\ Reached < Len(blocks)
         /\ Laggards \in Nat /\ Laggards <= overlaps
         /\ \A field \in Fields :
              /\ Brought(field) \in Nat /\ AllBehind(field) \in Nat
              /\ EventsIn(1, Reached)[field] \in Nat /\ EventsIn(1, Len(blocks))[field] \in Nat
              /\ EventsIn(1, Reached)[field] <= EventsIn(1, Len(blocks))[field]
              /\ AllBehind(field) <= Laggards * EventsIn(1, Len(blocks))[field]
  <1>1. /\ blocks \in Seq(Counts) /\ PollsAreCurrent /\ lastIndexed < Len(blocks)
        /\ metrics \in [1 .. MaxDays -> Counts] /\ brought \in [1 .. MaxDays -> Counts]
        /\ Laggards <= overlaps
    BY DEF ArcadeInv, ArcadeTypeOK, PollsAreCurrent, BroughtBounded
  <1>2. lastIndexed \in Nat /\ overlaps \in Nat /\ restarts \in Nat
    <2>1. /\ lastIndexed \in 0 .. MaxBlocks /\ overlaps \in 0 .. MaxOverlaps
          /\ restarts \in 0 .. MaxRestarts
      BY DEF ArcadeInv, ArcadeTypeOK
    <2>2. QED
      BY <2>1, ArcadeConstantsAreNat
  <1>3. Len(blocks) \in Nat
    BY <1>1, LenProperties
  <1>4. Reached \in Nat /\ Reached < Len(blocks)
    BY <1>1, <1>2, ReachedIs
  <1>5. Laggards \in Nat
    <2>1. "swaps" \in Fields
      BY DEF Fields
    <2>2. QED
      BY <1>1, <2>1, SumsAre
  <1>6. ASSUME NEW field \in Fields
        PROVE  /\ Brought(field) \in Nat /\ AllBehind(field) \in Nat
               /\ EventsIn(1, Reached)[field] \in Nat /\ EventsIn(1, Len(blocks))[field] \in Nat
               /\ EventsIn(1, Reached)[field] <= EventsIn(1, Len(blocks))[field]
               /\ AllBehind(field) <= Laggards * EventsIn(1, Len(blocks))[field]
    <2>1. Brought(field) \in Nat
      BY <1>1, BroughtIsNat
    <2>2. /\ AllBehind(field) \in Nat
          /\ AllBehind(field) <= Laggards * EventsIn(1, Len(blocks))[field]
      BY <1>1, SumsAre
    <2>3. Reached <= Len(blocks) /\ Len(blocks) <= Len(blocks)
      BY <1>3, <1>4
    <2>4. /\ EventsIn(1, Reached)[field] \in Nat /\ EventsIn(1, Len(blocks))[field] \in Nat
          /\ EventsIn(1, Reached)[field] <= EventsIn(1, Len(blocks))[field]
      BY <1>1, <1>3, <1>4, <2>3, EventsGrow
    <2>5. QED
      BY <2>1, <2>2, <2>4
  <1>7. QED
    BY <1>1, <1>2, <1>3, <1>4, <1>5, <1>6

(* Where the cursor is going stays the same when a poll that does not lead *)
(* goes on, begins or ends beside the one that leads.                      *)
LEMMA ReachedStays ==
  ASSUME PollsAreCurrent, PollsAreCurrent', blocks \in Seq(Counts), lastIndexed \in Nat,
         NEW p \in Polls, NEW c, poll' = [poll EXCEPT ![p] = c], ~Leads(p),
         c.stage = "idle" \/ c.beside
  PROVE  /\ (\E q \in Polls : Leads(q)) => Reached' = Reached
         /\ (\A q \in Polls : ~Leads(q)) => Reached = lastIndexed /\ Reached' = lastIndexed'
  <1>1. poll'[p] = c /\ \A q \in Polls \ {p} : poll'[q] = poll[q]
    BY DEF PollsAreCurrent
  <1>2. \A q \in Polls : Leads(q)' <=> Leads(q)
    BY <1>1 DEF Leads, Polling
  <1>3. ASSUME NEW q \in Polls, Leads(q) PROVE Reached' = Reached
    <2>1. Reached = DoneTo(poll[q])
      BY <1>3, ReachedIs
    <2>2. Reached' = DoneTo(poll'[q])
      BY <1>2, <1>3, ReachedNext
    <2>3. poll'[q] = poll[q]
      BY <1>1, <1>3
    <2>4. QED
      BY <2>1, <2>2, <2>3
  <1>4. ASSUME \A q \in Polls : ~Leads(q)
        PROVE  Reached = lastIndexed /\ Reached' = lastIndexed'
    BY <1>2, <1>4, ReachedIs, ReachedNext
  <1>5. QED
    BY <1>3, <1>4

(* What a step of a poll, which counts so many overlaps as ended, brings   *)
(* is in what the polls have no more to bring.                             *)
StaysBounded(lost) ==
  /\ UNCHANGED <<blocks, restarts>>
  /\ Laggards' <= overlaps' /\ overlaps' - Laggards' = overlaps - Laggards + lost
  /\ \A field \in Fields :
       /\ AllBehind(field)' \in Int /\ EventsIn(1, Reached')[field] \in Nat
       /\ Brought(field)' + AllBehind(field) + EventsIn(1, Reached)[field]
            <= Brought(field) + AllBehind(field)' + EventsIn(1, Reached')[field]
                 + lost * EventsIn(1, Len(blocks))[field]

LEMMA GoingOnIsBounded ==
  ASSUME ArcadeInv, PollsAreCurrent', NEW p \in Polls, NEW c, GoesOn(p, c),
         DoneTo(c) \in Nat, DoneTo(c) <= Len(blocks),
         \A field \in Fields : Brought(field)' = Brought(field)
                                 + EventsIn(1, DoneTo(c))[field] - EventsIn(1, DoneTo(poll[p]))[field]
  PROVE  StaysBounded(0)
  <1>1. /\ blocks \in Seq(Counts) /\ Len(blocks) \in Nat /\ PollsAreCurrent
        /\ lastIndexed \in Nat /\ overlaps \in Nat /\ Reached \in Nat
        /\ Laggards \in Nat /\ Laggards <= overlaps
    BY ArcadeFacts
  <1>2. /\ Polling(p) /\ c \in PollStates /\ c.stage # "idle"
        /\ c.beside = poll[p].beside /\ poll' = [poll EXCEPT ![p] = c]
        /\ UNCHANGED <<blocks, lastIndexed, restarts, overlaps>>
    BY DEF GoesOn
  <1>3. poll'[p] = c
    BY <1>1, <1>2 DEF PollsAreCurrent
  <1>4. PICK d, e : d = DoneTo(poll[p]) /\ e = DoneTo(c)
    OBVIOUS
  <1>5. d \in Nat /\ d <= Len(blocks) /\ e \in Nat /\ e <= Len(blocks)
    <2>1. d \in Nat /\ d <= poll[p].to /\ poll[p].to < Len(blocks) /\ poll[p].to \in Nat
      BY <1>1, <1>2, <1>4, CallOf
    <2>2. QED
      BY <1>1, <1>4, <2>1
  <1>6. ASSUME NEW field \in Fields
        PROVE  /\ EventsIn(1, d)[field] \in Nat /\ EventsIn(1, e)[field] \in Nat
               /\ Brought(field)' = Brought(field) + EventsIn(1, e)[field] - EventsIn(1, d)[field]
               /\ Brought(field) \in Nat /\ AllBehind(field) \in Nat
               /\ EventsIn(1, Reached)[field] \in Nat /\ EventsIn(1, Len(blocks))[field] \in Nat
    <2>1. EventsIn(1, d)[field] \in Nat /\ EventsIn(1, e)[field] \in Nat
      BY <1>1, <1>5, EventsGrow
    <2>2. /\ Brought(field) \in Nat /\ AllBehind(field) \in Nat
          /\ EventsIn(1, Reached)[field] \in Nat /\ EventsIn(1, Len(blocks))[field] \in Nat
      BY ArcadeFacts
    <2>3. QED
      BY <1>4, <2>1, <2>2
  <1>7. CASE ~poll[p].beside
    <2>1. Leads(p) /\ ~Lags(p) /\ Leads(p)'
      BY <1>2, <1>3, <1>7 DEF Leads, Lags, Polling
    <2>2. Reached = d /\ Reached' = e
      BY <1>1, <1>3, <1>4, <2>1, ReachedIs, ReachedNext
    <2>3. ASSUME NEW field \in Fields
          PROVE  /\ Laggards' = Laggards /\ AllBehind(field)' = AllBehind(field)
                 /\ AllBehind(field)' \in Int /\ EventsIn(1, Reached')[field] \in Nat
                 /\ Brought(field)' + AllBehind(field) + EventsIn(1, Reached)[field]
                      <= Brought(field) + AllBehind(field)' + EventsIn(1, Reached')[field]
                           + 0 * EventsIn(1, Len(blocks))[field]
      <3>1. Mark(poll[p]) = 0 /\ Weight(poll[p], field) = 0
        BY <1>1, <2>1, OneWeighs
      <3>2. Mark(c) = 0 /\ Weight(c, field) = 0
        BY <1>2, <1>7 DEF Mark, Weight, Lagging
      <3>3. Mark(c) \in Nat /\ Weight(c, field) \in Nat
        BY <3>2
      <3>4. /\ Laggards' = Laggards + Mark(c) - Mark(poll[p])
            /\ AllBehind(field)' = AllBehind(field) + Weight(c, field) - Weight(poll[p], field)
        BY <1>1, <1>2, <3>3, OneWeightChanges
      <3>5. Laggards' = Laggards + 0 - 0 /\ AllBehind(field)' = AllBehind(field) + 0 - 0
        BY <3>1, <3>2, <3>4
      <3>6. QED
        BY <1>1, <1>6, <2>2, <3>5
    <2>4. Laggards' = Laggards
      BY <2>3 DEF Fields
    <2>5. QED
      BY <1>1, <1>2, <2>3, <2>4 DEF StaysBounded
  <1>8. CASE poll[p].beside
    <2>1. ~Leads(p) /\ Lags(p)
      BY <1>2, <1>8 DEF Leads, Lags
    <2>2. Reached' = Reached
      BY <1>1, <1>2, <1>8, <2>1, ReachedStays
    <2>3. ASSUME NEW field \in Fields
          PROVE  /\ Laggards' = Laggards
                 /\ AllBehind(field)' \in Int /\ EventsIn(1, Reached')[field] \in Nat
                 /\ Brought(field)' + AllBehind(field) + EventsIn(1, Reached)[field]
                      <= Brought(field) + AllBehind(field)' + EventsIn(1, Reached')[field]
                           + 0 * EventsIn(1, Len(blocks))[field]
      <3>1. Mark(poll[p]) = 1 /\ Weight(poll[p], field) = EventsIn(1, d)[field]
        BY <1>1, <1>4, <2>1, OneWeighs
      <3>2. Mark(c) = 1 /\ Weight(c, field) = EventsIn(1, e)[field]
        BY <1>2, <1>4, <1>8 DEF Mark, Weight, Lagging
      <3>3. Mark(c) \in Nat /\ Weight(c, field) \in Nat
        BY <1>6, <3>2
      <3>4. /\ Laggards' = Laggards + Mark(c) - Mark(poll[p])
            /\ AllBehind(field)' = AllBehind(field) + Weight(c, field) - Weight(poll[p], field)
        BY <1>1, <1>2, <3>3, OneWeightChanges
      <3>5. /\ Laggards' = Laggards + 1 - 1
            /\ AllBehind(field)' = AllBehind(field) + EventsIn(1, e)[field] - EventsIn(1, d)[field]
        BY <3>1, <3>2, <3>4
      <3>6. QED
        BY <1>1, <1>6, <2>2, <3>5
    <2>4. Laggards' = Laggards
      BY <2>3 DEF Fields
    <2>5. QED
      BY <1>1, <1>2, <2>3, <2>4 DEF StaysBounded
  <1>9. QED
    BY <1>2, <1>7, <1>8, CallOf, <1>1

LEMMA BeginningIsBounded ==
  ASSUME ArcadeInv, PollsAreCurrent', NEW p \in Polls, Poll(p)
  PROVE  StaysBounded(0)
  <1>1. /\ blocks \in Seq(Counts) /\ Len(blocks) \in Nat /\ PollsAreCurrent
        /\ lastIndexed \in Nat /\ lastIndexed < Len(blocks)
        /\ overlaps \in Nat /\ Reached \in Nat
        /\ Laggards \in Nat /\ Laggards <= overlaps
    BY ArcadeFacts
  <1>2. ~Polling(p) /\ UNCHANGED <<blocks, metrics, brought, restarts>>
    BY PollBegins
  <1>3. PICK cursor \in Nat :
          /\ lastIndexed' = cursor /\ lastIndexed <= cursor /\ cursor < Len(blocks)
          /\ \/ UNCHANGED <<poll, overlaps>> /\ cursor = lastIndexed
             \/ \E c \in PollStates :
                  /\ poll' = [poll EXCEPT ![p] = c]
                  /\ overlaps' = IF SomePolling THEN overlaps + 1 ELSE overlaps
                  /\ c.stage = "fetch" /\ c.beside = SomePolling
                  /\ c.from = cursor + 1 /\ c.from <= c.to /\ c.to < Len(blocks)
    BY PollBegins
  <1>4. ~Leads(p) /\ ~Lags(p)
    BY <1>2 DEF Leads, Lags
  <1>5. ASSUME NEW field \in Fields
        PROVE  /\ Brought(field)' = Brought(field)
               /\ Brought(field) \in Nat /\ AllBehind(field) \in Nat
               /\ EventsIn(1, lastIndexed)[field] \in Nat /\ EventsIn(1, cursor)[field] \in Nat
               /\ EventsIn(1, lastIndexed)[field] <= EventsIn(1, cursor)[field]
               /\ EventsIn(1, Reached)[field] \in Nat /\ EventsIn(1, Len(blocks))[field] \in Nat
               /\ Mark(poll[p]) = 0 /\ Weight(poll[p], field) = 0
    <2>1. Brought(field)' = Brought(field)
      BY <1>2 DEF Brought
    <2>2. cursor <= Len(blocks)
      BY <1>1, <1>3
    <2>3. /\ EventsIn(1, lastIndexed)[field] \in Nat /\ EventsIn(1, cursor)[field] \in Nat
          /\ EventsIn(1, lastIndexed)[field] <= EventsIn(1, cursor)[field]
      BY <1>1, <1>3, <2>2, EventsGrow
    <2>4. Mark(poll[p]) = 0 /\ Weight(poll[p], field) = 0
      BY <1>1, <1>4, OneWeighs
    <2>5. QED
      BY <2>1, <2>3, <2>4, ArcadeFacts
  <1>6. ASSUME UNCHANGED <<poll, overlaps>>, cursor = lastIndexed
        PROVE  StaysBounded(0)
    <2>1. Laggards' = Laggards
      BY <1>6 DEF Laggards, Marks, Mark, Lagging
    <2>2. \A field \in Fields : AllBehind(field)' = AllBehind(field)
      BY <1>2, <1>6 DEF AllBehind, Weights, Weight, Lagging, DoneTo, EventsIn
    <2>3. Reached' = Reached
      BY <1>3, <1>6 DEF Reached, Leads, Polling, DoneTo
    <2>4. QED
      BY <1>1, <1>2, <1>5, <1>6, <2>1, <2>2, <2>3 DEF StaysBounded
  <1>7. ASSUME NEW c \in PollStates, poll' = [poll EXCEPT ![p] = c],
               overlaps' = IF SomePolling THEN overlaps + 1 ELSE overlaps,
               c.stage = "fetch", c.beside = SomePolling, c.from = cursor + 1
        PROVE  StaysBounded(0)
    <2>1. DoneTo(c) = cursor
      BY <1>7 DEF DoneTo
    <2>2. poll'[p] = c
      BY <1>1, <1>7 DEF PollsAreCurrent
    <2>3. CASE ~SomePolling
      <3>1. \A q \in Polls : ~Leads(q)
        BY <2>3 DEF SomePolling, Leads
      <3>2. Reached = lastIndexed
        BY <1>1, <3>1, ReachedIs
      <3>3. Leads(p)'
        BY <1>7, <2>2, <2>3 DEF Leads, Polling
      <3>4. Reached' = cursor
        BY <2>1, <2>2, <3>3, ReachedNext
      <3>5. ASSUME NEW field \in Fields
            PROVE  Laggards' = Laggards /\ AllBehind(field)' = AllBehind(field)
        <4>1. Mark(c) = 0 /\ Weight(c, field) = 0
          BY <1>7, <2>3 DEF Mark, Weight, Lagging
        <4>2. Mark(c) \in Nat /\ Weight(c, field) \in Nat
          BY <4>1
        <4>3. /\ Laggards' = Laggards + Mark(c) - Mark(poll[p])
              /\ AllBehind(field)' = AllBehind(field) + Weight(c, field) - Weight(poll[p], field)
          BY <1>1, <1>2, <1>7, <4>2, OneWeightChanges
        <4>4. Laggards' = Laggards + 0 - 0 /\ AllBehind(field)' = AllBehind(field) + 0 - 0
          BY <1>5, <4>1, <4>3
        <4>5. QED
          BY <1>1, <1>5, <4>4
      <3>6. Laggards' = Laggards
        BY <3>5 DEF Fields
      <3>7. overlaps' = overlaps
        BY <1>7, <2>3
      <3>8. QED
        BY <1>1, <1>2, <1>5, <3>2, <3>4, <3>5, <3>6, <3>7 DEF StaysBounded
    <2>4. CASE SomePolling
      <3>1. c.beside
        BY <1>7, <2>4
      <3>2. \/ Reached' = Reached
            \/ Reached = lastIndexed /\ Reached' = cursor
        BY <1>1, <1>3, <1>4, <1>7, <3>1, ReachedStays
      <3>3. ASSUME NEW field \in Fields
            PROVE  /\ Laggards' = Laggards + 1
                   /\ AllBehind(field)' = AllBehind(field) + EventsIn(1, cursor)[field]
        <4>1. Mark(c) = 1 /\ Weight(c, field) = EventsIn(1, cursor)[field]
          BY <1>7, <2>1, <3>1 DEF Mark, Weight, Lagging
        <4>2. Mark(c) \in Nat /\ Weight(c, field) \in Nat
          BY <1>5, <4>1
        <4>3. /\ Laggards' = Laggards + Mark(c) - Mark(poll[p])
              /\ AllBehind(field)' = AllBehind(field) + Weight(c, field) - Weight(poll[p], field)
          BY <1>1, <1>2, <1>7, <4>2, OneWeightChanges
        <4>4. /\ Laggards' = Laggards + 1 - 0
              /\ AllBehind(field)' = AllBehind(field) + EventsIn(1, cursor)[field] - 0
          BY <1>5, <4>1, <4>3
        <4>5. QED
          BY <1>1, <1>5, <4>4
      <3>4. Laggards' = Laggards + 1
        BY <3>3 DEF Fields
      <3>5. overlaps' = overlaps + 1
        BY <1>7, <2>4
      <3>6. ASSUME NEW field \in Fields
            PROVE  /\ AllBehind(field)' \in Int /\ EventsIn(1, Reached')[field] \in Nat
                   /\ Brought(field)' + AllBehind(field) + EventsIn(1, Reached)[field]
                        <= Brought(field) + AllBehind(field)' + EventsIn(1, Reached')[field]
                             + 0 * EventsIn(1, Len(blocks))[field]
        <4>1. CASE Reached' = Reached
          BY <1>5, <3>3, <4>1
        <4>2. CASE Reached = lastIndexed /\ Reached' = cursor
          BY <1>5, <3>3, <4>2
        <4>3. QED
          BY <3>2, <4>1, <4>2
      <3>7. QED
        BY <1>1, <1>2, <3>4, <3>5, <3>6 DEF StaysBounded
    <2>5. QED
      BY <2>3, <2>4
  <1>8. QED
    BY <1>3, <1>6, <1>7

LEMMA EndingIsBounded ==
  ASSUME ArcadeInv, PollsAreCurrent', NEW p \in Polls, Move(p) \/ PollFails(p)
  PROVE  StaysBounded(0) \/ StaysBounded(1)
  <1>1. /\ blocks \in Seq(Counts) /\ Len(blocks) \in Nat /\ PollsAreCurrent
        /\ lastIndexed \in Nat /\ lastIndexed < Len(blocks)
        /\ overlaps \in Nat /\ Reached \in Nat
        /\ Laggards \in Nat /\ Laggards <= overlaps
    BY ArcadeFacts
  <1>2. /\ Polling(p) /\ poll' = [poll EXCEPT ![p] = Resting]
        /\ UNCHANGED <<blocks, metrics, brought, restarts, overlaps>>
        /\ \/ lastIndexed' = poll[p].to /\ DoneTo(poll[p]) = poll[p].to
           \/ lastIndexed' = lastIndexed /\ DoneTo(poll[p]) = poll[p].from - 1
    BY PollEnds
  <1>3. PICK d : d = DoneTo(poll[p])
    OBVIOUS
  <1>4. d \in Nat /\ d <= Len(blocks)
    <2>1. d \in Nat /\ d <= poll[p].to /\ poll[p].to < Len(blocks) /\ poll[p].to \in Nat
      BY <1>1, <1>2, <1>3, CallOf
    <2>2. QED
      BY <1>1, <2>1
  <1>5. \/ lastIndexed' = d
        \/ lastIndexed' = lastIndexed /\ d = poll[p].from - 1
    <2>1. PICK to, before : to = poll[p].to /\ before = poll[p].from - 1
      OBVIOUS
    <2>2. \/ lastIndexed' = to /\ d = to
          \/ lastIndexed' = lastIndexed /\ d = before
      BY <1>2, <1>3, <2>1
    <2>3. QED
      BY <2>1, <2>2
  <1>6. ASSUME NEW field \in Fields
        PROVE  /\ Brought(field)' = Brought(field)
               /\ Brought(field) \in Nat /\ AllBehind(field) \in Nat
               /\ EventsIn(1, lastIndexed)[field] \in Nat /\ EventsIn(1, d)[field] \in Nat
               /\ EventsIn(1, Reached)[field] \in Nat /\ EventsIn(1, Len(blocks))[field] \in Nat
               /\ EventsIn(1, d)[field] <= EventsIn(1, Len(blocks))[field]
               /\ EventsIn(1, lastIndexed)[field] <= EventsIn(1, Len(blocks))[field]
               /\ d <= lastIndexed => EventsIn(1, d)[field] <= EventsIn(1, lastIndexed)[field]
               /\ Mark(Resting) = 0 /\ Weight(Resting, field) = 0
    <2>1. Brought(field)' = Brought(field)
      BY <1>2 DEF Brought
    <2>2. Len(blocks) <= Len(blocks) /\ lastIndexed <= Len(blocks)
      BY <1>1
    <2>3. /\ EventsIn(1, d)[field] \in Nat
          /\ EventsIn(1, d)[field] <= EventsIn(1, Len(blocks))[field]
      BY <1>1, <1>4, <2>2, EventsGrow
    <2>4. /\ EventsIn(1, lastIndexed)[field] \in Nat
          /\ EventsIn(1, lastIndexed)[field] <= EventsIn(1, Len(blocks))[field]
      BY <1>1, <2>2, EventsGrow
    <2>5. d <= lastIndexed => EventsIn(1, d)[field] <= EventsIn(1, lastIndexed)[field]
      BY <1>1, <1>4, <2>2, EventsGrow
    <2>6. Mark(Resting) = 0 /\ Weight(Resting, field) = 0
      BY DEF Mark, Weight, Lagging, Resting
    <2>7. QED
      BY <2>1, <2>3, <2>4, <2>5, <2>6, ArcadeFacts
  <1>7. ASSUME NEW field \in Fields
        PROVE  /\ Laggards' = Laggards + 0 - Mark(poll[p])
               /\ AllBehind(field)' = AllBehind(field) + 0 - Weight(poll[p], field)
    <2>1. Mark(Resting) \in Nat /\ Weight(Resting, field) \in Nat
      BY <1>6
    <2>2. /\ Laggards' = Laggards + Mark(Resting) - Mark(poll[p])
          /\ AllBehind(field)' = AllBehind(field) + Weight(Resting, field) - Weight(poll[p], field)
      BY <1>1, <1>2, <2>1, OneWeightChanges
    <2>3. QED
      BY <1>6, <2>2
  <1>8. CASE Leads(p)
    <2>1. BeganFirst(p) /\ ~Lags(p) /\ poll[p].from \in Nat \ {0}
      BY <1>1, <1>2, <1>8, CallOf DEF PollsAreCurrent, Leads, Lags
    <2>2. Reached = d
      BY <1>1, <1>3, <1>8, ReachedIs
    <2>3. poll'[p] = Resting /\ \A q \in Polls \ {p} : poll'[q] = poll[q]
      BY <1>1, <1>2 DEF PollsAreCurrent
    <2>4. \A q \in Polls : ~Leads(q)'
      BY <2>1, <2>3 DEF Leads, Polling, Resting, BeganFirst
    <2>5. Reached' = lastIndexed'
      BY <2>4, ReachedNext
    <2>6. \/ lastIndexed' = d
          \/ lastIndexed' = lastIndexed /\ d <= lastIndexed
      <3>1. poll[p].from <= lastIndexed + 1
        BY <2>1 DEF BeganFirst
      <3>2. QED
        BY <1>1, <1>5, <2>1, <3>1
    <2>7. ASSUME NEW field \in Fields
          PROVE  /\ Laggards' = Laggards
                 /\ AllBehind(field)' \in Int /\ EventsIn(1, Reached')[field] \in Nat
                 /\ Brought(field)' + AllBehind(field) + EventsIn(1, Reached)[field]
                      <= Brought(field) + AllBehind(field)' + EventsIn(1, Reached')[field]
                           + 0 * EventsIn(1, Len(blocks))[field]
      <3>1. Mark(poll[p]) = 0 /\ Weight(poll[p], field) = 0
        BY <1>1, <2>1, OneWeighs
      <3>2. Laggards' = Laggards /\ AllBehind(field)' = AllBehind(field)
        BY <1>1, <1>6, <1>7, <3>1
      <3>3. EventsIn(1, Reached)[field] <= EventsIn(1, Reached')[field]
        BY <1>6, <2>2, <2>5, <2>6
      <3>4. EventsIn(1, Reached')[field] \in Nat
        BY <1>6, <2>5, <2>6
      <3>5. QED
        BY <1>6, <3>2, <3>3, <3>4
    <2>8. Laggards' = Laggards
      BY <2>7 DEF Fields
    <2>9. StaysBounded(0)
      BY <1>1, <1>2, <2>7, <2>8 DEF StaysBounded
    <2>10. QED
      BY <2>9
  <1>9. CASE ~Leads(p)
    <2>1. Lags(p)
      BY <1>2, <1>9 DEF Leads, Lags
    <2>2. Resting.stage = "idle"
      BY DEF Resting
    <2>3. \/ Reached' = Reached
          \/ Reached = lastIndexed /\ Reached' = d
      BY <1>1, <1>2, <1>5, <1>9, <2>2, ReachedStays
    <2>4. ASSUME NEW field \in Fields
          PROVE  /\ Laggards' = Laggards - 1
                 /\ AllBehind(field)' \in Int /\ EventsIn(1, Reached')[field] \in Nat
                 /\ Brought(field)' + AllBehind(field) + EventsIn(1, Reached)[field]
                      <= Brought(field) + AllBehind(field)' + EventsIn(1, Reached')[field]
                           + 1 * EventsIn(1, Len(blocks))[field]
      <3>1. Mark(poll[p]) = 1 /\ Weight(poll[p], field) = EventsIn(1, d)[field]
        BY <1>1, <1>3, <2>1, OneWeighs
      <3>2. Laggards' = Laggards - 1 /\ AllBehind(field)' = AllBehind(field) - EventsIn(1, d)[field]
        BY <1>1, <1>6, <1>7, <3>1
      <3>3. CASE Reached' = Reached
        BY <1>6, <3>2, <3>3
      <3>4. CASE Reached = lastIndexed /\ Reached' = d
        BY <1>6, <3>2, <3>4
      <3>5. QED
        BY <2>3, <3>2, <3>3, <3>4
    <2>5. Laggards' = Laggards - 1
      BY <2>4 DEF Fields
    <2>6. StaysBounded(1)
      BY <1>1, <1>2, <2>4, <2>5 DEF StaysBounded
    <2>7. QED
      BY <2>6
  <1>10. QED
    BY <1>8, <1>9

(* What a poll brings is told by the blocks it is then done with.          *)
LEMMA PollTells ==
  ASSUME ArcadeInv, NEW p \in Polls, FetchLogs(p) \/ ReadMetrics(p) \/ WriteMetrics(p)
  PROVE  \E c : /\ GoesOn(p, c)
                /\ DoneTo(c) \in Nat /\ DoneTo(c) <= Len(blocks)
                /\ \A field \in Fields :
                     /\ Brought(field)' = Brought(field) + EventsIn(1, DoneTo(c))[field]
                                                         - EventsIn(1, DoneTo(poll[p]))[field]
                     /\ overlaps = 0 =>
                          Indexed(field)' = Indexed(field) + EventsIn(1, DoneTo(c))[field]
                                                           - EventsIn(1, DoneTo(poll[p]))[field]
  <1>1. /\ blocks \in Seq(Counts) /\ Len(blocks) \in Nat /\ PollsAreCurrent
        /\ metrics \in [1 .. MaxDays -> Counts] /\ brought \in [1 .. MaxDays -> Counts]
        /\ EventsCount
    BY ArcadeFacts DEF ArcadeInv
  <1>2. Polling(p)
    BY DEF FetchLogs, ReadMetrics, WriteMetrics, Polling
  <1>3. PICK from \in Nat \ {0}, to \in Nat, d \in Nat :
          /\ from = poll[p].from /\ to = poll[p].to /\ d = DoneTo(poll[p])
          /\ from <= to /\ to < Len(blocks) /\ d <= to
    BY <1>1, <1>2, CallOf
  <1>4. d <= Len(blocks) /\ to <= Len(blocks) /\ from - 1 \in Nat /\ from - 1 <= to
    BY <1>1, <1>3
  <1>5. ASSUME NEW field \in Fields
        PROVE  /\ EventsIn(1, d)[field] \in Nat /\ EventsIn(1, to)[field] \in Nat
               /\ EventsIn(1, from - 1)[field] \in Nat /\ EventsIn(from, to)[field] \in Nat
               /\ EventsIn(1, to)[field] = EventsIn(1, from - 1)[field] + EventsIn(from, to)[field]
               /\ Brought(field) \in Nat /\ Indexed(field) \in Nat
    <2>1. EventsIn(1, d)[field] \in Nat /\ EventsIn(1, to)[field] \in Nat
      BY <1>1, <1>4, EventsGrow
    <2>2. EventsIn(1, from - 1)[field] \in Nat
      BY <1>1, <1>4, EventsGrow
    <2>3. EventsIn(from, to)[field] \in Nat
      BY <1>1, <1>4, EventsAreCounts
    <2>4. PICK i \in Nat : i = from - 1
      BY <1>4
    <2>5. i + 1 = from /\ i <= to
      BY <1>4, <2>4
    <2>6. EventsIn(1, to)[field] = EventsIn(1, i)[field] + EventsIn(i + 1, to)[field]
      BY <1>1, <1>4, <2>5, EventsGoOn
    <2>7. Brought(field) \in Nat /\ Indexed(field) \in Nat
      BY <1>1, BroughtIsNat, IndexedIsNat DEF Indexed
    <2>8. QED
      BY <2>1, <2>2, <2>3, <2>4, <2>5, <2>6, <2>7
  <1>6. ASSUME UNCHANGED <<metrics, brought>>, NEW e \in {d}, NEW field \in Fields
        PROVE  /\ Brought(field)' = Brought(field) + EventsIn(1, e)[field] - EventsIn(1, d)[field]
               /\ Indexed(field)' = Indexed(field) + EventsIn(1, e)[field] - EventsIn(1, d)[field]
    <2>1. Brought(field)' = Brought(field) /\ Indexed(field)' = Indexed(field)
      BY <1>6 DEF Brought, Indexed
    <2>2. QED
      BY <1>5, <1>6, <2>1
  <1>7. CASE FetchLogs(p)
    <2>1. PICK c : /\ GoesOn(p, c) /\ UNCHANGED <<metrics, brought>>
                   /\ DoneTo(poll[p]) = poll[p].from - 1
                   /\ \/ DoneTo(c) = poll[p].from - 1
                      \/ /\ DoneTo(c) = poll[p].to
                         /\ EventsIn(poll[p].from, poll[p].to)["swaps"] = 0
      BY <1>7, PollFetches
    <2>2. d = from - 1
      BY <1>3, <2>1
    <2>3. CASE DoneTo(c) = poll[p].from - 1
      <3>1. DoneTo(c) = d
        BY <1>3, <2>2, <2>3
      <3>2. QED
        BY <1>3, <1>4, <1>6, <2>1, <3>1
    <2>4. CASE DoneTo(c) = poll[p].to /\ EventsIn(poll[p].from, poll[p].to)["swaps"] = 0
      <3>1. DoneTo(c) = to /\ EventsIn(from, to)["swaps"] = 0
        BY <1>3, <2>4
      <3>2. ASSUME NEW field \in Fields
            PROVE  EventsIn(1, to)[field] = EventsIn(1, d)[field]
        <4>1. EventsIn(from, to)[field] = 0
          BY <1>1, <1>4, <3>1, NoSwapNoEvents
        <4>2. QED
          BY <1>5, <2>2, <4>1
      <3>3. ASSUME NEW field \in Fields
            PROVE  /\ Brought(field)' = Brought(field) + EventsIn(1, to)[field]
                                                       - EventsIn(1, d)[field]
                   /\ Indexed(field)' = Indexed(field) + EventsIn(1, to)[field]
                                                       - EventsIn(1, d)[field]
        <4>1. Brought(field)' = Brought(field) /\ Indexed(field)' = Indexed(field)
          BY <2>1 DEF Brought, Indexed
        <4>2. QED
          BY <1>5, <3>2, <4>1
      <3>4. QED
        BY <1>3, <1>4, <2>1, <3>1, <3>3
    <2>5. QED
      BY <2>1, <2>3, <2>4
  <1>8. CASE ReadMetrics(p)
    <2>1. PICK c : /\ GoesOn(p, c) /\ UNCHANGED <<metrics, brought>>
                   /\ DoneTo(c) = DoneTo(poll[p])
      BY <1>8, PollReads
    <2>2. QED
      BY <1>3, <1>4, <1>6, <2>1
  <1>9. CASE WriteMetrics(p)
    <2>1. PICK c : /\ GoesOn(p, c)
                   /\ DoneTo(poll[p]) = poll[p].from - 1 /\ DoneTo(c) = poll[p].to
                   /\ \E day \in 1 .. MaxDays, found \in Counts :
                        /\ found = EventsIn(poll[p].from, poll[p].to)
                        /\ brought' = [brought EXCEPT ![day] = Plus(brought[day], found)]
                        /\ overlaps = 0 =>
                             metrics' = [metrics EXCEPT ![day] = Plus(metrics[day], found)]
      BY <1>9, PollWrites
    <2>2. PICK day \in 1 .. MaxDays, found \in Counts :
            /\ found = EventsIn(from, to)
            /\ brought' = [brought EXCEPT ![day] = Plus(brought[day], found)]
            /\ overlaps = 0 => metrics' = [metrics EXCEPT ![day] = Plus(metrics[day], found)]
      BY <1>3, <2>1
    <2>3. d = from - 1 /\ DoneTo(c) = to
      BY <1>3, <2>1
    <2>4. ASSUME NEW field \in Fields
          PROVE  /\ Brought(field)' = Brought(field) + EventsIn(1, to)[field]
                                                     - EventsIn(1, d)[field]
                 /\ overlaps = 0 =>
                      Indexed(field)' = Indexed(field) + EventsIn(1, to)[field]
                                                       - EventsIn(1, d)[field]
      <3>1. Brought(field)' = Brought(field) + found[field]
        BY <1>1, <2>2, WritingBrings
      <3>2. overlaps = 0 => Indexed(field)' = Indexed(field) + found[field]
        BY <1>1, <2>2, WritingAdds
      <3>3. found[field] = EventsIn(1, to)[field] - EventsIn(1, d)[field]
        BY <1>5, <2>2, <2>3
      <3>4. QED
        BY <1>5, <3>1, <3>2, <3>3
    <2>5. QED
      BY <1>3, <1>4, <2>1, <2>3, <2>4
  <1>10. QED
    BY <1>7, <1>8, <1>9

LEMMA PollIsBounded ==
  ASSUME ArcadeInv, PollsAreCurrent', NEW p \in Polls, PollStepOf(p)
  PROVE  StaysBounded(0) \/ StaysBounded(1)
  <1>1. CASE FetchLogs(p) \/ ReadMetrics(p) \/ WriteMetrics(p)
    <2>1. PICK c : /\ GoesOn(p, c)
                   /\ DoneTo(c) \in Nat /\ DoneTo(c) <= Len(blocks)
                   /\ \A field \in Fields :
                        Brought(field)' = Brought(field) + EventsIn(1, DoneTo(c))[field]
                                                         - EventsIn(1, DoneTo(poll[p]))[field]
      BY <1>1, PollTells
    <2>2. StaysBounded(0)
      BY <2>1, GoingOnIsBounded
    <2>3. QED
      BY <2>2
  <1>2. QED
    BY <1>1, BeginningIsBounded, EndingIsBounded DEF PollStepOf

(* The arithmetic of the bound.                                            *)
LEMMA BoundStays ==
  ASSUME NEW k \in Nat, NEW all \in Nat, NEW was \in Nat, NEW behind \in Nat, NEW reached \in Nat,
         was <= k * all + behind + reached,
         NEW lost \in {0, 1}, NEW now \in Nat, NEW behindNow \in Int, NEW reachedNow \in Nat,
         now + behind + reached <= was + behindNow + reachedNow + lost * all
  PROVE  now <= (k + lost) * all + behindNow + reachedNow
  <1>1. k * all \in Nat /\ (k + 1) * all = k * all + all /\ (k + 0) * all = k * all
    OBVIOUS
  <1>2. CASE lost = 0
    BY <1>1, <1>2
  <1>3. CASE lost = 1
    BY <1>1, <1>3
  <1>4. QED
    BY <1>2, <1>3

LEMMA BoundRestarts ==
  ASSUME NEW k \in Nat, NEW all \in Nat, NEW was \in Nat, NEW behind \in Nat, NEW reached \in Nat,
         was <= k * all + behind + reached,
         NEW laggards \in Nat, behind <= laggards * all, reached <= all
  PROVE  was <= (k + laggards + 1) * all
  <1>1. k * all \in Nat /\ laggards * all \in Nat
    OBVIOUS
  <1>2. (k + laggards + 1) * all = k * all + laggards * all + all
    OBVIOUS
  <1>3. QED
    BY <1>1, <1>2

(* EventsAreCounts, of the blocks after a step.                            *)
LEMMA EventsAreNext ==
  ASSUME blocks' \in Seq(Counts), NEW m \in Nat, m = Len(blocks'), NEW field \in Fields
  PROVE  EventsIn(1, m)'[field] \in Nat
  <1>1. PICK f : f = [n \in DOMAIN blocks' |-> blocks'[n][field]]
    OBVIOUS
  <1>2. /\ DOMAIN blocks' = 1 .. m /\ blocks' \in [1 .. m -> Counts]
    BY LenProperties
  <1>3. ASSUME NEW n \in 1 .. m PROVE f[n] \in Nat
    <2>1. blocks'[n] \in Counts
      BY <1>2
    <2>2. QED
      BY <1>1, <1>2, <2>1 DEF Counts
  <1>4. IsFiniteSet(1 .. m)
    BY FS_Interval
  <1>5. SumFunctionOnSet(f, 1 .. m) \in Nat
    BY <1>3, <1>4, SumIsNat
  <1>6. EventsIn(1, m)'[field] = SumFunctionOnSet(f, 1 .. m)
    BY <1>1 DEF EventsIn
  <1>7. QED
    BY <1>5, <1>6


(* A step that leaves the polls alone leaves what they have no more to     *)
(* bring.                                                                  *)
LEMMA QuietWeighsTheSame ==
  ASSUME ArcadeInv, [ArcadeNext]_arcadeVars, PollRests
  PROVE  /\ Laggards' = Laggards /\ Reached' = Reached
         /\ \A field \in Fields :
              /\ AllBehind(field)' = AllBehind(field)
              /\ EventsIn(1, Reached)'[field] = EventsIn(1, Reached)[field]
              /\ Brought(field)' = Brought(field) /\ Indexed(field)' = Indexed(field)
  <1>1. /\ blocks \in Seq(Counts) /\ blocks' \in Seq(Counts)
        /\ Len(blocks) \in Nat /\ Len(blocks') \in Nat /\ Len(blocks) <= Len(blocks')
        /\ \A n \in 1 .. Len(blocks) - 1 : blocks'[n] = blocks[n]
    BY BlocksLast
  <1>2. UNCHANGED <<metrics, brought, lastIndexed, poll, restarts, overlaps>>
    BY DEF PollRests
  <1>3. PollsAreCurrent /\ Reached \in Nat /\ Reached < Len(blocks)
    BY ArcadeFacts
  <1>4. ASSUME NEW e \in Nat, e < Len(blocks), NEW field \in Fields
        PROVE  EventsIn(1, e)'[field] = EventsIn(1, e)[field]
    <2>1. /\ e <= Len(blocks) /\ e <= Len(blocks')
          /\ \A n \in 1 .. e : blocks'[n] = blocks[n]
          /\ 1 \in Nat \ {0}
      BY <1>1, <1>4
    <2>2. QED
      BY <1>1, <2>1, EventsStay
  <1>5. Laggards' = Laggards
    BY <1>2 DEF Laggards, Marks, Mark, Lagging
  <1>6. Reached' = Reached
    BY <1>2 DEF Reached, Leads, Polling, DoneTo
  <1>7. ASSUME NEW field \in Fields PROVE AllBehind(field)' = AllBehind(field)
    <2>1. ASSUME NEW q \in Polls PROVE Weights(field)'[q] = Weights(field)[q]
      <3>1. PICK call : call = poll[q]
        OBVIOUS
      <3>2. call = poll'[q]
        BY <1>2, <3>1
      <3>3. PICK e : e = DoneTo(call)
        OBVIOUS
      <3>4. Weights(field)'[q] = IF Lagging(call) THEN EventsIn(1, e)'[field] ELSE 0
        BY <3>2, <3>3 DEF Weights, Weight, Lagging, DoneTo
      <3>5. Weights(field)[q] = IF Lagging(call) THEN EventsIn(1, e)[field] ELSE 0
        BY <3>1, <3>3 DEF Weights, Weight
      <3>6. CASE ~Lagging(call)
        BY <3>4, <3>5, <3>6
      <3>7. CASE Lagging(call)
        <4>1. Polling(q)
          BY <3>1, <3>7 DEF Lagging, Polling
        <4>2. e \in Nat /\ e <= poll[q].to /\ poll[q].to < Len(blocks) /\ poll[q].to \in Nat
          BY <1>1, <1>3, <3>1, <3>3, <4>1, CallOf
        <4>3. e < Len(blocks)
          BY <1>1, <4>2
        <4>4. QED
          BY <1>4, <3>4, <3>5, <4>2, <4>3
      <3>8. QED
        BY <3>6, <3>7
    <2>2. Weights(field)' = [q \in Polls |-> Weights(field)'[q]]
      BY DEF Weights
    <2>3. Weights(field) = [q \in Polls |-> Weights(field)[q]]
      BY DEF Weights
    <2>4. Weights(field)' = Weights(field)
      BY <2>1, <2>2, <2>3
    <2>5. QED
      BY <2>4 DEF AllBehind
  <1>8. ASSUME NEW field \in Fields
        PROVE  /\ EventsIn(1, Reached)'[field] = EventsIn(1, Reached)[field]
               /\ Brought(field)' = Brought(field) /\ Indexed(field)' = Indexed(field)
    <2>1. PICK r : r = Reached
      OBVIOUS
    <2>2. EventsIn(1, r)'[field] = EventsIn(1, r)[field]
      BY <1>3, <1>4, <2>1
    <2>3. EventsIn(1, Reached)' = EventsIn(1, r)'
      BY <1>6, <2>1 DEF EventsIn
    <2>4. Brought(field)' = Brought(field) /\ Indexed(field)' = Indexed(field)
      BY <1>2 DEF Brought, Indexed
    <2>5. QED
      BY <2>1, <2>2, <2>3, <2>4
  <1>9. QED
    BY <1>5, <1>6, <1>7, <1>8

(* All that the upserts bring, in a step of any kind.                      *)
LEMMA BroughtKept ==
  ASSUME ArcadeInv, [ArcadeNext]_arcadeVars, PollsAreCurrent', ArcadeTypeOK'
  PROVE  BroughtBounded'
  <1>1. /\ overlaps \in Nat /\ restarts \in Nat /\ Laggards \in Nat /\ Laggards <= overlaps
        /\ blocks \in Seq(Counts) /\ Len(blocks) \in Nat /\ PollsAreCurrent
    BY ArcadeFacts
  <1>2. PICK k \in Nat : k = restarts + overlaps - Laggards
    BY <1>1
  <1>3. ASSUME NEW field \in Fields
        PROVE  /\ Brought(field) \in Nat /\ AllBehind(field) \in Nat
               /\ EventsIn(1, Reached)[field] \in Nat /\ EventsIn(1, Len(blocks))[field] \in Nat
               /\ EventsIn(1, Reached)[field] <= EventsIn(1, Len(blocks))[field]
               /\ AllBehind(field) <= Laggards * EventsIn(1, Len(blocks))[field]
               /\ Brought(field) <= k * EventsIn(1, Len(blocks))[field]
                                      + AllBehind(field) + EventsIn(1, Reached)[field]
    <2>1. Brought(field) <= k * EventsIn(1, Len(blocks))[field]
                              + AllBehind(field) + EventsIn(1, Reached)[field]
      BY <1>2 DEF ArcadeInv, BroughtBounded, BroughtBound
    <2>2. QED
      BY <2>1, ArcadeFacts
  <1>4. ASSUME NEW field \in Fields PROVE Brought(field)' \in Nat
    <2>1. PICK rows : rows = brought'
      OBVIOUS
    <2>2. rows \in [1 .. MaxDays -> Counts]
      BY <2>1 DEF ArcadeTypeOK
    <2>3. Brought(field)' = SumFunctionOnSet([d \in 1 .. MaxDays |-> rows[d][field]], 1 .. MaxDays)
      BY <2>1 DEF Brought
    <2>4. QED
      BY <2>2, <2>3, IndexedIsNat
  <1>5. CASE PollRests
    <2>1. UNCHANGED <<restarts, overlaps>> /\ Laggards' = Laggards
      BY <1>5, QuietWeighsTheSame DEF PollRests
    <2>2. ASSUME NEW field \in Fields PROVE Brought(field)' <= BroughtBound(field)'
      <3>1. PICK all, allNow : /\ all = EventsIn(1, Len(blocks))[field]
                               /\ allNow = EventsIn(1, Len(blocks))'[field]
        OBVIOUS
      <3>2. all \in Nat /\ allNow \in Nat /\ all <= allNow
        <4>1. PICK n, m : n = Len(blocks) /\ m = Len(blocks')
          OBVIOUS
        <4>2. /\ blocks' \in Seq(Counts) /\ m \in Nat
              /\ EventsIn(1, n)[field] <= EventsIn(1, m)'[field]
          BY <4>1, BlocksLast
        <4>3. EventsIn(1, m)'[field] = allNow
          BY <3>1, <4>1 DEF EventsIn
        <4>4. EventsIn(1, m)'[field] \in Nat
          BY <4>1, <4>2, EventsAreNext
        <4>5. QED
          BY <1>3, <3>1, <4>1, <4>2, <4>3, <4>4
      <3>3. /\ AllBehind(field)' = AllBehind(field)
            /\ EventsIn(1, Reached)'[field] = EventsIn(1, Reached)[field]
            /\ Brought(field)' = Brought(field)
        BY <1>5, QuietWeighsTheSame
      <3>4. BroughtBound(field)' = k * allNow + AllBehind(field) + EventsIn(1, Reached)[field]
        BY <1>2, <2>1, <3>1, <3>3 DEF BroughtBound
      <3>5. k * all \in Nat /\ k * allNow \in Nat /\ k * all <= k * allNow
        BY <3>2, MoreOfAll
      <3>6. QED
        BY <1>3, <3>1, <3>3, <3>4, <3>5
    <2>3. QED
      BY <1>1, <2>1, <2>2 DEF BroughtBounded
  <1>6. ASSUME NEW p \in Polls, PollStepOf(p) PROVE BroughtBounded'
    <2>1. PICK lost \in {0, 1} : StaysBounded(lost)
      BY <1>6, PollIsBounded
    <2>2. /\ UNCHANGED <<blocks, restarts>>
          /\ Laggards' <= overlaps' /\ overlaps' - Laggards' = overlaps - Laggards + lost
      BY <2>1 DEF StaysBounded
    <2>3. restarts' + overlaps' - Laggards' = k + lost
      <3>1. overlaps' \in Nat /\ Laggards' \in Int
        <4>1. overlaps' \in 0 .. MaxOverlaps
          BY DEF ArcadeTypeOK
        <4>2. PICK f : f = Marks'
          OBVIOUS
        <4>3. \A q \in Polls : f[q] \in Int
          BY <4>2 DEF Marks, Mark
        <4>4. SumFunctionOnSet(f, Polls) \in Int
          BY <4>3, ArcadeConstants, SumIsInt
        <4>5. Laggards' = SumFunctionOnSet(f, Polls)
          BY <4>2 DEF Laggards
        <4>6. overlaps' \in Nat
          BY <4>1, ArcadeConstantsAreNat
        <4>7. QED
          BY <4>4, <4>5, <4>6
      <3>2. PICK o \in Nat, l \in Int, was \in Nat, behind \in Nat, r \in Nat :
              /\ o = overlaps' /\ l = Laggards'
              /\ was = overlaps /\ behind = Laggards /\ r = restarts
        BY <1>1, <3>1
      <3>3. o - l = was - behind + lost /\ restarts' = r /\ k = r + was - behind
        BY <1>2, <2>2, <3>2
      <3>4. r + o - l = k + lost
        BY <3>3
      <3>5. QED
        BY <3>2, <3>3, <3>4
    <2>4. ASSUME NEW field \in Fields PROVE Brought(field)' <= BroughtBound(field)'
      <3>1. /\ AllBehind(field)' \in Int /\ EventsIn(1, Reached')[field] \in Nat
            /\ Brought(field)' + AllBehind(field) + EventsIn(1, Reached)[field]
                 <= Brought(field) + AllBehind(field)' + EventsIn(1, Reached')[field]
                      + lost * EventsIn(1, Len(blocks))[field]
        BY <2>1 DEF StaysBounded
      <3>2. BroughtBound(field)' = (k + lost) * EventsIn(1, Len(blocks))[field]
                                     + AllBehind(field)' + EventsIn(1, Reached')[field]
        <4>1. /\ EventsIn(1, Len(blocks))' = EventsIn(1, Len(blocks))
              /\ EventsIn(1, Reached)' = EventsIn(1, Reached')
          BY <2>2 DEF EventsIn
        <4>2. QED
          BY <2>3, <4>1 DEF BroughtBound
      <3>3. PICK all \in Nat, was \in Nat, behind \in Nat, reached \in Nat,
                 now \in Nat, behindNow \in Int, reachedNow \in Nat :
              /\ all = EventsIn(1, Len(blocks))[field] /\ was = Brought(field)
              /\ behind = AllBehind(field) /\ reached = EventsIn(1, Reached)[field]
              /\ now = Brought(field)' /\ behindNow = AllBehind(field)'
              /\ reachedNow = EventsIn(1, Reached')[field]
        BY <1>3, <1>4, <3>1
      <3>4. was <= k * all + behind + reached
        BY <1>3, <3>3
      <3>5. now + behind + reached <= was + behindNow + reachedNow + lost * all
        BY <3>1, <3>3
      <3>6. now <= (k + lost) * all + behindNow + reachedNow
        BY <3>4, <3>5, BoundStays
      <3>7. QED
        BY <3>2, <3>3, <3>6
    <2>5. QED
      BY <2>2, <2>4 DEF BroughtBounded
  <1>7. CASE Restart
    <2>1. /\ restarts' = restarts + 1 /\ lastIndexed' = 0 /\ poll' = [q \in Polls |-> Resting]
          /\ UNCHANGED <<blocks, brought, overlaps>>
      BY <1>7 DEF Restart, Chain, Books
    <2>2. \A q \in Polls : poll'[q] = Resting
      BY <2>1
    <2>3. Reached' = 0
      <3>1. \A q \in Polls : ~Leads(q)'
        BY <2>2 DEF Leads, Polling, Resting
      <3>2. QED
        BY <2>1, <3>1, ReachedNext
    <2>4. ASSUME NEW field \in Fields PROVE Laggards' = 0 /\ AllBehind(field)' = 0
      <3>1. PICK f, g : f = Marks' /\ g = Weights(field)'
        OBVIOUS
      <3>2. /\ \A q \in Polls : f[q] = 0
            /\ \A q \in Polls : g[q] = 0
        BY <2>2, <3>1 DEF Marks, Weights, Mark, Weight, Lagging, Resting
      <3>3. SumFunctionOnSet(f, Polls) = 0 /\ SumFunctionOnSet(g, Polls) = 0
        BY <3>2, ArcadeConstants, SumOfZeros
      <3>4. QED
        BY <3>1, <3>3 DEF Laggards, AllBehind
    <2>5. Laggards' = 0
      BY <2>4 DEF Fields
    <2>6. ASSUME NEW field \in Fields PROVE Brought(field)' <= BroughtBound(field)'
      <3>1. Brought(field)' = Brought(field)
        BY <2>1 DEF Brought
      <3>2. EventsIn(1, Reached)'[field] = 0
        <4>1. EventsIn(1, Reached)' = EventsIn(1, 0)
          BY <2>1, <2>3 DEF EventsIn
        <4>2. QED
          BY <4>1, NoBlocksNoEvents
      <3>3. restarts' + overlaps' - Laggards' = k + Laggards + 1
        BY <1>1, <1>2, <2>1, <2>5
      <3>4. EventsIn(1, Len(blocks))' = EventsIn(1, Len(blocks))
        BY <2>1 DEF EventsIn
      <3>5. BroughtBound(field)' = (k + Laggards + 1) * EventsIn(1, Len(blocks))[field] + 0 + 0
        BY <2>4, <3>2, <3>3, <3>4 DEF BroughtBound
      <3>6. PICK laggards \in Nat, all \in Nat, was \in Nat, behind \in Nat, reached \in Nat :
              /\ laggards = Laggards
              /\ all = EventsIn(1, Len(blocks))[field] /\ was = Brought(field)
              /\ behind = AllBehind(field) /\ reached = EventsIn(1, Reached)[field]
        BY <1>1, <1>3
      <3>7. /\ was <= k * all + behind + reached
            /\ behind <= laggards * all /\ reached <= all
        BY <1>3, <3>6
      <3>8. was <= (k + laggards + 1) * all
        BY <3>7, BoundRestarts
      <3>9. PICK bound \in Nat : bound = (k + laggards + 1) * all
        BY MoreOfAll
      <3>10. BroughtBound(field)' = bound
        BY <3>5, <3>6, <3>9
      <3>11. QED
        BY <3>1, <3>6, <3>8, <3>9, <3>10
    <2>7. QED
      BY <1>1, <2>1, <2>5, <2>6 DEF BroughtBounded
  <1>8. QED
    BY <1>5, <1>6, <1>7, QuietOrPoll DEF PollStep

(* Without an overlap, a step loses no event of a block that was indexed.  *)
LEMMA CoverKept ==
  ASSUME ArcadeInv, [ArcadeNext]_arcadeVars, PollsAreCurrent', NEW field \in Fields
  PROVE  MetricsCover(field)'
  <1> SUFFICES ASSUME DeployBlock > 0, overlaps' = 0
               PROVE  EventsIn(1, Reached)'[field] <= Indexed(field)'
    BY DEF MetricsCover
  <1>1. /\ blocks \in Seq(Counts) /\ Len(blocks) \in Nat /\ PollsAreCurrent
        /\ lastIndexed \in Nat /\ overlaps \in Nat /\ Reached \in Nat
        /\ EventsIn(1, Reached)[field] \in Nat
        /\ metrics \in [1 .. MaxDays -> Counts]
    BY ArcadeFacts
  <1>2. Indexed(field) \in Nat
    BY <1>1, IndexedIsNat DEF Indexed
  <1>3. overlaps = 0 => EventsIn(1, Reached)[field] <= Indexed(field)
    BY DEF ArcadeInv, MetricsCover
  <1>4. CASE PollRests
    <2>1. overlaps = 0
      BY <1>4 DEF PollRests
    <2>2. /\ EventsIn(1, Reached)'[field] = EventsIn(1, Reached)[field]
          /\ Indexed(field)' = Indexed(field)
      BY <1>4, QuietWeighsTheSame
    <2>3. QED
      BY <1>3, <2>1, <2>2
  <1>5. ASSUME NEW p \in Polls, Polling(p), overlaps = 0
        PROVE  /\ Leads(p) /\ BeganFirst(p) /\ Reached = DoneTo(poll[p])
               /\ \A q \in Polls : q # p => ~Polling(q)
    <2>1. ~Lags(p)
      BY <1>1, <1>5 DEF PollsAreCurrent
    <2>2. Leads(p)
      BY <1>5, <2>1 DEF Leads, Lags
    <2>3. \A q \in Polls : q # p => ~Polling(q)
      BY <1>1, <1>5, TwoOverlap
    <2>4. QED
      BY <1>1, <2>2, <2>3, ReachedIs DEF PollsAreCurrent
  <1>6. ASSUME UNCHANGED <<blocks, metrics>>, Reached' = Reached, overlaps = 0
        PROVE  EventsIn(1, Reached)'[field] <= Indexed(field)'
    <2>1. /\ EventsIn(1, Reached)'[field] = EventsIn(1, Reached)[field]
          /\ Indexed(field)' = Indexed(field)
      BY <1>6 DEF EventsIn, Indexed
    <2>2. QED
      BY <1>3, <1>6, <2>1
  <1>7. ASSUME NEW p \in Polls, Poll(p) PROVE EventsIn(1, Reached)'[field] <= Indexed(field)'
    <2>1. ~Polling(p) /\ UNCHANGED <<blocks, metrics, brought, restarts>>
      BY <1>7, PollBegins
    <2>2. PICK cursor \in Nat :
            /\ lastIndexed' = cursor /\ cursor = lastIndexed
            /\ \/ UNCHANGED <<poll, overlaps>>
               \/ \E c \in PollStates :
                    /\ poll' = [poll EXCEPT ![p] = c]
                    /\ overlaps' = IF SomePolling THEN overlaps + 1 ELSE overlaps
                    /\ c.stage = "fetch" /\ c.beside = SomePolling /\ c.from = cursor + 1
      <3>1. PICK cursor \in Nat :
              /\ lastIndexed' = cursor
              /\ cursor = lastIndexed \/ ~(DeployBlock > 0)
              /\ \/ UNCHANGED <<poll, overlaps>> /\ cursor = lastIndexed
                 \/ \E c \in PollStates :
                      /\ poll' = [poll EXCEPT ![p] = c]
                      /\ overlaps' = IF SomePolling THEN overlaps + 1 ELSE overlaps
                      /\ c.stage = "fetch" /\ c.beside = SomePolling /\ c.from = cursor + 1
        BY <1>7, PollBegins
      <3>2. cursor = lastIndexed
        BY <3>1
      <3>3. QED
        BY <3>1, <3>2
    <2>3. ASSUME UNCHANGED <<poll, overlaps>>
          PROVE  EventsIn(1, Reached)'[field] <= Indexed(field)'
      <3>1. Reached' = Reached
        BY <2>2, <2>3 DEF Reached, Leads, Polling, DoneTo
      <3>2. QED
        BY <1>6, <2>1, <2>3, <3>1
    <2>4. ASSUME NEW c \in PollStates, poll' = [poll EXCEPT ![p] = c],
                 overlaps' = IF SomePolling THEN overlaps + 1 ELSE overlaps,
                 c.stage = "fetch", c.beside = SomePolling, c.from = cursor + 1
          PROVE  EventsIn(1, Reached)'[field] <= Indexed(field)'
      <3>1. ~SomePolling /\ overlaps = 0
        BY <1>1, <2>4
      <3>2. Reached = lastIndexed
        <4>1. \A q \in Polls : ~Leads(q)
          BY <3>1 DEF SomePolling, Leads
        <4>2. QED
          BY <1>1, <4>1, ReachedIs
      <3>3. Reached' = cursor
        <4>1. poll'[p] = c
          BY <1>1, <2>4 DEF PollsAreCurrent
        <4>2. Leads(p)' /\ DoneTo(poll'[p]) = cursor
          BY <2>4, <3>1, <4>1 DEF Leads, Polling, DoneTo
        <4>3. QED
          BY <4>2, ReachedNext
      <3>4. QED
        BY <1>6, <2>1, <2>2, <3>1, <3>2, <3>3
    <2>5. QED
      BY <2>2, <2>3, <2>4
  <1>8. ASSUME NEW p \in Polls, FetchLogs(p) \/ ReadMetrics(p) \/ WriteMetrics(p)
        PROVE  EventsIn(1, Reached)'[field] <= Indexed(field)'
    <2>1. PICK c : /\ GoesOn(p, c) /\ DoneTo(c) \in Nat /\ DoneTo(c) <= Len(blocks)
                   /\ overlaps = 0 =>
                        Indexed(field)' = Indexed(field) + EventsIn(1, DoneTo(c))[field]
                                                         - EventsIn(1, DoneTo(poll[p]))[field]
      BY <1>8, PollTells
    <2>2. /\ Polling(p) /\ c.stage # "idle" /\ c.beside = poll[p].beside
          /\ poll' = [poll EXCEPT ![p] = c] /\ UNCHANGED <<blocks, overlaps>>
      BY <2>1 DEF GoesOn
    <2>3. overlaps = 0 /\ Leads(p) /\ Reached = DoneTo(poll[p])
      BY <1>5, <2>2
    <2>4. poll'[p] = c
      BY <1>1, <2>2 DEF PollsAreCurrent
    <2>5. Leads(p)'
      BY <2>2, <2>3, <2>4 DEF Leads, Polling
    <2>6. Reached' = DoneTo(c)
      BY <2>4, <2>5, ReachedNext
    <2>7. EventsIn(1, Reached)' = EventsIn(1, DoneTo(c))
      BY <2>2, <2>6 DEF EventsIn
    <2>8. EventsIn(1, DoneTo(c))[field] \in Nat
      BY <1>1, <2>1, EventsGrow
    <2>9. QED
      BY <1>1, <1>2, <1>3, <2>1, <2>3, <2>7, <2>8
  <1>9. ASSUME NEW p \in Polls, Move(p) \/ PollFails(p)
        PROVE  EventsIn(1, Reached)'[field] <= Indexed(field)'
    <2>1. /\ Polling(p) /\ poll' = [poll EXCEPT ![p] = Resting]
          /\ UNCHANGED <<blocks, metrics, brought, restarts, overlaps>>
          /\ \/ lastIndexed' = poll[p].to /\ DoneTo(poll[p]) = poll[p].to
             \/ lastIndexed' = lastIndexed /\ DoneTo(poll[p]) = poll[p].from - 1
      BY <1>9, PollEnds
    <2>2. overlaps = 0
      BY <2>1
    <2>3. /\ BeganFirst(p) /\ Reached = DoneTo(poll[p])
          /\ \A q \in Polls : q # p => ~Polling(q)
      BY <1>5, <2>1, <2>2
    <2>4. poll'[p] = Resting /\ \A q \in Polls \ {p} : poll'[q] = poll[q]
      BY <1>1, <2>1 DEF PollsAreCurrent
    <2>5. \A q \in Polls : ~Leads(q)'
      BY <2>3, <2>4 DEF Leads, Polling, Resting
    <2>6. Reached' = lastIndexed'
      BY <2>5, ReachedNext
    <2>7. poll[p].from = lastIndexed + 1
      BY <2>2, <2>3 DEF BeganFirst
    <2>8. PICK d : d = DoneTo(poll[p])
      OBVIOUS
    <2>9. lastIndexed' = d
      BY <1>1, <2>1, <2>7, <2>8
    <2>10. Reached' = Reached
      BY <2>3, <2>6, <2>8, <2>9
    <2>11. QED
      BY <1>6, <2>1, <2>2, <2>10
  <1>10. CASE Restart
    <2>1. /\ lastIndexed' = 0 /\ poll' = [q \in Polls |-> Resting]
          /\ UNCHANGED <<blocks, metrics>>
      BY <1>10 DEF Restart, Chain, Books
    <2>2. \A q \in Polls : ~Leads(q)'
      BY <2>1 DEF Leads, Polling, Resting
    <2>3. Reached' = 0
      BY <2>1, <2>2, ReachedNext
    <2>4. EventsIn(1, Reached)' = EventsIn(1, 0)
      BY <2>1, <2>3 DEF EventsIn
    <2>5. Indexed(field)' = Indexed(field)
      BY <2>1 DEF Indexed
    <2>6. QED
      BY <1>2, <2>4, <2>5, NoBlocksNoEvents
  <1>11. QED
    BY <1>4, <1>7, <1>8, <1>9, <1>10, QuietOrPoll DEF PollStep, PollStepOf

-----------------------------------------------------------------------------
(* The invariant, and what follows from it.                                *)

LEMMA ArcadeStarts ==
  ASSUME ArcadeInit
  PROVE  ArcadeInv
  <1>1. NoEvents \in Counts /\ \A field \in Fields : NoEvents[field] = 0
    BY DEF NoEvents, Counts
  <1>2. /\ blocks \in Seq(Counts) /\ Len(blocks) = 1
        /\ \A n \in 1 .. 1 : blocks[n] = NoEvents
    BY <1>1 DEF ArcadeInit
  <1>3. /\ credits = [a \in Accounts |-> 0] /\ minted = 0 /\ burned = 0
        /\ quote = 0 /\ hook = NoRouting
    BY DEF ArcadeInit, ContractsInit
  <1>4. ArcadeTypeOK
    <2>1. ContractsTypeOK
      <3>1. DefaultSplit \in Splits
        BY ContractConstants
      <3>2. QED
        BY <3>1 DEF ArcadeInit, ContractsInit, ContractsTypeOK, NoRouting
    <2>2. pool \in Pools /\ joined \subseteq Accounts /\ claimed \subseteq Accounts /\ root \in Roots
      BY ArcadeConstantsAreNat DEF ArcadeInit, Pools
    <2>3. rewards \in [Accounts -> Nat]
      BY DEF ArcadeInit
    <2>4. today \in 1 .. MaxDays /\ lastIndexed \in 0 .. MaxBlocks
          /\ restarts \in 0 .. MaxRestarts /\ overlaps \in 0 .. MaxOverlaps
      BY ArcadeConstantsAreNat DEF ArcadeInit
    <2>5. Len(blocks) <= MaxBlocks
      BY <1>2, ArcadeConstantsAreNat
    <2>6. metrics \in [1 .. MaxDays -> Counts] /\ brought \in [1 .. MaxDays -> Counts]
      BY <1>1 DEF ArcadeInit
    <2>7. /\ DOMAIN poll = Polls
          /\ \A p \in Polls : poll[p].stage \in {"idle", "fetch", "read", "write", "move"}
      BY DEF ArcadeInit, Resting
    <2>8. QED
      BY <1>2, <2>1, <2>2, <2>3, <2>4, <2>5, <2>6, <2>7 DEF ArcadeTypeOK, Pools
  <1>5. LedgerAddsUp
    <2>1. SumFunction(credits) = 0
      <3>1. SumFunction(credits) = SumFunctionOnSet(credits, Accounts)
        BY <1>3, HeldByAccounts
      <3>2. \A a \in Accounts : credits[a] = 0
        BY <1>3
      <3>3. QED
        BY <3>1, <3>2, SumOfZeros, ArcadeConstantsAreNat
    <2>2. joined = {} /\ Cardinality(joined) = 0
      BY FS_EmptySet DEF ArcadeInit
    <2>3. pool.prizePool = 0 /\ pool.playerCount = 0
      BY DEF ArcadeInit
    <2>4. EntryFee * Cardinality(joined) = 0
      BY <2>2, ArcadeConstantsAreNat
    <2>5. \A a \in Accounts : a \notin claimed /\ rewards[a] = 0
      BY DEF ArcadeInit
    <2>6. QED
      BY <1>3, <2>1, <2>2, <2>3, <2>4, <2>5 DEF LedgerAddsUp
  <1>6. EventsCount
    <2>1. \A n \in 1 .. 1 : \A field \in Fields : blocks[n][field] = 0
      BY <1>1, <1>2
    <2>2. QED
      BY <1>2, <2>1 DEF EventsCount
  <1>7. \A field \in Fields : EventsIn(1, 1)[field] = 0
    <2>1. ASSUME NEW field \in Fields PROVE EventsIn(1, 1)[field] = 0
      <3>1. \A n \in 1 .. 1 : Told(field)[n] = 0
        BY <1>1, <1>2, BlocksTell
      <3>2. IsFiniteSet(1 .. 1)
        <4>1. 1 .. 1 = {1}
          OBVIOUS
        <4>2. QED
          BY <4>1, FS_Singleton
      <3>3. SumFunctionOnSet(Told(field), 1 .. 1) = 0
        BY <3>1, <3>2, SumOfZeros
      <3>4. QED
        BY <3>3, ToldOf
    <2>2. QED
      BY <2>1
  <1>8. HookBooksAgree
    <2>1. \A field \in {"swaps", "jackpot", "ecosystem", "treasury"} : EventsIn(1, Len(blocks))[field] = 0
      BY <1>2, <1>7 DEF Fields
    <2>2. QED
      BY <1>3, <2>1 DEF HookBooksAgree, NoRouting
  <1>9. /\ lastIndexed = 0 /\ overlaps = 0 /\ restarts = 0
        /\ poll \in [Polls -> PollStates]
        /\ \A p \in Polls : poll[p] = Resting /\ ~Polling(p) /\ ~Leads(p) /\ ~Lags(p)
        /\ Resting.stage = "idle"
    BY DEF ArcadeInit, Resting, PollStates, Polling, Leads, Lags
  <1>10. PollsAreCurrent
    BY <1>2, <1>9 DEF PollsAreCurrent, CallIsCurrent
  <1>11. RowsAreBrought
    <2>1. \A d \in 1 .. MaxDays : metrics[d] = NoEvents /\ brought[d] = NoEvents
      BY DEF ArcadeInit
    <2>2. QED
      BY <1>1, <2>1 DEF RowsAreBrought
  <1>12. Reached = 0
    BY <1>9 DEF Reached
  <1>13. ASSUME NEW field \in Fields
         PROVE  /\ EventsIn(1, Reached)[field] = 0
                /\ Indexed(field) \in Nat /\ Brought(field) = 0
                /\ Laggards = 0 /\ AllBehind(field) = 0
                /\ EventsIn(1, Len(blocks))[field] = 0
    <2>1. EventsIn(1, Reached)[field] = 0
      BY <1>12, NoBlocksNoEvents
    <2>2. Indexed(field) \in Nat
      BY <1>4, IndexedIsNat DEF Indexed, ArcadeTypeOK
    <2>3. Brought(field) = 0
      <3> DEFINE row == [d \in 1 .. MaxDays |-> brought[d][field]]
      <3>1. \A d \in 1 .. MaxDays : row[d] = 0
        <4>1. \A d \in 1 .. MaxDays : brought[d] = NoEvents
          BY DEF ArcadeInit
        <4>2. NoEvents[field] = 0
          BY <1>1
        <4>3. QED
          BY <4>1, <4>2
      <3>2. Brought(field) = SumFunctionOnSet(row, 1 .. MaxDays)
        BY DEF Brought
      <3>3. IsFiniteSet(1 .. MaxDays)
        BY FS_Interval, ArcadeConstantsAreNat
      <3> HIDE DEF row
      <3>4. QED
        BY <3>1, <3>2, <3>3, SumOfZeros
    <2>4. Laggards = 0 /\ AllBehind(field) = 0
      BY <1>2, <1>9, <1>10, SumsAre
    <2>5. EventsIn(1, Len(blocks))[field] = 0
      BY <1>2, <1>7
    <2>6. QED
      BY <2>1, <2>2, <2>3, <2>4, <2>5
  <1>14. \A field \in Fields : MetricsCover(field)
    BY <1>13 DEF MetricsCover
  <1>15. BroughtBounded
    <2>1. Laggards <= overlaps
      BY <1>9, <1>13 DEF Fields
    <2>2. ASSUME NEW field \in Fields PROVE Brought(field) <= BroughtBound(field)
      <3>1. BroughtBound(field) = (0 + 0 - 0) * 0 + 0 + 0
        BY <1>9, <1>13 DEF BroughtBound
      <3>2. QED
        BY <1>13, <3>1
    <2>3. QED
      BY <2>1, <2>2 DEF BroughtBounded
  <1>16. QED
    BY <1>4, <1>5, <1>6, <1>8, <1>10, <1>11, <1>14, <1>15 DEF ArcadeInv

LEMMA ArcadeStep ==
  ASSUME ArcadeInv, [ArcadeNext]_arcadeVars
  PROVE  ArcadeInv'
  <1>1. PollsAreCurrent' /\ RowsAreBrought'
    BY PollKept
  <1>2. ArcadeTypeOK'
    BY <1>1, ArcadeTypesStep
  <1>3. LedgerAddsUp'
    BY <1>2, LedgerKept
  <1>4. EventsCount' /\ HookBooksAgree'
    BY BlocksStep
  <1>5. \A field \in Fields : MetricsCover(field)'
    BY <1>1, CoverKept
  <1>6. BroughtBounded'
    BY <1>1, <1>2, BroughtKept
  <1>7. QED
    BY <1>1, <1>2, <1>3, <1>4, <1>5, <1>6 DEF ArcadeInv

(* The books of the contracts and of the indexer, in every reachable state *)
(* of CreditManager, FRXArcadeHook, TournamentPool, RewardDistributor and  *)
(* hookIndexer.ts.                                                         *)
THEOREM ArcadeSafety == ArcadeSpec => []ArcadeInv
  <1>1. ArcadeInit => ArcadeInv
    BY ArcadeStarts
  <1>2. ArcadeInv /\ [ArcadeNext]_arcadeVars => ArcadeInv'
    BY ArcadeStep
  <1>3. QED
    BY <1>1, <1>2, PTL DEF ArcadeSpec

(* Credits appear only by swaps and claims and disappear only in           *)
(* tournaments, and an account is paid one claim at most, for any accounts *)
(* and amounts.                                                            *)
THEOREM CreditsAreAccounted == ArcadeSpec => []CreditsAccounted
  <1>1. ArcadeInv => CreditsAccounted
    BY DEF ArcadeInv, LedgerAddsUp, CreditsAccounted
  <1>2. QED
    BY <1>1, ArcadeSafety, PTL

(* The fee arrives to the last token and the events tell the same sums,    *)
(* for any splits, swaps and blocks.                                       *)
THEOREM HookBooksAlwaysAgree == ArcadeSpec => []HookBooksAgree
  <1>1. ArcadeInv => HookBooksAgree
    BY DEF ArcadeInv
  <1>2. QED
    BY <1>1, ArcadeSafety, PTL

(* The rows are no more than what the upserts brought.                     *)
LEMMA IndexedIsBrought ==
  ASSUME ArcadeInv, NEW field \in Fields
  PROVE  Indexed(field) \in Nat /\ Indexed(field) <= Brought(field)
  <1>1. /\ metrics \in [1 .. MaxDays -> Counts] /\ brought \in [1 .. MaxDays -> Counts]
        /\ RowsAreBrought
    BY ArcadeFacts DEF ArcadeInv
  <1>2. PICK f, g : /\ f = [d \in 1 .. MaxDays |-> metrics[d][field]]
                    /\ g = [d \in 1 .. MaxDays |-> brought[d][field]]
    OBVIOUS
  <1>3. ASSUME NEW d \in 1 .. MaxDays
        PROVE  f[d] \in Int /\ g[d] \in Int /\ f[d] <= g[d]
    <2>1. metrics[d] \in Counts /\ brought[d] \in Counts
      BY <1>1
    <2>2. metrics[d][field] \in Nat /\ brought[d][field] \in Nat
      BY <2>1 DEF Counts
    <2>3. QED
      BY <1>1, <1>2, <2>2 DEF RowsAreBrought
  <1>4. IsFiniteSet(1 .. MaxDays)
    BY FS_Interval, ArcadeConstantsAreNat
  <1>5. SumFunctionOnSet(f, 1 .. MaxDays) <= SumFunctionOnSet(g, 1 .. MaxDays)
    BY <1>3, <1>4, SumGrows
  <1>6. /\ Indexed(field) = SumFunctionOnSet(f, 1 .. MaxDays)
        /\ Indexed(field) \in Nat
    BY <1>1, <1>2, IndexedIsNat DEF Indexed
  <1>7. Brought(field) = SumFunctionOnSet(g, 1 .. MaxDays)
    BY <1>2 DEF Brought
  <1>8. QED
    BY <1>5, <1>6, <1>7

LEMMA CoverFollows ==
  ASSUME ArcadeInv
  PROVE  MetricsFollowTheChain
  <1> SUFFICES ASSUME DeployBlock > 0, NEW field \in Fields
               PROVE  /\ overlaps = 0 => EventsIn(1, lastIndexed)[field] <= Indexed(field)
                      /\ Indexed(field)
                           <= (1 + restarts + overlaps) * EventsIn(1, Len(blocks))[field]
    BY DEF MetricsFollowTheChain
  <1>1. /\ blocks \in Seq(Counts) /\ Len(blocks) \in Nat /\ PollsAreCurrent
        /\ lastIndexed \in Nat /\ overlaps \in Nat /\ restarts \in Nat
        /\ Reached \in Nat /\ Reached < Len(blocks)
        /\ Laggards \in Nat /\ Laggards <= overlaps
    BY ArcadeFacts
  <1>2. /\ Brought(field) \in Nat /\ AllBehind(field) \in Nat
        /\ EventsIn(1, Reached)[field] \in Nat /\ EventsIn(1, Len(blocks))[field] \in Nat
        /\ EventsIn(1, Reached)[field] <= EventsIn(1, Len(blocks))[field]
        /\ AllBehind(field) <= Laggards * EventsIn(1, Len(blocks))[field]
    BY ArcadeFacts
  <1>3. Indexed(field) \in Nat /\ Indexed(field) <= Brought(field)
    BY IndexedIsBrought
  <1>4. overlaps = 0 => EventsIn(1, lastIndexed)[field] <= Indexed(field)
    <2>1. SUFFICES ASSUME overlaps = 0
                   PROVE  EventsIn(1, lastIndexed)[field] <= Indexed(field)
      OBVIOUS
    <2>2. lastIndexed <= Reached /\ Reached <= Len(blocks)
      BY <1>1, <2>1, ReachedIs
    <2>3. /\ EventsIn(1, lastIndexed)[field] \in Nat
          /\ EventsIn(1, lastIndexed)[field] <= EventsIn(1, Reached)[field]
      BY <1>1, <2>2, EventsGrow
    <2>4. EventsIn(1, Reached)[field] <= Indexed(field)
      BY <2>1 DEF ArcadeInv, MetricsCover
    <2>5. QED
      BY <1>2, <1>3, <2>3, <2>4
  <1>5. Indexed(field) <= (1 + restarts + overlaps) * EventsIn(1, Len(blocks))[field]
    <2>1. PICK k \in Nat : k = restarts + overlaps - Laggards
      BY <1>1
    <2>2. Brought(field) <= k * EventsIn(1, Len(blocks))[field]
                              + AllBehind(field) + EventsIn(1, Reached)[field]
      BY <2>1 DEF ArcadeInv, BroughtBounded, BroughtBound
    <2>3. PICK laggards \in Nat, all \in Nat, was \in Nat, behind \in Nat, reached \in Nat :
            /\ laggards = Laggards
            /\ all = EventsIn(1, Len(blocks))[field] /\ was = Brought(field)
            /\ behind = AllBehind(field) /\ reached = EventsIn(1, Reached)[field]
      BY <1>1, <1>2
    <2>4. was <= (k + laggards + 1) * all
      <3>1. /\ was <= k * all + behind + reached
            /\ behind <= laggards * all /\ reached <= all
        BY <1>2, <2>2, <2>3
      <3>2. QED
        BY <3>1, BoundRestarts
    <2>5. k + laggards + 1 = 1 + restarts + overlaps
      BY <1>1, <2>1, <2>3
    <2>6. PICK bound \in Nat : bound = (k + laggards + 1) * all
      BY MoreOfAll
    <2>7. (1 + restarts + overlaps) * EventsIn(1, Len(blocks))[field] = bound
      BY <2>3, <2>5, <2>6
    <2>8. QED
      BY <1>3, <2>3, <2>4, <2>6, <2>7
  <1>6. QED
    BY <1>4, <1>5

(* As long as the backend is not restarted and no poll begins before the   *)
(* last one has ended, every event of the blocks indexed so far is counted *)
(* once, by all its fields.                                                *)
CountedOnce ==
  DeployBlock > 0 /\ restarts = 0 /\ overlaps = 0 /\ (\A p \in Polls : poll[p].stage # "move") =>
    \A field \in Fields : Indexed(field) = EventsIn(1, lastIndexed)[field]

LEMMA CoverCounts ==
  ASSUME ArcadeInv
  PROVE  CountedOnce
  <1> SUFFICES ASSUME DeployBlock > 0, restarts = 0, overlaps = 0,
                      \A p \in Polls : poll[p].stage # "move", NEW field \in Fields
               PROVE  Indexed(field) = EventsIn(1, lastIndexed)[field]
    BY DEF CountedOnce
  <1>1. /\ blocks \in Seq(Counts) /\ Len(blocks) \in Nat /\ PollsAreCurrent
        /\ lastIndexed \in Nat
    BY ArcadeFacts
  <1>2. /\ Brought(field) \in Nat
        /\ EventsIn(1, Reached)[field] \in Nat /\ EventsIn(1, Len(blocks))[field] \in Nat
    BY ArcadeFacts
  <1>3. Indexed(field) \in Nat /\ Indexed(field) <= Brought(field)
    BY IndexedIsBrought
  <1>4. \A p \in Polls : ~Lags(p)
    BY <1>1 DEF PollsAreCurrent
  <1>5. Laggards = 0 /\ AllBehind(field) = 0
    BY <1>1, <1>4, SumsAre
  <1>6. Reached = lastIndexed
    <2>1. CASE \A p \in Polls : ~Leads(p)
      BY <1>1, <2>1, ReachedIs
    <2>2. ASSUME NEW p \in Polls, Leads(p) PROVE Reached = lastIndexed
      <3>1. BeganFirst(p) /\ Reached = DoneTo(poll[p])
        BY <1>1, <2>2, ReachedIs DEF PollsAreCurrent
      <3>2. poll[p].from = lastIndexed + 1
        BY <3>1 DEF BeganFirst
      <3>3. DoneTo(poll[p]) = poll[p].from - 1
        BY DEF DoneTo
      <3>4. QED
        BY <1>1, <3>1, <3>2, <3>3
    <2>3. QED
      BY <2>1, <2>2
  <1>7. Brought(field) <= EventsIn(1, Reached)[field]
    <2>1. BroughtBound(field) = (0 + 0 - 0) * EventsIn(1, Len(blocks))[field] + 0
                                  + EventsIn(1, Reached)[field]
      BY <1>5 DEF BroughtBound
    <2>2. Brought(field) <= BroughtBound(field)
      BY DEF ArcadeInv, BroughtBounded
    <2>3. QED
      BY <1>2, <2>1, <2>2
  <1>8. EventsIn(1, Reached)[field] <= Indexed(field)
    BY DEF ArcadeInv, MetricsCover
  <1>9. QED
    BY <1>2, <1>3, <1>6, <1>7, <1>8

(* The indexer counts every event once while it is not restarted and its   *)
(* polls do not overlap, though polls fail and days pass between its reads *)
(* and its writes.                                                         *)
THEOREM EventsAreCountedOnce == ArcadeSpec => []CountedOnce
  <1>1. ArcadeInv => CountedOnce
    BY CoverCounts
  <1>2. QED
    BY <1>1, ArcadeSafety, PTL

(* Without an overlap the metrics miss no event of an indexed block; an    *)
(* event is counted once more for a restart or an overlap at most, whatever*)
(* polls fail or overlap and whenever days pass, for any chain and any     *)
(* number of polls under way together.                                     *)
THEOREM MetricsAlwaysFollow == ArcadeSpec => []MetricsFollowTheChain
  <1>1. ArcadeInv => MetricsFollowTheChain
    BY CoverFollows
  <1>2. QED
    BY <1>1, ArcadeSafety, PTL
=============================================================================
