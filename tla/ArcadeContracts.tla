--------------------------- MODULE ArcadeContracts ---------------------------
(***************************************************************************)
(* The contracts on the chain (packages/contracts/src): OKB is swapped     *)
(* through the hooked pool for credits, the hook sends its fee to the      *)
(* vault, credits are burned to enter tournaments and minted by claims.    *)
(*                                                                         *)
(* A transaction is atomic and reverts as a whole: a require is a guard.   *)
(***************************************************************************)
EXTENDS Naturals, FiniteSets, FiniteSetsExt

CONSTANTS
  Accounts,
  Amounts,          \* the OKB somebody may send
  Prices,           \* okbUsdPriceE8
  CreditScale,      \* OKB_WEI_SCALE * USD_PRICE_SCALE
  Splits,           \* the splits the owner may set, in basis points
  MaxMinted,        \* bound: credits that are minted
  Roots             \* the reward lists whose Merkle root the owner may set

CREDITS_PER_USD == 25
BPS == 10000
HOOK_SWAP_FEE_BPS == 500

DefaultSplit == [treasury |-> 7000, jackpot |-> 2000, ecosystem |-> 1000]

ASSUME ContractConstants ==
  /\ Amounts \subseteq Nat \ {0} /\ Prices \subseteq Nat \ {0}
  /\ CreditScale \in Nat \ {0}
  /\ MaxMinted \in Nat
  /\ DefaultSplit \in Splits
  /\ Splits \subseteq [treasury : Nat, jackpot : Nat, ecosystem : Nat]
  /\ \A s \in Splits : s.treasury + s.jackpot + s.ecosystem = BPS
  /\ Roots \subseteq [Accounts -> Nat]

VARIABLES
  credits,          \* CreditManager.credits
  minted, burned,   \* CreditManager.totalMinted, totalBurned
  price,            \* SwapCreditRouter.okbUsdPriceE8
  okb,              \* the OKB of the router, the pool and the vault
  quote,            \* the quote tokens of the vault
  liquidity,        \* external: the OKB the pool can take before its price limit
  split,            \* FRXArcadeHook: the three shares
  hook,             \* FRXArcadeHook: its four counters
  vault             \* TreasuryVault.totalDeposited, totalWithdrawn

swapping == <<price, okb, quote, liquidity, split, hook, vault>>
ledger == <<credits, minted, burned>>
contracts == <<ledger, swapping>>

NoRouting == [swaps |-> 0, routed |-> 0, jackpot |-> 0, ecosystem |-> 0]

ContractsTypeOK ==
  /\ credits \in [Accounts -> Nat]
  /\ minted \in Nat /\ burned \in Nat
  /\ price \in Prices \cup {0}
  /\ okb \in [{"router", "pool", "vault"} -> Nat]
  /\ quote \in Nat /\ liquidity \in Nat
  /\ split \in Splits
  /\ hook \in [swaps : Nat, routed : Nat, jackpot : Nat, ecosystem : Nat]
  /\ vault \in [deposited : Nat, withdrawn : Nat]

ContractsInit ==
  /\ credits = [a \in Accounts |-> 0]
  /\ minted = 0 /\ burned = 0
  /\ price = 0
  /\ okb = [holder \in {"router", "pool", "vault"} |-> 0]
  /\ quote = 0
  /\ liquidity = 0
  /\ split = DefaultSplit
  /\ hook = NoRouting
  /\ vault = [deposited |-> 0, withdrawn |-> 0]

-----------------------------------------------------------------------------
(* CreditManager.                                                          *)

(* Mutation: the total is not counted.                                     *)
MintCreditsUncounted(account, amount) ==
  /\ amount > 0
  /\ credits' = [credits EXCEPT ![account] = @ + amount]
  /\ UNCHANGED <<minted, burned>>

MintCredits(account, amount) ==
  /\ amount > 0
  /\ credits' = [credits EXCEPT ![account] = @ + amount]
  /\ minted' = minted + amount
  /\ UNCHANGED burned

BurnCredits(account, amount) ==
  /\ credits[account] >= amount
  /\ credits' = [credits EXCEPT ![account] = @ - amount]
  /\ burned' = burned + amount
  /\ UNCHANGED minted

-----------------------------------------------------------------------------
(* FRXArcadeHook.afterSwap: a share of the swap's output, in three parts,  *)
(* of which the last takes what the floors leave.                          *)
HookFee(output) == (output * HOOK_SWAP_FEE_BPS) \div BPS

(* Mutation: the reserve is floored too.                                   *)
RouteWithThreeFloors(fee) ==
  [treasury  |-> (fee * split.treasury) \div BPS,
   jackpot   |-> (fee * split.jackpot) \div BPS,
   ecosystem |-> (fee * split.ecosystem) \div BPS]

Route(fee) ==
  LET treasury == (fee * split.treasury) \div BPS
      jackpot  == (fee * split.jackpot) \div BPS
  IN  [treasury |-> treasury, jackpot |-> jackpot, ecosystem |-> fee - treasury - jackpot]

(* What SwapRouted reports of a fee.                                       *)
SwapRouted(fee) == Route(fee)

AfterSwap(output) ==
  LET fee  == HookFee(output)
      part == Route(fee)
  IN  IF fee = 0 THEN UNCHANGED <<hook, quote>>
      ELSE /\ hook' = [swaps |-> hook.swaps + 1, routed |-> hook.routed + fee,
                       jackpot |-> hook.jackpot + part.jackpot,
                       ecosystem |-> hook.ecosystem + part.ecosystem]
           /\ quote' = quote + part.treasury + part.jackpot + part.ecosystem

(* SwapCreditRouter.                                                       *)
ComputeCredits(okbIn) == (okbIn * price * CREDITS_PER_USD) \div CreditScale

SetOkbUsdPrice(p) ==
  /\ price' = p
  /\ UNCHANGED <<ledger, okb, quote, liquidity, split, hook, vault>>

Lesser(a, b) == IF a < b THEN a ELSE b

(* What the pool takes of okbIn; it pays one quote token for each OKB, the *)
(* price it is deployed with.  The rest stays in the router.               *)
Spent(okbIn) == Lesser(okbIn, liquidity)

SwapForCredits(u, okbIn) ==
  /\ minted < MaxMinted
  /\ price > 0
  /\ ComputeCredits(okbIn) > 0
  /\ MintCredits(u, ComputeCredits(okbIn))
  /\ IF liquidity = 0
       THEN /\ okb' = [okb EXCEPT !.router = @ + okbIn]
            /\ UNCHANGED <<hook, quote, liquidity>>
       ELSE /\ okb' = [okb EXCEPT !.pool = @ + Spent(okbIn), !.router = @ + okbIn - Spent(okbIn)]
            /\ AfterSwap(Spent(okbIn))
            /\ liquidity' = liquidity - Spent(okbIn)
  /\ UNCHANGED <<price, split, vault>>

SetSplit(s) ==
  /\ split' = s
  /\ UNCHANGED <<ledger, price, okb, quote, liquidity, hook, vault>>

(* External: the owner adds liquidity to the pool, or withdraws it.        *)
ChangeLiquidity(amount) ==
  /\ liquidity' = amount
  /\ UNCHANGED <<ledger, price, okb, quote, split, hook, vault>>

-----------------------------------------------------------------------------
(* TreasuryVault, in OKB: anybody deposits, the owner withdraws.           *)
DepositToVault(amount) ==
  /\ okb' = [okb EXCEPT !.vault = @ + amount]
  /\ vault' = [vault EXCEPT !.deposited = @ + amount]
  /\ UNCHANGED <<ledger, price, quote, liquidity, split, hook>>

WithdrawTo(amount) ==
  /\ okb.vault >= amount
  /\ okb' = [okb EXCEPT !.vault = @ - amount]
  /\ vault' = [vault EXCEPT !.withdrawn = @ + amount]
  /\ UNCHANGED <<ledger, price, quote, liquidity, split, hook>>
=============================================================================
