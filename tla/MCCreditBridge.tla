--------------------------- MODULE MCCreditBridge ---------------------------
(***************************************************************************)
(* At prices 4 and 8 an amount of 10 is worth no credit or one, one of 40  *)
(* two or four, and two credits are worth 40 OKB or 20.  The hook takes no *)
(* fee of 10.                                                              *)
(***************************************************************************)
EXTENDS CreditBridge, TLC

CONSTANTS r1, r2

MCSplits == {DefaultSplit}
RequestSymmetry == Permutations(Requests)

(* Bound: nobody adds liquidity once there is the one swap; nothing but    *)
(* another swap would notice.                                              *)
PoolRests == \A t \in Txs : swap[t] # None => liquidity \notin Amounts

(* Bound: withdrawals are explored before there is a swap and before the   *)
(* price sync has run, swaps while nothing is withdrawn.  The two meet in  *)
(* the balance alone, which each of them only adds to and takes from.      *)
Apart ==
  \/ /\ \A r \in Requests : request[r].stage \notin WithdrawStages
     /\ payouts = {} /\ vault.deposited = 0
     /\ \A u \in Accounts : withdrawn[u] = 0
     /\ \A k \in DOMAIN outcome : outcome[k] = 0
  \/ dialog = Closed /\ minted = 0 /\ price = 0 /\ syncing = {} /\ liquidity = 0
=============================================================================
