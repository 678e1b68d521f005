-------------------------- MODULE MCOnChainArcade --------------------------
(***************************************************************************)
(* Amounts whose hook fees are 1 and 3 tokens, so that every floor of the  *)
(* split leaves something, and credits of one and three entries.           *)
(***************************************************************************)
EXTENDS OnChainArcade, TLC

CONSTANTS a1, a2, p1, p2

MCSplits == {[treasury |-> 7000, jackpot |-> 2000, ecosystem |-> 1000],
             [treasury |-> 3334, jackpot |-> 3333, ecosystem |-> 3333]}
(* Bound: the escrow and the claims, which the hook never sees, are        *)
(* explored while the indexer waits for its first block; once two polls    *)
(* have overlapped, one account swaps, at the split of the deployment.     *)
Apart ==
  \/ Len(blocks) = 1 /\ today = 1 /\ restarts = 0
  \/ /\ pool.state = "none" /\ claimed = {} /\ \A a \in Accounts : root[a] = 0
     /\ overlaps = 0 \/ (credits[a2] = 0 /\ split = DefaultSplit)

PollsAlike == Permutations(Polls)

MCRoots == {[a \in Accounts |-> 0], [a \in Accounts |-> 1], [a \in Accounts |-> IF a = a1 THEN 2 ELSE 0]}
=============================================================================
