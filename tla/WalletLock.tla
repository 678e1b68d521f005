----------------------------- MODULE WalletLock -----------------------------
(***************************************************************************)
(* The lock around the wallet (apps/web/lib/wagmi/okxAuth.ts): every       *)
(* request to the extension waits for the one before it, by a chain of     *)
(* promises.  Disconnecting starts a new chain and leaves the old one to   *)
(* itself.                                                                 *)
(*                                                                         *)
(* A chain is the sequence of the calls that have not come to their end;   *)
(* the first of them runs.  sendOkxTransaction takes the lock again, for   *)
(* ensureOkxXLayerChain, while it holds it.                                *)
(***************************************************************************)
EXTENDS Naturals, Sequences, FiniteSets, SequencesExt

CONSTANTS
  MaxCalls,        \* bound: calls that are in one chain
  MaxDisconnects   \* bound: how often the chain is started anew

ASSUME LockConstants == {MaxCalls, MaxDisconnects} \subseteq Nat

VARIABLE chains    \* the chains, the last of which is walletRequestChain

Chains == DOMAIN chains
Current == Len(chains)
Running(i) == chains[i] # << >>
Holder(i) == Head(chains[i])

(* withWalletLock.                                                         *)
CanCall == Len(chains[Current]) < MaxCalls
Queued(calls) == [chains EXCEPT ![Current] = @ \o calls]

(* Mutation: a call that fails is waited for by the next one for ever.     *)
ReleasedUnlessRejected(i, answered) ==
  IF answered THEN [chains EXCEPT ![i] = Tail(@)] ELSE chains

(* The call that holds the lock of chain i comes to its end, whether it is *)
(* answered or fails.                                                      *)
Released(i, answered) == [chains EXCEPT ![i] = Tail(@)]

(* Mutation: the answers under way are not dropped.                        *)
ForgottenNone(calls) == calls

(* The calls that look at accounts are not wanted any more.                *)
Forgotten(calls) ==
  [k \in DOMAIN calls |-> IF calls[k].kind = "read" THEN [calls[k] EXCEPT !.wanted = FALSE]
                          ELSE calls[k]]

(* walletRequestChain = Promise.resolve().                                 *)
ResetChain == Append([i \in Chains |-> Forgotten(chains[i])], << >>)

(* sendOkxTransaction holds the lock and asks for it again.                *)
EnsureChain(i) ==
  /\ Running(i) /\ Holder(i).kind = "send" /\ Holder(i).stage = "started"
  /\ chains' = [j \in Chains |->
       LET calls == IF j = i THEN [chains[i] EXCEPT ![1].stage = "switching"] ELSE chains[j]
       IN  IF j = Current THEN Append(calls, [kind |-> "ensure", for |-> i]) ELSE calls]

(* ensureOkxXLayerChain ends: on the right chain, switched, or refused, in *)
(* which case sendOkxTransaction fails too.                                *)
ChainIsEnsured(i, ok) ==
  /\ Running(i) /\ Holder(i).kind = "ensure"
  /\ LET j == Holder(i).for
         rest == Released(i, ok)
     IN  chains' = [rest EXCEPT ![j] = IF ok THEN [@ EXCEPT ![1].stage = "asked"] ELSE Tail(@)]

(* The user confirms the transaction or rejects it.                        *)
SendIsAnswered(i) ==
  /\ Running(i) /\ Holder(i).kind = "send" /\ Holder(i).stage = "asked"
  /\ \E ok \in BOOLEAN : chains' = Released(i, ok)

LockStep(i) ==
  \/ EnsureChain(i)
  \/ (\E ok \in BOOLEAN : ChainIsEnsured(i, ok))
  \/ SendIsAnswered(i)

(* A chain that was not started yet has no calls.                          *)
ChainOf(i) == IF i \in Chains THEN chains[i] ELSE << >>

(* A swap, or the switch of the network that a swap waits for, is what the *)
(* calls of the chain wait for.                                            *)
BehindSwap(i) == ChainOf(i) # << >> /\ Head(ChainOf(i)).kind \in {"send", "ensure"}
=============================================================================
