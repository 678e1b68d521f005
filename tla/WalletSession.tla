---------------------------- MODULE WalletSession ----------------------------
(***************************************************************************)
(* Connecting the wallet and signing in: the hook useWalletAuth as it is   *)
(* mounted in several components of a page, the wallet extension and wagmi *)
(* beside it, the session store, and the backend that hands out challenges *)
(* and verifies their signatures (routes/auth.ts, lib/auth.ts).            *)
(*                                                                         *)
(* Each mounted component keeps a linked wallet of its own (the modal is   *)
(* never the only one: app/layout.tsx mounts DepositModal too); the        *)
(* session, the challenges and the flag of a disconnect are shared.        *)
(* Effects run with the render that makes them due, before any other event.*)
(***************************************************************************)
EXTENDS WalletLock, FiniteSetsExt

CONSTANTS
  None,
  Wallets,      \* the accounts the user has in the extension
  Hooks,        \* the components on the page that use the hook
  Modal,        \* the one of them in which the user connects
  MaxNonces,    \* bound: challenges that are handed out
  MaxPosts,     \* bound: requests to the backend at one time
  MaxReloads    \* bound: how often the page is loaded again

ASSUME SessionConstants ==
  /\ IsFiniteSet(Hooks) /\ Modal \in Hooks /\ Hooks # {Modal}
  /\ {MaxNonces, MaxPosts, MaxReloads} \subseteq Nat
  /\ None \notin Wallets

VARIABLES
  linked,       \* linkedWallet of each component
  disconnected, \* the flag in localStorage: manually disconnected
  session,      \* the wallet of the session store's token
  challenge,    \* challengeByWallet: the nonce that is cached
  wagmi,        \* external: wagmi's status and address
  permitted,    \* external: the account the extension lets this site see
  news,         \* external: the extension has something to tell wagmi
  leaving,      \* signOut: what it still waits for
  converting,   \* the components whose handleConvert has yet to send its swap
  posts,        \* requests to the backend
  nonces,       \* AuthNonce
  issued,       \* history: the tokens that were issued for each nonce
  reloads

browser == <<chains, linked, disconnected, session, challenge, leaving>>
outside == <<wagmi, permitted, news>>
backend == <<posts, nonces, issued>>
walletVars == <<browser, outside, backend, converting, reloads>>

Account == Wallets \cup {None}
PostStages == {"create", "find", "mark", "accepted"}

(* What is asked of the extension under the lock, and by whom.             *)
Call ==
  [kind : {"read"}, by : Hooks, wanted : BOOLEAN]
    \cup [kind : {"connect"}, by : {Modal}]
    \cup [kind : {"sign"}, by : Hooks, wallet : Wallets, nonce : 1 .. MaxNonces]
    \cup [kind : {"send"}, by : Hooks, stage : {"started", "switching", "asked"}]
    \cup [kind : {"ensure"}, for : 1 .. MaxDisconnects + 1]

Post == [stage : PostStages, by : Hooks, wallet : Wallets, nonce : 0 .. MaxNonces,
         heard : BOOLEAN]
Nonce == [wallet : Wallets, state : {"fresh", "used", "expired"}]

WalletTypeOK ==
  /\ chains \in Seq(Seq(Call)) /\ Current \in 1 .. MaxDisconnects + 1
  /\ linked \in [Hooks -> Account]
  /\ disconnected \in BOOLEAN
  /\ session \in Account
  /\ challenge \in [Wallets -> 0 .. MaxNonces]
  /\ wagmi \in [status : {"connecting", "connected", "disconnected"}, address : Account]
  /\ permitted \in Account /\ news \in BOOLEAN
  /\ leaving \in {"no", "revoke", "logout"}
  /\ posts \subseteq Post
  /\ nonces \in Seq(Nonce)
  /\ issued \in [1 .. MaxNonces -> Nat]
  /\ converting \subseteq Hooks /\ reloads \in 0 .. MaxReloads

Reads == SetToSeq({[kind |-> "read", by |-> h, wanted |-> TRUE] : h \in Hooks})

WalletInit ==
  /\ chains = <<Reads>>
  /\ linked = [h \in Hooks |-> None]
  /\ disconnected = FALSE
  /\ session = None
  /\ challenge = [w \in Wallets |-> 0]
  /\ wagmi = [status |-> "connecting", address |-> None]
  /\ permitted \in Account
  /\ news = FALSE
  /\ leaving = "no"
  /\ posts = {}
  /\ nonces = << >>
  /\ issued = [n \in 1 .. MaxNonces |-> 0]
  /\ converting = {} /\ reloads = 0

-----------------------------------------------------------------------------
(* What a component shows.                                                 *)
Active(h) ==
  IF disconnected THEN None ELSE IF wagmi.address # None THEN wagmi.address ELSE linked[h]

(* The effects that end a session: nobody is connected, or somebody else.  *)
NobodyConnected(h) ==
  /\ wagmi.status = "disconnected"
  /\ session # None
  /\ linked[h] = None

(* Mutation: the wallet that was linked is compared, not the active one.   *)
MismatchLinked(h) ==
  /\ session # None
  /\ linked[h] # None
  /\ session # linked[h]

Mismatch(h) ==
  /\ session # None
  /\ Active(h) # None
  /\ session # Active(h)

EffectsDue == \E h \in Hooks : NobodyConnected(h) \/ Mismatch(h)

EndSession ==
  /\ EffectsDue
  /\ session' = None
  /\ wagmi' = IF \E h \in Hooks : Mismatch(h)
                THEN [status |-> "disconnected", address |-> None] ELSE wagmi
  /\ UNCHANGED <<chains, linked, disconnected, challenge, leaving, permitted, news, backend,
                 converting, reloads>>

-----------------------------------------------------------------------------
(* Wagmi and the extension.  External.                                     *)

(* Wagmi comes to know of the extension's account: on loading the page, by *)
(* the extension's event, or by the sync after a sign-in.  The components  *)
(* link the address it knows.                                              *)
WagmiHears ==
  /\ news \/ wagmi.status = "connecting"
  /\ news' = FALSE
  /\ wagmi' = [status |-> IF permitted = None THEN "disconnected" ELSE "connected",
               address |-> permitted]
  /\ linked' = IF permitted = None \/ disconnected THEN linked ELSE [h \in Hooks |-> permitted]
  /\ UNCHANGED <<chains, disconnected, session, challenge, leaving, permitted, backend,
                 converting, reloads>>

(* The user changes the account, locks the extension or removes the site.  *)
SwitchAccount ==
  /\ permitted # None
  /\ permitted' \in Account \ {permitted}
  /\ news' = TRUE
  /\ UNCHANGED <<browser, wagmi, backend, converting, reloads>>

-----------------------------------------------------------------------------
(* The hook.                                                               *)
Asking(h) ==
  \/ \E i \in Chains : \E k \in DOMAIN chains[i] :
       chains[i][k].kind \in {"connect", "sign", "send"} /\ chains[i][k].by = h
  \/ \E p \in posts : p.by = h /\ p.heard /\ p.stage # "create"
  \/ h \in converting

(* readOkxAccounts for the effect that runs on mounting and when the flag  *)
(* of the disconnect changes, which also drops the answer under way.       *)
ReadIsAnswered(i) ==
  /\ Running(i) /\ Holder(i).kind = "read"
  /\ linked' = IF Holder(i).wanted /\ permitted # None
                 THEN [linked EXCEPT ![Holder(i).by] = permitted] ELSE linked
  /\ chains' = Released(i, TRUE)
  /\ UNCHANGED <<disconnected, session, challenge, leaving, outside, backend, converting,
                 reloads>>

(* connectWallet, with requestOkxAccounts.  Clearing the flag has the      *)
(* components read the accounts, by effects that run after the handler.    *)
ConnectWallet ==
  /\ Active(Modal) = None /\ session = None
  /\ ~Asking(Modal)
  /\ CanCall
  /\ disconnected' = FALSE
  /\ chains' = Queued(<<[kind |-> "connect", by |-> Modal]>>
                      \o (IF disconnected THEN Reads ELSE << >>))
  /\ linked' = IF disconnected /\ wagmi.address # None
                 THEN [h \in Hooks |-> wagmi.address] ELSE linked
  /\ UNCHANGED <<session, challenge, leaving, outside, backend, converting, reloads>>

(* The user chooses an account or closes the popup.                        *)
ConnectIsAnswered(i) ==
  /\ Running(i) /\ Holder(i).kind = "connect"
  /\ \/ \E w \in Wallets :
          /\ permitted' = w
          /\ linked' = [linked EXCEPT ![Holder(i).by] = w]
          /\ news' = TRUE
          /\ chains' = Released(i, TRUE)
     \/ /\ chains' = Released(i, FALSE)
        /\ UNCHANGED <<permitted, linked, news>>
  /\ UNCHANGED <<disconnected, session, challenge, leaving, wagmi, backend, converting, reloads>>

(* prefetchSignInChallenge: a cached challenge is good enough.             *)
Prefetch(h) ==
  /\ Active(h) # None /\ session = None
  /\ challenge[Active(h)] = 0
  /\ Cardinality(posts) < MaxPosts
  /\ Len(nonces) + Cardinality({p \in posts : p.stage = "create"}) < MaxNonces
  /\ ~\E p \in posts : p.by = h /\ p.stage = "create"
  /\ posts' = posts \cup {[stage |-> "create", by |-> h, wallet |-> Active(h), nonce |-> 0,
                           heard |-> TRUE]}
  /\ UNCHANGED <<browser, outside, nonces, issued, converting, reloads>>

(* POST /api/auth/challenge and its answer.                                *)
ChallengeArrives(p) ==
  /\ p.stage = "create"
  /\ posts' = posts \ {p}
  /\ nonces' = Append(nonces, [wallet |-> p.wallet, state |-> "fresh"])
  /\ challenge' = IF p.heard THEN [challenge EXCEPT ![p.wallet] = Len(nonces')] ELSE challenge
  /\ UNCHANGED <<chains, linked, disconnected, session, leaving, outside, issued, converting,
                 reloads>>

(* signIn: the wallet is linked, the session of another one dropped, and   *)
(* the challenge signed.                                                   *)
SignIn(h) ==
  LET w == Active(h)
  IN  /\ w # None /\ session # w
      /\ challenge[w] # 0
      /\ ~Asking(h) /\ CanCall
      /\ chains' = Queued(<<[kind |-> "sign", by |-> h, wallet |-> w, nonce |-> challenge[w]]>>)
      /\ linked' = [linked EXCEPT ![h] = w]
      /\ session' = None
      /\ UNCHANGED <<disconnected, challenge, leaving, outside, backend, converting, reloads>>

SignIsAnswered(i) ==
  /\ Running(i) /\ Holder(i).kind = "sign"
  /\ LET me == Holder(i)
     IN  \/ /\ permitted = me.wallet
            /\ Cardinality(posts) < MaxPosts
            /\ posts' = posts \cup {[stage |-> "find", by |-> me.by, wallet |-> me.wallet,
                                     nonce |-> me.nonce, heard |-> TRUE]}
            /\ chains' = Released(i, TRUE)
         \/ /\ chains' = Released(i, FALSE)
            /\ UNCHANGED posts
  /\ UNCHANGED <<linked, disconnected, session, challenge, leaving, outside, nonces, issued,
                 converting, reloads>>

(* handleConvert when wagmi has no client for the wallet, up to its first  *)
(* await: the session is that of the active wallet.                        *)
Convert(h) ==
  /\ session # None /\ Active(h) = session
  /\ wagmi.address = None
  /\ ~Asking(h)
  /\ converting' = converting \cup {h}
  /\ UNCHANGED <<browser, outside, backend, reloads>>

(* The swap was simulated: it is sent, whatever has become of the session, *)
(* or not when the simulation failed.                                      *)
SendTransaction(h) ==
  /\ h \in converting
  /\ converting' = converting \ {h}
  /\ \/ /\ CanCall
        /\ chains' = Queued(<<[kind |-> "send", by |-> h, stage |-> "started"]>>)
     \/ UNCHANGED chains
  /\ UNCHANGED <<linked, disconnected, session, challenge, leaving, outside, backend, reloads>>

(* signOut, up to its first await.                                         *)
SignOut ==
  /\ ~disconnected /\ leaving = "no"
  /\ \E h \in Hooks : Active(h) # None
  /\ Current <= MaxDisconnects
  /\ session' = None
  /\ linked' = [h \in Hooks |-> None]
  /\ challenge' = [w \in Wallets |-> 0]
  /\ disconnected' = TRUE
  /\ chains' = ResetChain
  /\ leaving' = "revoke"
  /\ UNCHANGED <<outside, backend, converting, reloads>>

(* The extension has taken the permission back, unless it cannot; then     *)
(* wagmi is disconnected, and the logout is posted.                        *)
AccessIsRevoked ==
  /\ leaving = "revoke"
  /\ permitted' \in {permitted, None}
  /\ wagmi' = [status |-> "disconnected", address |-> None]
  /\ news' = FALSE
  /\ leaving' = "no"
  /\ UNCHANGED <<chains, linked, disconnected, session, challenge, backend, converting, reloads>>

ReloadPage ==
  /\ reloads < MaxReloads
  /\ reloads' = reloads + 1
  /\ chains' = <<IF disconnected THEN << >> ELSE Reads>>
  /\ linked' = [h \in Hooks |-> None]
  /\ challenge' = [w \in Wallets |-> 0]
  /\ leaving' = "no" /\ converting' = {}
  /\ wagmi' = [status |-> "connecting", address |-> None]
  /\ news' = FALSE
  /\ posts' = {[p EXCEPT !.heard = FALSE] : p \in posts}
  /\ UNCHANGED <<disconnected, session, permitted, nonces, issued>>

-----------------------------------------------------------------------------
(* POST /api/auth/verify.  A refusal changes nothing in the browser.       *)
Move(p, stage) == posts' = (posts \ {p}) \cup {[p EXCEPT !.stage = stage]}
VerifyElse == <<browser, outside, converting, reloads>>

(* Mutation: a used nonce is found too.                                    *)
UnusedOrUsed(n) == nonces[n].state # "expired"

Usable(n) == nonces[n].state = "fresh"

FindNonce(p) ==
  /\ p.stage = "find"
  /\ IF Usable(p.nonce) THEN Move(p, "mark") ELSE posts' = posts \ {p}
  /\ UNCHANGED <<nonces, issued, VerifyElse>>

(* The signature is good; the nonce is marked and the token made.          *)
MarkNonce(p) ==
  /\ p.stage = "mark"
  /\ nonces' = [nonces EXCEPT ![p.nonce].state = "used"]
  /\ issued' = [issued EXCEPT ![p.nonce] = @ + 1]
  /\ Move(p, "accepted")
  /\ UNCHANGED VerifyElse

(* completeSignIn goes on; after that wagmi is told.                       *)
VerifyIsAnswered(p) ==
  /\ p.stage = "accepted"
  /\ posts' = posts \ {p}
  /\ IF p.heard
       THEN /\ challenge' = [challenge EXCEPT ![p.wallet] = 0]
            /\ session' = p.wallet
            /\ news' = (news \/ (~disconnected /\ wagmi.address = None))
       ELSE UNCHANGED <<challenge, session, news>>
  /\ UNCHANGED <<chains, linked, disconnected, leaving, wagmi, permitted, nonces, issued,
                 converting, reloads>>

(* The connection is lost; the backend goes on.                            *)
PostIsLost(p) ==
  /\ p.heard
  /\ posts' = (posts \ {p}) \cup {[p EXCEPT !.heard = FALSE]}
  /\ UNCHANGED <<nonces, issued, VerifyElse>>

NonceExpires(n) ==
  /\ nonces[n].state = "fresh"
  /\ nonces' = [nonces EXCEPT ![n].state = "expired"]
  /\ UNCHANGED <<posts, issued, VerifyElse>>

-----------------------------------------------------------------------------
Answer(i) == ReadIsAnswered(i) \/ ConnectIsAnswered(i) \/ SignIsAnswered(i)
             \/ (LockStep(i) /\ UNCHANGED <<linked, disconnected, session, challenge, leaving,
                                            outside, backend, converting, reloads>>)

PostStep(p) == ChallengeArrives(p) \/ FindNonce(p) \/ MarkNonce(p) \/ VerifyIsAnswered(p)

Event ==
  \/ WagmiHears \/ SwitchAccount
  \/ \E i \in Chains : Answer(i)
  \/ ConnectWallet
  \/ \E h \in Hooks : Prefetch(h) \/ SignIn(h) \/ Convert(h) \/ SendTransaction(h)
  \/ SignOut \/ AccessIsRevoked \/ ReloadPage
  \/ \E p \in posts : PostStep(p) \/ PostIsLost(p)
  \/ \E n \in DOMAIN nonces : NonceExpires(n)

WalletNext == EndSession \/ (~EffectsDue /\ Event)

WalletSpec == WalletInit /\ [][WalletNext]_walletVars

(* Every popup is answered or closed, and the effects run.                 *)
WalletFairness ==
  /\ WF_walletVars(EndSession)
  /\ \A i \in 1 .. MaxDisconnects + 1 :
       WF_walletVars(~EffectsDue /\ i \in Chains /\ Answer(i))

FairWalletSpec == WalletSpec /\ WalletFairness

-----------------------------------------------------------------------------
(* Properties.                                                             *)

(* Disconnecting lasts, whatever was under way: a sign-in that is answered *)
(* after it does not leave a session behind, and of the components only    *)
(* the one in which a connect was still open has a wallet.                 *)
DisconnectSticks ==
  /\ WalletTypeOK
  /\ disconnected =>
       /\ \A h \in Hooks \ {Modal} : linked[h] = None
       /\ (leaving = "no" /\ wagmi.status = "disconnected" /\ ~EffectsDue) => session = None

(* Once wagmi knows the wallet of the session, the session ends by a       *)
(* sign-out, by a sign-in, or when wagmi hears of another account; the     *)
(* wallets the components had linked before do not end it.                 *)
SessionLasts ==
  [][(session # None /\ wagmi.address = session)
       => (session' = session \/ disconnected' \/ \E p \in posts : p \notin posts')]_walletVars

(* A challenge is answered with more than one token only to requests that  *)
(* were handled at the same time.                                          *)
NonceSpentByRacers == \A n \in 1 .. MaxNonces : issued[n] <= MaxPosts

(* The lock is passed on: a chain of wallet requests stands still for ever *)
(* only behind a swap.                                                     *)
LockIsPassedOn ==
  \A i \in 1 .. MaxDisconnects + 1 :
    \/ []<>(ChainOf(i) = << >>)
    \/ []<><<Len(ChainOf(i)') < Len(ChainOf(i))>>_chains
    \/ <>[]BehindSwap(i)

(* "swaps can still use sendOkxTransaction"                                *)
(* (apps/web/lib/wagmi/okxAuth.ts:184): a swap that is sent to the wallet  *)
(* is answered.                                                            *)
SwapsAreAnswered == \A i \in 1 .. MaxDisconnects + 1 : BehindSwap(i) ~> ~BehindSwap(i)
=============================================================================
