------------------------ MODULE WalletSessionProofs ------------------------
(***************************************************************************)
(* Why a disconnect lasts, a session is not ended by what the components   *)
(* had linked, and a challenge is answered to racers only, for any number  *)
(* of components, wallets, calls under the lock and requests.              *)
(***************************************************************************)
EXTENDS WalletSession, FiniteSetTheorems, SequenceTheorems, TLAPS

Swapping(call) == call.kind = "send" /\ call.stage = "switching"

(* Each switch of the network is waited for by a swap that holds the lock  *)
(* of the chain it was made for, and a swap makes one of them.             *)
Waited(c, f) == f \in DOMAIN c /\ c[f] # << >> /\ Swapping(c[f][1])

AllWaited(c) ==
  \A i \in DOMAIN c : \A k \in DOMAIN c[i] :
    c[i][k].kind = "ensure" => Waited(c, c[i][k].for)

AllDiffer(c) ==
  \A i, j \in DOMAIN c : \A k \in DOMAIN c[i] : \A l \in DOMAIN c[j] :
    (c[i][k].kind = "ensure" /\ c[j][l].kind = "ensure" /\ c[i][k].for = c[j][l].for)
      => i = j /\ k = l

SwapsWait(c) == AllWaited(c) /\ AllDiffer(c)

CallsIn(c) == UNION {{c[i][k] : k \in DOMAIN c[i]} : i \in DOMAIN c}

(* A signature is of a challenge that was made; after a disconnect nobody  *)
(* wants to know the accounts.                                             *)
CallsInv ==
  \A x \in CallsIn(chains) :
    /\ x.kind = "sign" => x.nonce \in 1 .. Len(nonces)
    /\ (x.kind = "read" /\ disconnected) => ~x.wanted

WagmiInv == wagmi.address # None => wagmi.status = "connected"

AwayInv == disconnected => \A h \in Hooks \ {Modal} : linked[h] = None

Marking(n) == {p \in posts : p.stage = "mark" /\ p.nonce = n}
Creating == {p \in posts : p.stage = "create"}

PostsInv ==
  /\ IsFiniteSet(posts) /\ Cardinality(posts) <= MaxPosts
  /\ Len(nonces) + Cardinality(Creating) <= MaxNonces
  /\ \A p \in posts : p.stage # "create" => p.nonce \in 1 .. Len(nonces)
  /\ \A w \in Wallets : challenge[w] <= Len(nonces)

(* The tokens of a nonce and the requests about to get one are never more  *)
(* than the requests there may be at one time.                             *)
NonceInv ==
  /\ \A n \in 1 .. MaxNonces :
       /\ issued[n] + Cardinality(Marking(n)) <= MaxPosts
       /\ n > Len(nonces) => issued[n] = 0
  /\ \A n \in 1 .. Len(nonces) : nonces[n].state = "fresh" => issued[n] = 0

WalletInv ==
  /\ WalletTypeOK /\ SwapsWait(chains) /\ CallsInv
  /\ WagmiInv /\ AwayInv /\ PostsInv /\ NonceInv

-----------------------------------------------------------------------------
(* The calls and the chains they are in.                                   *)

Stages == {"started", "switching", "asked"}

LEMMA SwapsChange ==
  ASSUME NEW x \in Call, x.kind = "send", NEW s \in Stages
  PROVE  /\ [x EXCEPT !.stage = s] \in Call
         /\ [x EXCEPT !.stage = s].kind = "send" /\ [x EXCEPT !.stage = s].stage = s
  <1>1. x \in [kind : {"send"}, by : Hooks, stage : {"started", "switching", "asked"}]
    BY DEF Call
  <1>2. [x EXCEPT !.stage = s] \in [kind : {"send"}, by : Hooks, stage : {"started", "switching", "asked"}]
    BY <1>1 DEF Stages
  <1>3. QED
    BY <1>1, <1>2 DEF Call

LEMMA ReadsAreForgotten ==
  ASSUME NEW x \in Call, x.kind = "read"
  PROVE  /\ [x EXCEPT !.wanted = FALSE] \in Call
         /\ [x EXCEPT !.wanted = FALSE].kind = "read" /\ ~[x EXCEPT !.wanted = FALSE].wanted
  <1>1. x \in [kind : {"read"}, by : Hooks, wanted : BOOLEAN]
    BY DEF Call
  <1>2. [x EXCEPT !.wanted = FALSE] \in [kind : {"read"}, by : Hooks, wanted : BOOLEAN]
    BY <1>1
  <1>3. QED
    BY <1>1, <1>2 DEF Call

(* A call is in a chain.                                                   *)
LEMMA CallIsThere ==
  \A c, x : x \in CallsIn(c) <=> \E i \in DOMAIN c : \E k \in DOMAIN c[i] : x = c[i][k]
  <1> SUFFICES ASSUME NEW c, NEW x
               PROVE  x \in CallsIn(c) <=> \E i \in DOMAIN c : \E k \in DOMAIN c[i] : x = c[i][k]
    OBVIOUS
  <1>1. x \in CallsIn(c) <=> \E i \in DOMAIN c : x \in {c[i][k] : k \in DOMAIN c[i]}
    BY DEF CallsIn
  <1>2. QED
    BY <1>1

(* What a chain of calls is, said once for the provers.                    *)
LEMMA ChainsTyped ==
  ASSUME NEW c \in Seq(Seq(Call)), NEW i \in DOMAIN c
  PROVE  /\ c[i] \in Seq(Call) /\ Len(c[i]) \in Nat /\ DOMAIN c[i] = 1 .. Len(c[i])
         /\ \A k \in DOMAIN c[i] : c[i][k] \in Call /\ c[i][k] \in CallsIn(c)
         /\ c[i] # << >> => 1 \in DOMAIN c[i] /\ Head(c[i]) = c[i][1]
  <1>1. DOMAIN c = 1 .. Len(c)
    BY LenProperties
  <1>2. c[i] \in Seq(Call)
    BY <1>1, ElementOfSeq
  <1>3. Len(c[i]) \in Nat /\ DOMAIN c[i] = 1 .. Len(c[i])
    BY <1>2, LenProperties
  <1>4. \A k \in DOMAIN c[i] : c[i][k] \in Call
    BY <1>2, <1>3, ElementOfSeq
  <1>5. \A k \in DOMAIN c[i] : c[i][k] \in CallsIn(c)
    BY CallIsThere
  <1>6. c[i] # << >> => 1 \in DOMAIN c[i] /\ Head(c[i]) = c[i][1]
    BY <1>2, <1>3, EmptySeq
  <1>7. QED
    BY <1>2, <1>3, <1>4, <1>5, <1>6

(* One chain of several is replaced.                                       *)
LEMMA ChainReplaced ==
  ASSUME NEW c \in Seq(Seq(Call)), NEW i \in DOMAIN c, NEW s \in Seq(Call), NEW d,
         d = [c EXCEPT ![i] = s]
  PROVE  /\ d \in Seq(Seq(Call)) /\ Len(d) = Len(c) /\ DOMAIN d = DOMAIN c
         /\ d[i] = s /\ \A j \in DOMAIN c \ {i} : d[j] = c[j]
  <1>1. DOMAIN c = 1 .. Len(c)
    BY LenProperties
  <1>2. d \in Seq(Seq(Call)) /\ Len(d) = Len(c)
    BY <1>1, ExceptSeq
  <1>3. DOMAIN d = DOMAIN c
    BY <1>1, <1>2, LenProperties
  <1>4. QED
    BY <1>2, <1>3

LEMMA CallsReplaced ==
  ASSUME NEW c, NEW i, NEW d, NEW S,
         DOMAIN d = DOMAIN c, \A j \in DOMAIN c \ {i} : d[j] = c[j],
         \A k \in DOMAIN d[i] : d[i][k] \in CallsIn(c) \/ d[i][k] \in S
  PROVE  \A x \in CallsIn(d) : x \in CallsIn(c) \/ x \in S
  <1> SUFFICES ASSUME NEW x \in CallsIn(d) PROVE x \in CallsIn(c) \/ x \in S
    OBVIOUS
  <1>1. PICK j \in DOMAIN d : \E k \in DOMAIN d[j] : x = d[j][k]
    BY CallIsThere
  <1>2. CASE j = i
    BY <1>1, <1>2
  <1>3. CASE j # i
    BY <1>1, <1>3, CallIsThere
  <1>4. QED
    BY <1>2, <1>3

Ended(c, i) == [c EXCEPT ![i] = Tail(@)]
Behind(c, i, calls) == [c EXCEPT ![i] = @ \o calls]

(* Calls that stay where they are differ as they did.                      *)
LEMMA SwitchesStay ==
  ASSUME NEW c, NEW d, DOMAIN d = DOMAIN c, AllDiffer(c),
         \A j \in DOMAIN d : \A k \in DOMAIN d[j] :
           d[j][k].kind = "ensure" => k \in DOMAIN c[j] /\ c[j][k] = d[j][k]
  PROVE  AllDiffer(d)
  BY DEF AllDiffer

(* A call that is no swap under way and no switch comes to its end.        *)
LEMMA CallEnds ==
  ASSUME NEW c \in Seq(Seq(Call)), SwapsWait(c), NEW i \in DOMAIN c, c[i] # << >>,
         c[i][1].kind # "ensure", ~Swapping(c[i][1]), NEW d, d = Ended(c, i)
  PROVE  /\ d \in Seq(Seq(Call)) /\ Len(d) = Len(c) /\ SwapsWait(d)
         /\ CallsIn(d) \subseteq CallsIn(c)
  <1>1. c[i] \in Seq(Call) /\ DOMAIN c[i] = 1 .. Len(c[i]) /\ Len(c[i]) \in Nat
    BY ChainsTyped
  <1>2. PICK t \in Seq(Call) : t = Tail(c[i])
    BY <1>1, HeadTailProperties
  <1>3. /\ DOMAIN t = 1 .. Len(c[i]) - 1
        /\ \A k \in DOMAIN t : t[k] = c[i][k + 1] /\ k + 1 \in DOMAIN c[i] /\ k \in Nat
    <2>1. Len(t) = Len(c[i]) - 1 /\ \A k \in 1 .. Len(t) : t[k] = c[i][k + 1]
      BY <1>1, <1>2, HeadTailProperties
    <2>2. DOMAIN t = 1 .. Len(t)
      BY LenProperties
    <2>3. QED
      BY <1>1, <2>1, <2>2
  <1>4. d = [c EXCEPT ![i] = t]
    BY <1>2 DEF Ended
  <1>5. /\ d \in Seq(Seq(Call)) /\ Len(d) = Len(c) /\ DOMAIN d = DOMAIN c
        /\ d[i] = t /\ \A j \in DOMAIN c \ {i} : d[j] = c[j]
    BY <1>4, ChainReplaced
  <1>6. CallsIn(d) \subseteq CallsIn(c)
    <2>1. \A k \in DOMAIN d[i] : d[i][k] \in CallsIn(c)
      BY <1>3, <1>5, ChainsTyped
    <2>2. \A x \in CallsIn(d) : x \in CallsIn(c) \/ x \in {}
      BY <1>5, <2>1, CallsReplaced
    <2>3. QED
      BY <2>2
  <1>7. SwapsWait(d)
    <2>1. ASSUME NEW j \in DOMAIN d, NEW k \in DOMAIN d[j], d[j][k].kind = "ensure"
          PROVE  Waited(d, d[j][k].for)
      <3>1. PICK l \in DOMAIN c[j] : d[j][k] = c[j][l]
        <4>1. CASE j = i
          BY <1>3, <1>5, <4>1
        <4>2. CASE j # i
          BY <1>5, <4>2
        <4>3. QED
          BY <4>1, <4>2
      <3>2. PICK f : f = c[j][l].for
        OBVIOUS
      <3>3. Waited(c, f)
        BY <1>5, <2>1, <3>1, <3>2 DEF SwapsWait, AllWaited
      <3>4. f # i
        BY <3>3 DEF Waited
      <3>5. QED
        BY <1>5, <3>1, <3>2, <3>3, <3>4 DEF Waited
    <2>2. ASSUME NEW j \in DOMAIN d, NEW k \in DOMAIN d[j], NEW m \in DOMAIN d, NEW l \in DOMAIN d[m],
                 d[j][k].kind = "ensure", d[m][l].kind = "ensure", d[j][k].for = d[m][l].for
          PROVE  j = m /\ k = l
      <3>1. PICK kk \in DOMAIN c[j] : d[j][k] = c[j][kk] /\ kk = (IF j = i THEN k + 1 ELSE k)
        BY <1>3, <1>5
      <3>2. PICK ll \in DOMAIN c[m] : d[m][l] = c[m][ll] /\ ll = (IF m = i THEN l + 1 ELSE l)
        BY <1>3, <1>5
      <3>3. c[j][kk].kind = "ensure" /\ c[m][ll].kind = "ensure" /\ c[j][kk].for = c[m][ll].for
        BY <2>2, <3>1, <3>2
      <3>4. j = m /\ kk = ll
        BY <1>5, <3>3 DEF SwapsWait, AllDiffer
      <3>5. k \in Int /\ l \in Int
        BY ChainsTyped, <1>5
      <3>6. QED
        BY <3>1, <3>2, <3>4, <3>5
    <2>3. AllWaited(d)
      BY <2>1 DEF AllWaited
    <2>4. AllDiffer(d)
      BY <2>2 DEF AllDiffer
    <2>5. QED
      BY <2>3, <2>4 DEF SwapsWait
  <1>8. QED
    BY <1>5, <1>6, <1>7

(* Calls that are no switch are queued behind the others.                  *)
LEMMA CallsQueue ==
  ASSUME NEW c \in Seq(Seq(Call)), SwapsWait(c), NEW i \in DOMAIN c, NEW new \in Seq(Call),
         \A k \in DOMAIN new : new[k].kind # "ensure", NEW d, d = Behind(c, i, new)
  PROVE  /\ d \in Seq(Seq(Call)) /\ Len(d) = Len(c) /\ SwapsWait(d)
         /\ \A x \in CallsIn(d) : x \in CallsIn(c) \/ \E k \in DOMAIN new : x = new[k]
  <1>1. c[i] \in Seq(Call) /\ DOMAIN c[i] = 1 .. Len(c[i]) /\ Len(c[i]) \in Nat
    BY ChainsTyped
  <1>2. PICK t \in Seq(Call) : t = c[i] \o new
    BY <1>1, ConcatProperties
  <1>3. Len(new) \in Nat /\ DOMAIN new = 1 .. Len(new)
    BY LenProperties
  <1>4. /\ DOMAIN t = 1 .. Len(c[i]) + Len(new)
        /\ \A k \in DOMAIN c[i] : k \in DOMAIN t /\ t[k] = c[i][k]
        /\ \A k \in DOMAIN t \ DOMAIN c[i] : \E l \in DOMAIN new : t[k] = new[l]
    <2>1. /\ Len(t) = Len(c[i]) + Len(new)
          /\ \A k \in 1 .. Len(c[i]) + Len(new) :
               t[k] = IF k <= Len(c[i]) THEN c[i][k] ELSE new[k - Len(c[i])]
      BY <1>1, <1>2, ConcatProperties
    <2>2. DOMAIN t = 1 .. Len(t)
      BY LenProperties
    <2>3. ASSUME NEW k \in DOMAIN t \ DOMAIN c[i]
          PROVE  \E l \in DOMAIN new : t[k] = new[l]
      <3>1. k - Len(c[i]) \in DOMAIN new /\ t[k] = new[k - Len(c[i])]
        BY <1>1, <1>3, <2>1, <2>2
      <3>2. QED
        BY <3>1
    <2>4. QED
      BY <1>1, <1>3, <2>1, <2>2, <2>3
  <1>5. d = [c EXCEPT ![i] = t]
    BY <1>2 DEF Behind
  <1>6. /\ d \in Seq(Seq(Call)) /\ Len(d) = Len(c) /\ DOMAIN d = DOMAIN c
        /\ d[i] = t /\ \A j \in DOMAIN c \ {i} : d[j] = c[j]
    BY <1>5, ChainReplaced
  <1>7. \A x \in CallsIn(d) : x \in CallsIn(c) \/ \E k \in DOMAIN new : x = new[k]
    <2> DEFINE S == {new[k] : k \in DOMAIN new}
    <2>1. ASSUME NEW k \in DOMAIN d[i] PROVE d[i][k] \in CallsIn(c) \/ d[i][k] \in S
      <3>1. CASE k \in DOMAIN c[i]
        <4>1. d[i][k] = c[i][k]
          BY <1>4, <1>6, <3>1
        <4>2. QED
          BY <3>1, <4>1, CallIsThere
      <3>2. CASE k \notin DOMAIN c[i]
        <4>1. PICK l \in DOMAIN new : t[k] = new[l]
          BY <1>4, <1>6, <3>2
        <4>2. QED
          BY <1>6, <4>1
      <3>3. QED
        BY <3>1, <3>2
    <2> HIDE DEF S
    <2>2. \A x \in CallsIn(d) : x \in CallsIn(c) \/ x \in S
      <3>1. DOMAIN d = DOMAIN c /\ \A j \in DOMAIN c \ {i} : d[j] = c[j]
        BY <1>6
      <3>2. \A k \in DOMAIN d[i] : d[i][k] \in CallsIn(c) \/ d[i][k] \in S
        BY <2>1
      <3>3. QED
        BY <3>1, <3>2, CallsReplaced
    <2>3. QED
      BY <2>2 DEF S
  <1>8. \A j \in DOMAIN d : \A k \in DOMAIN d[j] : d[j][k].kind = "ensure" =>
          k \in DOMAIN c[j] /\ c[j][k] = d[j][k]
    <2>1. ASSUME NEW j \in DOMAIN d, NEW k \in DOMAIN d[j], d[j][k].kind = "ensure"
          PROVE  k \in DOMAIN c[j] /\ c[j][k] = d[j][k]
      <3>1. CASE j = i /\ k \in DOMAIN c[i]
        BY <1>4, <1>6, <3>1
      <3>2. CASE j = i /\ k \notin DOMAIN c[i]
        <4>1. PICK l \in DOMAIN new : t[k] = new[l]
          BY <1>4, <1>6, <3>2
        <4>2. QED
          BY <1>6, <2>1, <3>2, <4>1
      <3>3. CASE j # i
        BY <1>6, <3>3
      <3>4. QED
        BY <3>1, <3>2, <3>3
    <2>2. QED
      BY <2>1
  <1>9. \A j \in DOMAIN c : c[j] # << >> => d[j] # << >> /\ d[j][1] = c[j][1]
    <2>1. ASSUME NEW j \in DOMAIN c, c[j] # << >> PROVE d[j] # << >> /\ d[j][1] = c[j][1]
      <3>1. 1 \in DOMAIN c[j]
        BY <2>1, ChainsTyped
      <3>2. 1 \in DOMAIN d[j] /\ d[j][1] = c[j][1]
        BY <1>4, <1>6, <3>1
      <3>3. QED
        BY <3>2
    <2>2. QED
      BY <2>1
  <1>10. SwapsWait(d)
    <2>1. ASSUME NEW j \in DOMAIN d, NEW k \in DOMAIN d[j], d[j][k].kind = "ensure"
          PROVE  Waited(d, d[j][k].for)
      <3>1. PICK f : f = c[j][k].for
        OBVIOUS
      <3>2. Waited(c, f) /\ d[j][k] = c[j][k]
        BY <1>6, <1>8, <2>1, <3>1 DEF SwapsWait, AllWaited
      <3>3. QED
        BY <1>6, <1>9, <3>1, <3>2 DEF Waited
    <2>2. AllWaited(d)
      BY <2>1 DEF AllWaited
    <2>3. AllDiffer(d)
      <3>1. DOMAIN d = DOMAIN c /\ AllDiffer(c)
        BY <1>6 DEF SwapsWait
      <3>2. QED
        BY <1>8, <3>1, SwitchesStay
    <2>4. QED
      BY <2>2, <2>3 DEF SwapsWait
  <1>11. QED
    BY <1>6, <1>7, <1>10

(* Disconnecting forgets the reads; the old chains go on as they are.      *)
LEMMA ChainIsForgotten ==
  ASSUME NEW s \in Seq(Call)
  PROVE  /\ Forgotten(s) \in Seq(Call) /\ DOMAIN Forgotten(s) = DOMAIN s
         /\ \A k \in DOMAIN s :
              /\ Forgotten(s)[k].kind = s[k].kind
              /\ s[k].kind # "read" => Forgotten(s)[k] = s[k]
              /\ s[k].kind = "read" => ~Forgotten(s)[k].wanted
  <1>1. Len(s) \in Nat /\ DOMAIN s = 1 .. Len(s) /\ \A k \in DOMAIN s : s[k] \in Call
    BY LenProperties, ElementOfSeq
  <1>2. PICK f : f = Forgotten(s)
    OBVIOUS
  <1>3. f = [k \in 1 .. Len(s) |->
               IF s[k].kind = "read" THEN [s[k] EXCEPT !.wanted = FALSE] ELSE s[k]]
    BY <1>1, <1>2 DEF Forgotten
  <1>4. ASSUME NEW k \in 1 .. Len(s)
        PROVE  /\ f[k] \in Call /\ f[k].kind = s[k].kind
               /\ s[k].kind # "read" => f[k] = s[k]
               /\ s[k].kind = "read" => ~f[k].wanted
    <2>1. CASE s[k].kind = "read"
      <3>1. f[k] = [s[k] EXCEPT !.wanted = FALSE]
        BY <1>3, <2>1
      <3>2. QED
        BY <1>1, <2>1, <3>1, ReadsAreForgotten
    <2>2. CASE s[k].kind # "read"
      BY <1>1, <1>3, <2>2
    <2>3. QED
      BY <2>1, <2>2
  <1>5. f \in Seq(Call) /\ DOMAIN f = 1 .. Len(s)
    BY <1>1, <1>3, <1>4
  <1>6. QED
    BY <1>1, <1>2, <1>4, <1>5

LEMMA ResetKeeps ==
  ASSUME chains \in Seq(Seq(Call)), SwapsWait(chains), NEW d, d = ResetChain
  PROVE  /\ d \in Seq(Seq(Call)) /\ Len(d) = Len(chains) + 1 /\ SwapsWait(d)
         /\ \A x \in CallsIn(d) :
              (x.kind = "read" => ~x.wanted) /\ (x.kind # "read" => x \in CallsIn(chains))
  <1>1. Len(chains) \in Nat /\ DOMAIN chains = 1 .. Len(chains)
        /\ \A i \in DOMAIN chains : chains[i] \in Seq(Call)
    BY LenProperties, ElementOfSeq
  <1>2. PICK m : m = [i \in 1 .. Len(chains) |-> Forgotten(chains[i])]
    OBVIOUS
  <1>3. m \in Seq(Seq(Call)) /\ Len(m) = Len(chains)
        /\ \A i \in DOMAIN chains : m[i] = Forgotten(chains[i])
    <2>1. \A i \in 1 .. Len(chains) : Forgotten(chains[i]) \in Seq(Call)
      BY <1>1, ChainIsForgotten
    <2>2. QED
      BY <1>1, <1>2, <2>1
  <1>4. d = Append(m, << >>)
    BY <1>1, <1>2 DEF ResetChain, Chains
  <1>5. /\ d \in Seq(Seq(Call)) /\ Len(d) = Len(chains) + 1
        /\ DOMAIN d = DOMAIN chains \cup {Len(chains) + 1}
        /\ d[Len(chains) + 1] = << >>
        /\ \A i \in DOMAIN chains : d[i] = Forgotten(chains[i])
    <2>1. << >> \in Seq(Call)
      OBVIOUS
    <2>2. d \in Seq(Seq(Call)) /\ Len(d) = Len(chains) + 1
      BY <1>3, <1>4, <2>1
    <2>3. DOMAIN d = 1 .. Len(chains) + 1
      BY <2>2, LenProperties
    <2>4. d[Len(chains) + 1] = << >> /\ \A i \in 1 .. Len(chains) : d[i] = m[i]
      BY <1>1, <1>3, <1>4
    <2>5. DOMAIN d = DOMAIN chains \cup {Len(chains) + 1}
      BY <1>1, <2>3
    <2>6. \A i \in DOMAIN chains : d[i] = Forgotten(chains[i])
      BY <1>1, <1>3, <2>4
    <2>7. QED
      BY <2>2, <2>4, <2>5, <2>6
  <1>6. ASSUME NEW i \in DOMAIN d, NEW k \in DOMAIN d[i]
        PROVE  /\ i \in DOMAIN chains /\ k \in DOMAIN chains[i]
               /\ d[i][k].kind = chains[i][k].kind
               /\ d[i][k].kind # "read" => d[i][k] = chains[i][k]
               /\ d[i][k].kind = "read" => ~d[i][k].wanted
    <2>1. i \in DOMAIN chains
      <3>1. DOMAIN << >> = {}
        OBVIOUS
      <3>2. QED
        BY <1>5, <3>1
    <2>2. d[i] = Forgotten(chains[i]) /\ chains[i] \in Seq(Call)
      BY <1>1, <1>5, <2>1
    <2>3. k \in DOMAIN chains[i]
      BY <2>2, ChainIsForgotten
    <2>4. QED
      BY <2>1, <2>2, <2>3, ChainIsForgotten
  <1>7. ASSUME NEW x \in CallsIn(d)
        PROVE  (x.kind = "read" => ~x.wanted) /\ (x.kind # "read" => x \in CallsIn(chains))
    <2>1. x \in CallsIn(d) => \E i \in DOMAIN d : \E k \in DOMAIN d[i] : x = d[i][k]
      BY CallIsThere
    <2>2. PICK i \in DOMAIN d : \E k \in DOMAIN d[i] : x = d[i][k]
      BY <1>7, <2>1
    <2>3. PICK k \in DOMAIN d[i] : x = d[i][k]
      BY <2>2
    <2>4. x.kind # "read" => x \in CallsIn(chains)
      <3>1. i \in DOMAIN chains /\ k \in DOMAIN chains[i]
            /\ (x.kind # "read" => x = chains[i][k])
        BY <1>6, <2>3
      <3>2. QED
        BY <3>1, CallIsThere, Zenon
    <2>5. QED
      BY <1>6, <2>3, <2>4
  <1>8. AllWaited(d)
    <2>1. ASSUME NEW i \in DOMAIN d, NEW k \in DOMAIN d[i], d[i][k].kind = "ensure"
          PROVE  Waited(d, d[i][k].for)
      <3>1. PICK f : f = d[i][k].for
        OBVIOUS
      <3>2. Waited(chains, f)
        BY <1>6, <2>1, <3>1 DEF SwapsWait, AllWaited
      <3>3. f \in DOMAIN chains /\ 1 \in DOMAIN chains[f] /\ Swapping(chains[f][1])
        BY <3>2, ChainsTyped DEF Waited
      <3>4. DOMAIN d[f] = DOMAIN chains[f] /\ d[f][1] = chains[f][1]
        BY <1>1, <1>5, <3>3, ChainIsForgotten DEF Swapping
      <3>5. 1 \in DOMAIN d[f] /\ Swapping(d[f][1])
        BY <3>3, <3>4
      <3>6. d[f] # << >>
        <4>1. 1 \notin DOMAIN << >>
          OBVIOUS
        <4>2. QED
          BY <3>5, <4>1
      <3>7. f \in DOMAIN d
        BY <1>5, <3>3
      <3>8. Waited(d, f)
        BY <3>5, <3>6, <3>7 DEF Waited
      <3>9. QED
        BY <3>1, <3>8
    <2>2. QED
      BY <2>1 DEF AllWaited
  <1>9. AllDiffer(d)
    BY <1>6 DEF SwapsWait, AllDiffer
  <1>10. QED
    BY <1>5, <1>7, <1>8, <1>9 DEF SwapsWait

(* Switches move up with their chains.                                     *)
LEMMA SwitchesShift ==
  ASSUME NEW c, NEW d, DOMAIN d = DOMAIN c, AllDiffer(c), NEW by \in [DOMAIN d -> Int],
         \A j \in DOMAIN d : \A k \in DOMAIN d[j] :
           /\ k \in Int
           /\ d[j][k].kind = "ensure" =>
                k + by[j] \in DOMAIN c[j] /\ c[j][k + by[j]] = d[j][k]
  PROVE  AllDiffer(d)
  <1> SUFFICES ASSUME NEW i \in DOMAIN d, NEW j \in DOMAIN d, NEW k \in DOMAIN d[i],
                      NEW l \in DOMAIN d[j], d[i][k].kind = "ensure", d[j][l].kind = "ensure",
                      d[i][k].for = d[j][l].for
               PROVE  i = j /\ k = l
    BY DEF AllDiffer
  <1>1. PICK kk : kk = k + by[i] /\ kk \in DOMAIN c[i] /\ c[i][kk] = d[i][k]
    OBVIOUS
  <1>2. PICK ll : ll = l + by[j] /\ ll \in DOMAIN c[j] /\ c[j][ll] = d[j][l]
    OBVIOUS
  <1>3. i = j /\ kk = ll
    BY <1>1, <1>2 DEF AllDiffer
  <1>4. k \in Int /\ l \in Int /\ by[i] \in Int
    OBVIOUS
  <1>5. QED
    BY <1>1, <1>2, <1>3, <1>4

(* A swap that holds the lock asks for the network.                        *)
LEMMA SwapAsks ==
  ASSUME chains \in Seq(Seq(Call)), Len(chains) \in 1 .. MaxDisconnects + 1, SwapsWait(chains),
         NEW i \in Chains, EnsureChain(i)
  PROVE  /\ chains' \in Seq(Seq(Call)) /\ Len(chains') = Len(chains) /\ SwapsWait(chains')
         /\ \A x \in CallsIn(chains') : x \in CallsIn(chains) \/ x.kind \in {"send", "ensure"}
  <1>1. /\ Len(chains) \in Nat /\ DOMAIN chains = 1 .. Len(chains) /\ i \in DOMAIN chains
        /\ MaxDisconnects \in Nat /\ \A j \in DOMAIN chains : chains[j] \in Seq(Call)
    BY LenProperties, ElementOfSeq, LockConstants DEF Chains
  <1>2. /\ chains[i] # << >> /\ 1 \in DOMAIN chains[i] /\ chains[i][1] \in Call
        /\ chains[i][1].kind = "send" /\ chains[i][1].stage = "started"
    BY <1>1, ChainsTyped DEF EnsureChain, Running, Holder
  <1>3. PICK e : e = [kind |-> "ensure", for |-> i]
    OBVIOUS
  <1>4. e \in Call /\ e.kind = "ensure" /\ e.for = i
    BY <1>1, <1>3 DEF Call
  <1>5. PICK h : h = [chains[i][1] EXCEPT !.stage = "switching"]
    OBVIOUS
  <1>6. h \in Call /\ h.kind = "send" /\ h.stage = "switching"
    BY <1>2, <1>5, SwapsChange DEF Stages
  <1>7. PICK s : s = [chains[i] EXCEPT ![1] = h]
    OBVIOUS
  <1>8. s \in Seq(Call) /\ Len(s) = Len(chains[i]) /\ DOMAIN s = DOMAIN chains[i] /\ s[1] = h
        /\ \A k \in DOMAIN s \ {1} : s[k] = chains[i][k]
    <2>1. DOMAIN chains[i] = 1 .. Len(chains[i])
      BY <1>1, ChainsTyped
    <2>2. s \in Seq(Call) /\ Len(s) = Len(chains[i])
      BY <1>1, <1>2, <1>6, <1>7, <2>1, ExceptSeq
    <2>3. DOMAIN s = DOMAIN chains[i]
      BY <2>1, <2>2, LenProperties
    <2>4. QED
      BY <1>2, <1>7, <2>2, <2>3
  <1>9. PICK m : m = [j \in Chains |-> IF j = i THEN s ELSE chains[j]]
    OBVIOUS
  <1>10. m \in Seq(Seq(Call)) /\ DOMAIN m = DOMAIN chains
         /\ m[i] = s /\ \A j \in DOMAIN chains \ {i} : m[j] = chains[j]
    BY <1>1, <1>8, <1>9 DEF Chains
  <1>11. PICK n : n = Len(chains)
    OBVIOUS
  <1>12. chains' = [j \in Chains |-> IF j = n THEN Append(m[j], e) ELSE m[j]]
    <2>1. \A j \in Chains :
            m[j] = IF j = i THEN [chains[i] EXCEPT ![1].stage = "switching"] ELSE chains[j]
      BY <1>5, <1>7, <1>9
    <2>2. QED
      BY <1>3, <1>11, <2>1 DEF EnsureChain, Current
  <1>13. /\ chains' \in Seq(Seq(Call)) /\ Len(chains') = Len(chains)
         /\ DOMAIN chains' = DOMAIN chains
         /\ n \in DOMAIN chains /\ chains'[n] = Append(m[n], e)
         /\ \A j \in DOMAIN chains \ {n} : chains'[j] = m[j]
    <2>1. \A j \in DOMAIN chains : m[j] \in Seq(Call) /\ Append(m[j], e) \in Seq(Call)
      BY <1>1, <1>4, <1>8, <1>10
    <2>2. QED
      BY <1>1, <1>11, <1>12, <2>1 DEF Chains
  <1>14. ASSUME NEW j \in DOMAIN chains
         PROVE  /\ \A k \in DOMAIN chains[j] : k \in DOMAIN chains'[j] /\ chains'[j][k] = m[j][k]
                /\ \A k \in DOMAIN chains'[j] : k \in DOMAIN chains[j]
                     \/ (j = n /\ k = Len(chains[n]) + 1 /\ chains'[j][k] = e)
    <2>1. m[j] \in Seq(Call) /\ DOMAIN m[j] = DOMAIN chains[j] /\ Len(m[j]) = Len(chains[j])
      BY <1>1, <1>8, <1>10
    <2>2. CASE j # n
      BY <1>13, <2>1, <2>2
    <2>3. CASE j = n
      <3>1. /\ DOMAIN chains[j] = 1 .. Len(m[j]) /\ Len(m[j]) \in Nat
            /\ DOMAIN Append(m[j], e) = 1 .. Len(m[j]) + 1
            /\ Append(m[j], e)[Len(m[j]) + 1] = e
            /\ \A k \in 1 .. Len(m[j]) : Append(m[j], e)[k] = m[j][k]
        BY <2>1, LenProperties
      <3>2. chains'[j] = Append(m[j], e)
        BY <1>13, <2>3
      <3>3. QED
        BY <2>1, <2>3, <3>1, <3>2
    <2>4. QED
      BY <2>2, <2>3
  <1>15. ASSUME NEW j \in DOMAIN chains, NEW k \in DOMAIN chains[j]
         PROVE  (j = i /\ k = 1 /\ m[j][k] = h) \/ m[j][k] = chains[j][k]
    BY <1>8, <1>10
  <1>16. ASSUME NEW f, Waited(chains, f)
         PROVE  f # i /\ Waited(chains', f)
    <2>1. f \in DOMAIN chains /\ chains[f] # << >> /\ Swapping(chains[f][1])
      BY <1>16 DEF Waited
    <2>2. f # i
      BY <1>2, <2>1 DEF Swapping
    <2>3. 1 \in DOMAIN chains[f]
      BY <2>1, ChainsTyped
    <2>4. 1 \in DOMAIN chains'[f] /\ chains'[f][1] = chains[f][1]
      BY <1>10, <1>14, <2>1, <2>2, <2>3
    <2>5. chains'[f] # << >>
      BY <2>4
    <2>6. QED
      BY <1>13, <2>1, <2>2, <2>4, <2>5 DEF Waited
  <1>17. Waited(chains', i)
    <2>1. 1 \in DOMAIN chains'[i] /\ chains'[i][1] = h
      BY <1>1, <1>2, <1>8, <1>10, <1>14
    <2>2. QED
      BY <1>1, <1>6, <1>13, <2>1 DEF Waited, Swapping
  <1>18. ASSUME NEW j \in DOMAIN chains', NEW k \in DOMAIN chains'[j], chains'[j][k].kind = "ensure"
         PROVE  \/ k \in DOMAIN chains[j] /\ chains'[j][k] = chains[j][k] /\ chains'[j][k].for # i
                \/ j = n /\ k = Len(chains[n]) + 1 /\ chains'[j][k].for = i
    <2>1. CASE k \in DOMAIN chains[j]
      <3>1. chains'[j][k] = chains[j][k]
        BY <1>6, <1>13, <1>14, <1>15, <1>18, <2>1
      <3>2. Waited(chains, chains[j][k].for)
        BY <1>13, <1>18, <2>1, <3>1 DEF SwapsWait, AllWaited
      <3>3. QED
        BY <1>16, <2>1, <3>1, <3>2
    <2>2. CASE k \notin DOMAIN chains[j]
      BY <1>4, <1>13, <1>14, <2>2
    <2>3. QED
      BY <2>1, <2>2
  <1>19. AllWaited(chains')
    <2>1. ASSUME NEW j \in DOMAIN chains', NEW k \in DOMAIN chains'[j], chains'[j][k].kind = "ensure"
          PROVE  Waited(chains', chains'[j][k].for)
      <3>1. CASE k \in DOMAIN chains[j] /\ chains'[j][k] = chains[j][k]
        BY <1>13, <1>16, <2>1, <3>1 DEF SwapsWait, AllWaited
      <3>2. CASE chains'[j][k].for = i
        BY <1>17, <3>2
      <3>3. QED
        BY <1>18, <2>1, <3>1, <3>2
    <2>2. QED
      BY <2>1 DEF AllWaited
  <1>20. AllDiffer(chains')
    <2>1. ASSUME NEW j \in DOMAIN chains', NEW l \in DOMAIN chains', NEW k \in DOMAIN chains'[j],
                 NEW q \in DOMAIN chains'[l], chains'[j][k].kind = "ensure",
                 chains'[l][q].kind = "ensure", chains'[j][k].for = chains'[l][q].for
          PROVE  j = l /\ k = q
      <3>1. CASE chains'[j][k].for = i
        BY <1>18, <2>1, <3>1
      <3>2. CASE chains'[j][k].for # i
        <4>1. /\ k \in DOMAIN chains[j] /\ chains'[j][k] = chains[j][k]
              /\ q \in DOMAIN chains[l] /\ chains'[l][q] = chains[l][q]
          BY <1>18, <2>1, <3>2
        <4>2. QED
          BY <1>13, <2>1, <4>1 DEF SwapsWait, AllDiffer
      <3>3. QED
        BY <3>1, <3>2
    <2>2. QED
      BY <2>1 DEF AllDiffer
  <1>21. ASSUME NEW x \in CallsIn(chains')
         PROVE  x \in CallsIn(chains) \/ x.kind \in {"send", "ensure"}
    <2>1. PICK j \in DOMAIN chains' : \E k \in DOMAIN chains'[j] : x = chains'[j][k]
      BY CallIsThere
    <2>2. PICK k \in DOMAIN chains'[j] : x = chains'[j][k]
      BY <2>1
    <2>3. CASE k \in DOMAIN chains[j]
      <3>1. x = h \/ x = chains[j][k]
        BY <1>13, <1>14, <1>15, <2>2, <2>3
      <3>2. QED
        BY <1>6, <1>13, <2>3, <3>1, CallIsThere
    <2>4. CASE k \notin DOMAIN chains[j]
      BY <1>4, <1>13, <1>14, <2>2, <2>4
    <2>5. QED
      BY <2>3, <2>4
  <1>22. QED
    BY <1>13, <1>19, <1>20, <1>21 DEF SwapsWait

(* The switch ends, and with it, or after its transaction, the swap.       *)
LEMMA SwitchEnds ==
  ASSUME chains \in Seq(Seq(Call)), SwapsWait(chains), NEW i \in Chains, NEW ok \in BOOLEAN,
         ChainIsEnsured(i, ok)
  PROVE  /\ chains' \in Seq(Seq(Call)) /\ Len(chains') = Len(chains) /\ SwapsWait(chains')
         /\ \A x \in CallsIn(chains') : x \in CallsIn(chains) \/ x.kind \in {"send", "ensure"}
  <1>1. /\ Len(chains) \in Nat /\ DOMAIN chains = 1 .. Len(chains) /\ i \in DOMAIN chains
    BY LenProperties DEF Chains
  <1>2. chains[i] # << >> /\ 1 \in DOMAIN chains[i] /\ chains[i][1].kind = "ensure"
    BY <1>1, ChainsTyped DEF ChainIsEnsured, Running, Holder
  <1>3. PICK j : j = chains[i][1].for
    OBVIOUS
  <1>4. Waited(chains, j)
    BY <1>1, <1>2, <1>3 DEF SwapsWait, AllWaited
  <1>5. j \in DOMAIN chains /\ chains[j] # << >> /\ chains[j][1].kind = "send" /\ j # i
    BY <1>2, <1>4 DEF Waited, Swapping
  <1>6. 1 \in DOMAIN chains[j] /\ chains[j][1] \in Call
    BY <1>5, ChainsTyped
  <1>7. PICK rest : rest = Ended(chains, i)
    OBVIOUS
  <1>8. PICK t \in Seq(Call) : t = Tail(chains[i])
    BY <1>1, <1>2, ChainsTyped, HeadTailProperties
  <1>9. \A k \in DOMAIN t : k \in Nat /\ k + 1 \in DOMAIN chains[i] /\ t[k] = chains[i][k + 1]
    <2>1. /\ Len(t) = Len(chains[i]) - 1 /\ Len(chains[i]) \in Nat
          /\ DOMAIN chains[i] = 1 .. Len(chains[i])
          /\ \A k \in 1 .. Len(t) : t[k] = chains[i][k + 1]
      BY <1>1, <1>2, <1>8, ChainsTyped, HeadTailProperties
    <2>2. DOMAIN t = 1 .. Len(t)
      BY LenProperties
    <2>3. QED
      BY <2>1, <2>2
  <1>10. /\ rest \in Seq(Seq(Call)) /\ Len(rest) = Len(chains) /\ DOMAIN rest = DOMAIN chains
         /\ rest[i] = t /\ \A a \in DOMAIN chains \ {i} : rest[a] = chains[a]
    <2>1. rest = [chains EXCEPT ![i] = t]
      BY <1>7, <1>8 DEF Ended
    <2>2. QED
      BY <1>1, <2>1, ChainReplaced
  <1>11. PICK s \in Seq(Call) :
           /\ s = IF ok THEN [chains[j] EXCEPT ![1].stage = "asked"] ELSE Tail(chains[j])
           /\ \A k \in DOMAIN s :
                /\ k \in Nat
                /\ IF ok THEN /\ k \in DOMAIN chains[j]
                              /\ s[k] = chains[j][k] \/ s[k].kind = "send"
                   ELSE k + 1 \in DOMAIN chains[j] /\ s[k] = chains[j][k + 1]
    <2>1. chains[j] \in Seq(Call) /\ DOMAIN chains[j] = 1 .. Len(chains[j]) /\ Len(chains[j]) \in Nat
      BY <1>5, ChainsTyped
    <2>2. CASE ok
      <3>1. PICK h : h = [chains[j][1] EXCEPT !.stage = "asked"]
        OBVIOUS
      <3>2. h \in Call /\ h.kind = "send"
        BY <1>5, <1>6, <3>1, SwapsChange DEF Stages
      <3>3. PICK u : u = [chains[j] EXCEPT ![1] = h]
        OBVIOUS
      <3>4. u \in Seq(Call) /\ Len(u) = Len(chains[j])
        BY <1>6, <2>1, <3>2, <3>3, ExceptSeq
      <3>5. DOMAIN u = DOMAIN chains[j]
        BY <2>1, <3>4, LenProperties
      <3>6. \A k \in DOMAIN u : k \in Nat /\ (u[k] = chains[j][k] \/ u[k].kind = "send")
        BY <2>1, <3>2, <3>3, <3>5
      <3>7. u = [chains[j] EXCEPT ![1].stage = "asked"]
        BY <3>1, <3>3
      <3>8. QED
        BY <2>2, <3>4, <3>5, <3>6, <3>7
    <2>3. CASE ~ok
      <3>1. PICK u \in Seq(Call) : u = Tail(chains[j])
        BY <1>5, <2>1, HeadTailProperties
      <3>2. Len(u) = Len(chains[j]) - 1 /\ \A k \in 1 .. Len(u) : u[k] = chains[j][k + 1]
        BY <1>5, <2>1, <3>1, HeadTailProperties
      <3>3. DOMAIN u = 1 .. Len(u)
        BY LenProperties
      <3>4. \A k \in DOMAIN u : k \in Nat /\ k + 1 \in DOMAIN chains[j] /\ u[k] = chains[j][k + 1]
        BY <2>1, <3>2, <3>3
      <3>5. QED
        BY <2>3, <3>1, <3>4
    <2>4. QED
      BY <2>2, <2>3
  <1>12. /\ chains' \in Seq(Seq(Call)) /\ Len(chains') = Len(chains)
         /\ DOMAIN chains' = DOMAIN chains
         /\ chains'[i] = t /\ chains'[j] = s
         /\ \A a \in DOMAIN chains \ {i, j} : chains'[a] = chains[a]
    <2>1. rest[j] = chains[j]
      BY <1>5, <1>10
    <2>2. chains' = [rest EXCEPT ![j] = s]
      <3>1. chains' = [rest EXCEPT ![j] = IF ok THEN [rest[j] EXCEPT ![1].stage = "asked"]
                                          ELSE Tail(rest[j])]
        BY <1>1, <1>2, <1>3, <1>7, ChainsTyped DEF ChainIsEnsured, Holder, Released, Ended
      <3>2. QED
        BY <1>11, <2>1, <3>1
    <2>3. QED
      BY <1>1, <1>5, <1>10, <2>2, ChainReplaced
  <1>13. PICK by \in [DOMAIN chains' -> Int] :
           \A a \in DOMAIN chains' : by[a] = IF a = i THEN 1 ELSE IF a = j /\ ~ok THEN 1 ELSE 0
    <2> DEFINE f == [a \in DOMAIN chains' |-> IF a = i THEN 1 ELSE IF a = j /\ ~ok THEN 1 ELSE 0]
    <2>1. f \in [DOMAIN chains' -> Int]
      OBVIOUS
    <2>2. QED
      BY <2>1
  <1>14. ASSUME NEW a \in DOMAIN chains', NEW k \in DOMAIN chains'[a]
         PROVE  /\ k \in Nat /\ k + by[a] \in DOMAIN chains[a]
                /\ chains'[a][k] = chains[a][k + by[a]] \/ chains'[a][k].kind = "send"
                /\ a = i => k + by[a] # 1
    <2>1. CASE a = i
      <3>1. by[a] = 1 /\ k \in DOMAIN t /\ chains'[a][k] = t[k]
        BY <1>12, <1>13, <2>1
      <3>2. QED
        BY <1>9, <2>1, <3>1
    <2>2. CASE a = j
      <3>1. k \in DOMAIN s /\ chains'[a][k] = s[k]
        BY <1>12, <2>2
      <3>2. k \in Nat
        BY <1>11, <3>1
      <3>3. CASE ok
        <4>1. k + by[a] = k
          BY <1>5, <1>13, <2>2, <3>2, <3>3
        <4>2. QED
          BY <1>5, <1>11, <2>2, <3>1, <3>2, <3>3, <4>1
      <3>4. CASE ~ok
        <4>1. by[a] = 1
          BY <1>5, <1>13, <2>2, <3>4
        <4>2. QED
          BY <1>5, <1>11, <2>2, <3>1, <3>2, <3>4, <4>1
      <3>5. QED
        BY <3>3, <3>4
    <2>3. CASE a # i /\ a # j
      <3>1. by[a] = 0 /\ chains'[a] = chains[a] /\ a \in DOMAIN chains
        BY <1>12, <1>13, <2>3
      <3>2. k \in Nat
        BY <3>1, ChainsTyped
      <3>3. k + by[a] = k
        BY <3>1, <3>2
      <3>4. QED
        BY <2>3, <3>1, <3>2, <3>3
    <2>4. QED
      BY <2>1, <2>2, <2>3
  <1>15. AllDiffer(chains')
    <2>1. \A a \in DOMAIN chains' : \A k \in DOMAIN chains'[a] :
            /\ k \in Int
            /\ chains'[a][k].kind = "ensure" =>
                 k + by[a] \in DOMAIN chains[a] /\ chains[a][k + by[a]] = chains'[a][k]
      BY <1>14
    <2>2. DOMAIN chains' = DOMAIN chains /\ AllDiffer(chains)
      BY <1>12 DEF SwapsWait
    <2>3. PICK d : d = chains'
      OBVIOUS
    <2>4. PICK up : up = by
      OBVIOUS
    <2>5. up \in [DOMAIN d -> Int] /\ DOMAIN d = DOMAIN chains
      BY <2>2, <2>3, <2>4
    <2>6. \A a \in DOMAIN d : \A k \in DOMAIN d[a] :
            /\ k \in Int
            /\ d[a][k].kind = "ensure" =>
                 k + up[a] \in DOMAIN chains[a] /\ chains[a][k + up[a]] = d[a][k]
      BY <2>1, <2>3, <2>4
    <2>7. AllDiffer(d)
      BY <2>2, <2>5, <2>6, SwitchesShift
    <2>8. QED
      BY <2>3, <2>7
  <1>16. AllWaited(chains')
    <2>1. ASSUME NEW a \in DOMAIN chains', NEW k \in DOMAIN chains'[a], chains'[a][k].kind = "ensure"
          PROVE  Waited(chains', chains'[a][k].for)
      <3>1. PICK l \in DOMAIN chains[a] : chains[a][l] = chains'[a][k] /\ (a = i => l # 1)
        BY <1>14, <2>1
      <3>2. PICK f : f = chains[a][l].for
        OBVIOUS
      <3>3. Waited(chains, f)
        BY <1>12, <2>1, <3>1, <3>2 DEF SwapsWait, AllWaited
      <3>4. f # j
        BY <1>1, <1>2, <1>3, <1>12, <2>1, <3>1, <3>2 DEF SwapsWait, AllDiffer
      <3>5. f # i
        BY <1>2, <3>3 DEF Waited, Swapping
      <3>6. f \in DOMAIN chains' /\ chains'[f] = chains[f]
        BY <1>12, <3>3, <3>4, <3>5 DEF Waited
      <3>7. QED
        BY <3>1, <3>2, <3>3, <3>6 DEF Waited
    <2>2. QED
      BY <2>1 DEF AllWaited
  <1>17. ASSUME NEW x \in CallsIn(chains')
         PROVE  x \in CallsIn(chains) \/ x.kind \in {"send", "ensure"}
    <2>1. PICK a \in DOMAIN chains' : \E k \in DOMAIN chains'[a] : x = chains'[a][k]
      BY CallIsThere
    <2>2. PICK k \in DOMAIN chains'[a] : x = chains'[a][k]
      BY <2>1
    <2>3. \E l \in DOMAIN chains[a] : x = chains[a][l] \/ x.kind = "send"
      BY <1>14, <2>2
    <2>4. QED
      BY <1>12, <2>3, CallIsThere
  <1>18. QED
    BY <1>12, <1>15, <1>16, <1>17 DEF SwapsWait

(* The reads of the components, in one order or another.                   *)
LEMMA ReadsTyped ==
  /\ Reads \in Seq(Call)
  /\ \A k \in DOMAIN Reads : Reads[k].kind = "read"
  <1> DEFINE S == {[kind |-> "read", by |-> h, wanted |-> TRUE] : h \in Hooks}
             f == [h \in Hooks |-> [kind |-> "read", by |-> h, wanted |-> TRUE]]
  <1>1. IsFiniteSet(S)
    <2>1. f \in Surjection(Hooks, S)
      BY DEF Surjection
    <2>2. QED
      BY <2>1, FS_Surjection, SessionConstants
  <1>2. \A x \in S : x \in Call /\ x.kind = "read"
    <2>1. ASSUME NEW h \in Hooks
          PROVE  [kind |-> "read", by |-> h, wanted |-> TRUE] \in Call
      <3>1. [kind |-> "read", by |-> h, wanted |-> TRUE]
              \in [kind : {"read"}, by : Hooks, wanted : BOOLEAN]
        OBVIOUS
      <3>2. QED
        BY <3>1 DEF Call
    <2>2. QED
      BY <2>1
  <1>3. PICK n \in Nat : n = Cardinality(S)
    BY <1>1, FS_CardinalityType
  <1>4. \E g \in [1 .. n -> S] : IsInjective(g)
    <2>1. ExistsBijection(1 .. n, S)
      BY <1>1, <1>3, FS_CardinalityType
    <2>2. QED
      BY <2>1 DEF ExistsBijection, Bijection, Injection, IsInjective
  <1>5. Reads = CHOOSE g \in [1 .. n -> S] : IsInjective(g)
    BY <1>3 DEF Reads, SetToSeq
  <1> HIDE DEF S
  <1>6. Reads \in [1 .. n -> S]
    BY <1>4, <1>5
  <1>7. QED
    BY <1>2, <1>6

-----------------------------------------------------------------------------
(* The requests.                                                           *)

LEMMA PostsChange ==
  ASSUME NEW p \in Post, NEW s \in PostStages
  PROVE  /\ [p EXCEPT !.heard = FALSE] \in Post
         /\ [p EXCEPT !.heard = FALSE].stage = p.stage
         /\ [p EXCEPT !.heard = FALSE].nonce = p.nonce
         /\ [p EXCEPT !.stage = s] \in Post
         /\ [p EXCEPT !.stage = s].stage = s /\ [p EXCEPT !.stage = s].nonce = p.nonce
  BY DEF Post

LEMMA OneReplaced ==
  ASSUME NEW S, IsFiniteSet(S), NEW p \in S, NEW q
  PROVE  IsFiniteSet((S \ {p}) \cup {q}) /\ Cardinality((S \ {p}) \cup {q}) <= Cardinality(S)
  <1>1. IsFiniteSet(S \ {p}) /\ Cardinality(S \ {p}) = Cardinality(S) - 1 /\ Cardinality(S) \in Nat
    BY FS_RemoveElement, FS_CardinalityType
  <1>2. PICK T : T = S \ {p}
    OBVIOUS
  <1>3. /\ IsFiniteSet(T \cup {q})
        /\ Cardinality(T \cup {q}) \in {Cardinality(T), Cardinality(T) + 1}
    BY <1>1, <1>2, FS_AddElement
  <1>4. QED
    BY <1>1, <1>2, <1>3

LEMMA PartsAreFinite ==
  ASSUME IsFiniteSet(posts), NEW n
  PROVE  /\ Creating \in SUBSET posts /\ IsFiniteSet(Creating) /\ Cardinality(Creating) \in Nat
         /\ Marking(n) \in SUBSET posts /\ IsFiniteSet(Marking(n))
         /\ Cardinality(Marking(n)) \in Nat /\ Cardinality(Marking(n)) <= Cardinality(posts)
         /\ Cardinality(posts) \in Nat
  <1>1. Creating \in SUBSET posts /\ Marking(n) \in SUBSET posts
    BY DEF Creating, Marking
  <1>2. QED
    BY <1>1, FS_Subset, FS_CardinalityType

LEMMA TypeFacts ==
  ASSUME WalletTypeOK
  PROVE  /\ Len(nonces) \in Nat /\ DOMAIN nonces = 1 .. Len(nonces)
         /\ \A n \in 1 .. MaxNonces : issued[n] \in Nat
         /\ \A w \in Wallets : challenge[w] \in 0 .. MaxNonces
         /\ \A p \in posts : p \in Post /\ p.nonce \in 0 .. MaxNonces /\ p.stage \in PostStages
                             /\ p.wallet \in Wallets /\ p.by \in Hooks /\ p.heard \in BOOLEAN
         /\ MaxNonces \in Nat /\ MaxPosts \in Nat /\ MaxReloads \in Nat /\ MaxDisconnects \in Nat
         /\ Len(chains) \in Nat /\ DOMAIN chains = 1 .. Len(chains)
         /\ Current = Len(chains) /\ Current \in DOMAIN chains
  <1>1. Len(nonces) \in Nat /\ DOMAIN nonces = 1 .. Len(nonces)
    BY LenProperties DEF WalletTypeOK
  <1>2. Len(chains) \in Nat /\ DOMAIN chains = 1 .. Len(chains)
    BY LenProperties DEF WalletTypeOK
  <1>3. \A p \in posts : p \in Post /\ p.nonce \in 0 .. MaxNonces /\ p.stage \in PostStages
                         /\ p.wallet \in Wallets /\ p.by \in Hooks /\ p.heard \in BOOLEAN
    BY DEF WalletTypeOK, Post
  <1>4. MaxNonces \in Nat /\ MaxPosts \in Nat /\ MaxReloads \in Nat /\ MaxDisconnects \in Nat
    BY SessionConstants, LockConstants
  <1>5. (\A n \in 1 .. MaxNonces : issued[n] \in Nat)
        /\ (\A w \in Wallets : challenge[w] \in 0 .. MaxNonces)
    BY DEF WalletTypeOK
  <1>6. Current = Len(chains) /\ Current \in DOMAIN chains
    BY <1>2 DEF WalletTypeOK, Current
  <1>7. QED
    BY <1>1, <1>2, <1>3, <1>4, <1>5, <1>6

(* Nothing of the backend moves, and no challenge is cached.               *)
LEMMA BackendStays ==
  ASSUME PostsInv, NonceInv, UNCHANGED backend, \A w \in Wallets : challenge'[w] <= Len(nonces)
  PROVE  PostsInv' /\ NonceInv'
  <1>1. posts' = posts /\ nonces' = nonces /\ issued' = issued
    BY DEF backend
  <1>2. Creating' = Creating /\ \A n : Marking(n)' = Marking(n)
    BY <1>1 DEF Creating, Marking
  <1>3. QED
    BY <1>1, <1>2 DEF PostsInv, NonceInv

LEMMA CallsStay ==
  ASSUME CallsInv, nonces' = nonces, disconnected' => disconnected,
         \A x \in CallsIn(chains') : x \in CallsIn(chains) \/ x.kind \notin {"read", "sign"}
  PROVE  CallsInv'
  <1> SUFFICES ASSUME NEW x \in CallsIn(chains')
               PROVE  /\ x.kind = "sign" => x.nonce \in 1 .. Len(nonces)
                      /\ (x.kind = "read" /\ disconnected') => ~x.wanted
    BY DEF CallsInv
  <1>1. CASE x \in CallsIn(chains)
    BY <1>1 DEF CallsInv
  <1>2. CASE x.kind \notin {"read", "sign"}
    BY <1>2
  <1>3. QED
    BY <1>1, <1>2

(* A call that is answered leaves its chain.                               *)
LEMMA AnsweredCall ==
  ASSUME WalletInv, NEW i \in Chains, Running(i), Holder(i).kind \in {"read", "connect", "sign"},
         NEW ok, chains' = Released(i, ok)
  PROVE  /\ chains' \in Seq(Seq(Call)) /\ Len(chains') = Len(chains) /\ SwapsWait(chains')
         /\ CallsIn(chains') \subseteq CallsIn(chains)
         /\ Holder(i) \in Call /\ Holder(i) \in CallsIn(chains)
  <1>1. chains \in Seq(Seq(Call)) /\ SwapsWait(chains) /\ i \in DOMAIN chains
    BY DEF WalletInv, WalletTypeOK, Chains
  <1>2. chains[i] # << >> /\ 1 \in DOMAIN chains[i] /\ Holder(i) = chains[i][1]
        /\ chains[i][1] \in Call /\ chains[i][1] \in CallsIn(chains)
    BY <1>1, ChainsTyped DEF Running, Holder
  <1>3. chains' = Ended(chains, i)
    BY DEF Released, Ended
  <1>4. chains[i][1].kind # "ensure" /\ ~Swapping(chains[i][1])
    BY <1>2 DEF Swapping
  <1>5. PICK d : d = chains'
    OBVIOUS
  <1>6. d = Ended(chains, i)
    BY <1>3, <1>5
  <1>7. d \in Seq(Seq(Call)) /\ Len(d) = Len(chains) /\ SwapsWait(d)
        /\ CallsIn(d) \subseteq CallsIn(chains)
    BY <1>1, <1>2, <1>4, <1>6, CallEnds
  <1>8. QED
    BY <1>2, <1>5, <1>7

LEMMA QueuedCalls ==
  ASSUME WalletInv, NEW new \in Seq(Call), \A k \in DOMAIN new : new[k].kind # "ensure",
         chains' = Queued(new)
  PROVE  /\ chains' \in Seq(Seq(Call)) /\ Len(chains') = Len(chains) /\ SwapsWait(chains')
         /\ \A x \in CallsIn(chains') : x \in CallsIn(chains) \/ \E k \in DOMAIN new : x = new[k]
  <1>1. chains \in Seq(Seq(Call)) /\ SwapsWait(chains) /\ Current \in DOMAIN chains
    BY TypeFacts DEF WalletInv, WalletTypeOK
  <1>2. PICK d : d = chains'
    OBVIOUS
  <1>3. d = Behind(chains, Current, new)
    BY <1>2 DEF Queued, Behind
  <1>4. /\ d \in Seq(Seq(Call)) /\ Len(d) = Len(chains) /\ SwapsWait(d)
        /\ \A x \in CallsIn(d) : x \in CallsIn(chains) \/ \E k \in DOMAIN new : x = new[k]
    BY <1>1, <1>3, CallsQueue
  <1>5. QED
    BY <1>2, <1>4

(* A request moves on, or is lost: those of one kind do not grow in number *)
(* unless it becomes one of them.                                          *)
LEMMA PostMoves ==
  ASSUME WalletTypeOK, PostsInv, NEW p \in posts, NEW q \in Post,
         q.stage = "create" => p.stage = "create", posts' = (posts \ {p}) \cup {q}
  PROVE  /\ posts' \subseteq Post /\ IsFiniteSet(posts') /\ Cardinality(posts') <= MaxPosts
         /\ Cardinality(Creating') <= Cardinality(Creating)
         /\ \A n : (q.stage = "mark" /\ q.nonce = n => p.stage = "mark" /\ p.nonce = n)
                     => Cardinality(Marking(n)') <= Cardinality(Marking(n))
  <1>1. p \in Post /\ IsFiniteSet(posts) /\ Cardinality(posts) \in Nat /\ MaxPosts \in Nat
        /\ Cardinality(posts) <= MaxPosts
    BY FS_CardinalityType, TypeFacts DEF PostsInv
  <1>2. PICK T : T = (posts \ {p}) \cup {q}
    OBVIOUS
  <1>3. IsFiniteSet(T) /\ Cardinality(T) <= Cardinality(posts) /\ Cardinality(T) \in Nat
    BY <1>1, <1>2, OneReplaced, FS_CardinalityType
  <1>4. posts' \subseteq Post /\ IsFiniteSet(posts') /\ Cardinality(posts') <= MaxPosts
    <2>1. posts' = T
      BY <1>2
    <2>2. posts' \subseteq Post
      BY DEF WalletTypeOK
    <2>3. Cardinality(T) <= MaxPosts
      BY <1>1, <1>3
    <2>4. QED
      BY <1>3, <2>1, <2>2, <2>3
  <1>5. Cardinality(Creating') <= Cardinality(Creating)
    <2>1. PICK A : A = Creating
      OBVIOUS
    <2>2. PICK B : B = Creating'
      OBVIOUS
    <2>3. IsFiniteSet(A) /\ A = {x \in posts : x.stage = "create"}
          /\ B = {x \in T : x.stage = "create"}
      BY <1>1, <1>2, <2>1, <2>2, PartsAreFinite DEF Creating
    <2>4. CASE q.stage = "create"
      <3>1. p \in A
        BY <2>3, <2>4
      <3>2. PICK C : C = (A \ {p}) \cup {q}
        OBVIOUS
      <3>3. IsFiniteSet(C) /\ Cardinality(C) <= Cardinality(A) /\ B \subseteq C
        BY <1>2, <2>3, <3>1, <3>2, OneReplaced
      <3>4. Cardinality(B) <= Cardinality(C) /\ Cardinality(B) \in Nat /\ Cardinality(C) \in Nat
            /\ Cardinality(A) \in Nat
        BY <2>3, <3>3, FS_Subset, FS_CardinalityType
      <3>5. QED
        BY <2>1, <2>2, <3>3, <3>4
    <2>5. CASE q.stage # "create"
      <3>1. B \subseteq A
        BY <1>2, <2>3, <2>5
      <3>2. QED
        BY <2>1, <2>2, <2>3, <3>1, FS_Subset
    <2>6. QED
      BY <2>4, <2>5
  <1>6. ASSUME NEW n, q.stage = "mark" /\ q.nonce = n => p.stage = "mark" /\ p.nonce = n
        PROVE  Cardinality(Marking(n)') <= Cardinality(Marking(n))
    <2>1. PICK A : A = Marking(n)
      OBVIOUS
    <2>2. PICK B : B = Marking(n)'
      OBVIOUS
    <2>3. IsFiniteSet(A) /\ A = {x \in posts : x.stage = "mark" /\ x.nonce = n}
          /\ B = {x \in T : x.stage = "mark" /\ x.nonce = n}
      BY <1>1, <1>2, <2>1, <2>2, PartsAreFinite DEF Marking
    <2>4. CASE q.stage = "mark" /\ q.nonce = n
      <3>1. p \in A
        BY <1>6, <2>3, <2>4
      <3>2. PICK C : C = (A \ {p}) \cup {q}
        OBVIOUS
      <3>3. IsFiniteSet(C) /\ Cardinality(C) <= Cardinality(A) /\ B \subseteq C
        BY <1>2, <2>3, <3>1, <3>2, OneReplaced
      <3>4. Cardinality(B) <= Cardinality(C) /\ Cardinality(B) \in Nat /\ Cardinality(C) \in Nat
            /\ Cardinality(A) \in Nat
        BY <2>3, <3>3, FS_Subset, FS_CardinalityType
      <3>5. QED
        BY <2>1, <2>2, <3>3, <3>4
    <2>5. CASE ~(q.stage = "mark" /\ q.nonce = n)
      <3>1. B \subseteq A
        BY <1>2, <2>3, <2>5
      <3>2. QED
        BY <2>1, <2>2, <2>3, <3>1, FS_Subset
    <2>6. QED
      BY <2>4, <2>5
  <1>7. QED
    BY <1>4, <1>5, <1>6

(* A request that is answered is gone.                                     *)
LEMMA PostGoes ==
  ASSUME WalletTypeOK, PostsInv, NEW p \in posts, posts' = posts \ {p}
  PROVE  /\ posts' \subseteq Post /\ IsFiniteSet(posts') /\ Cardinality(posts') <= MaxPosts
         /\ Cardinality(Creating')
              = Cardinality(Creating) - (IF p.stage = "create" THEN 1 ELSE 0)
         /\ \A n : Cardinality(Marking(n)') <= Cardinality(Marking(n))
  <1>1. IsFiniteSet(posts) /\ Cardinality(posts) \in Nat /\ MaxPosts \in Nat
        /\ Cardinality(posts) <= MaxPosts
    BY FS_CardinalityType, TypeFacts DEF PostsInv
  <1>2. posts' \subseteq Post /\ IsFiniteSet(posts') /\ Cardinality(posts') <= MaxPosts
    <2>1. PICK T : T = posts \ {p}
      OBVIOUS
    <2>2. IsFiniteSet(T) /\ Cardinality(T) = Cardinality(posts) - 1
      BY <1>1, <2>1, FS_RemoveElement
    <2>3. Cardinality(T) <= MaxPosts
      BY <1>1, <2>2
    <2>4. posts' = T /\ posts' \subseteq Post
      BY <2>1 DEF WalletTypeOK
    <2>5. QED
      BY <2>2, <2>3, <2>4
  <1>3. Cardinality(Creating') = Cardinality(Creating) - (IF p.stage = "create" THEN 1 ELSE 0)
    <2>1. PICK A : A = Creating
      OBVIOUS
    <2>2. PICK B : B = Creating'
      OBVIOUS
    <2>3. IsFiniteSet(A) /\ Cardinality(A) \in Nat /\ B = A \ {p}
          /\ (p \in A <=> p.stage = "create")
      BY <1>1, <2>1, <2>2, PartsAreFinite DEF Creating
    <2>4. Cardinality(B) = IF p \in A THEN Cardinality(A) - 1 ELSE Cardinality(A)
      BY <2>3, FS_RemoveElement
    <2>5. QED
      BY <2>1, <2>2, <2>3, <2>4
  <1>4. ASSUME NEW n PROVE Cardinality(Marking(n)') <= Cardinality(Marking(n))
    <2>1. PICK A : A = Marking(n)
      OBVIOUS
    <2>2. PICK B : B = Marking(n)'
      OBVIOUS
    <2>3. IsFiniteSet(A) /\ B \subseteq A
      BY <1>1, <2>1, <2>2, PartsAreFinite DEF Marking
    <2>4. QED
      BY <2>1, <2>2, <2>3, FS_Subset
  <1>5. QED
    BY <1>2, <1>3, <1>4

(* A request is made.                                                      *)
LEMMA PostIsMade ==
  ASSUME WalletTypeOK, PostsInv, Cardinality(posts) < MaxPosts, NEW q \in Post,
         posts' = posts \cup {q}
  PROVE  /\ posts' \subseteq Post /\ IsFiniteSet(posts') /\ Cardinality(posts') <= MaxPosts
         /\ Cardinality(Creating')
              <= Cardinality(Creating) + (IF q.stage = "create" THEN 1 ELSE 0)
         /\ q.stage # "mark" => \A n : Marking(n)' = Marking(n)
  <1>1. IsFiniteSet(posts) /\ Cardinality(posts) \in Nat /\ MaxPosts \in Nat
    BY FS_CardinalityType, TypeFacts DEF PostsInv
  <1>2. posts' \subseteq Post /\ IsFiniteSet(posts') /\ Cardinality(posts') <= MaxPosts
    <2>1. PICK T : T = posts \cup {q}
      OBVIOUS
    <2>2. IsFiniteSet(T) /\ Cardinality(T) <= Cardinality(posts) + 1
      BY <1>1, <2>1, FS_AddElement
    <2>3. Cardinality(T) <= MaxPosts
      BY <1>1, <2>2, FS_CardinalityType
    <2>4. posts' = T /\ posts' \subseteq Post
      BY <2>1 DEF WalletTypeOK
    <2>5. QED
      BY <2>2, <2>3, <2>4
  <1>3. Cardinality(Creating') <= Cardinality(Creating) + (IF q.stage = "create" THEN 1 ELSE 0)
    <2>1. PICK A : A = Creating
      OBVIOUS
    <2>2. PICK B : B = Creating'
      OBVIOUS
    <2>3. IsFiniteSet(A) /\ Cardinality(A) \in Nat
          /\ (q.stage = "create" => B = A \cup {q}) /\ (q.stage # "create" => B = A)
      BY <1>1, <2>1, <2>2, PartsAreFinite DEF Creating
    <2>4. Cardinality(A \cup {q}) <= Cardinality(A) + 1
      BY <2>3, FS_AddElement
    <2>5. CASE q.stage = "create"
      <3>1. B = A \cup {q}
        BY <2>3, <2>5
      <3>2. Cardinality(B) <= Cardinality(A) + 1
        BY <2>4, <3>1
      <3>3. QED
        BY <2>1, <2>2, <2>5, <3>2
    <2>6. CASE q.stage # "create"
      <3>1. B = A /\ Cardinality(A) <= Cardinality(A) + 0
        BY <2>3, <2>6
      <3>2. QED
        BY <2>1, <2>2, <2>6, <3>1
    <2>7. QED
      BY <2>5, <2>6
  <1>4. q.stage # "mark" => \A n : Marking(n)' = Marking(n)
    BY DEF Marking
  <1>5. QED
    BY <1>2, <1>3, <1>4

(* The page is gone: nobody hears the answers any more.                    *)
LEMMA NobodyHears ==
  ASSUME NEW S \in SUBSET Post, IsFiniteSet(S), NEW T,
         T = {[p EXCEPT !.heard = FALSE] : p \in S}
  PROVE  T \subseteq Post /\ IsFiniteSet(T) /\ Cardinality(T) <= Cardinality(S)
  <1> DEFINE f == [p \in S |-> [p EXCEPT !.heard = FALSE]]
  <1>1. f \in Surjection(S, T)
    BY DEF Surjection
  <1>2. IsFiniteSet(T) /\ Cardinality(T) <= Cardinality(S)
    BY <1>1, FS_Surjection
  <1>3. T \subseteq Post
    <2>1. ASSUME NEW p \in S PROVE [p EXCEPT !.heard = FALSE] \in Post
      <3>1. p \in Post /\ "find" \in PostStages
        BY DEF PostStages
      <3>2. QED
        BY <3>1, PostsChange
    <2>2. QED
      BY <2>1
  <1>4. QED
    BY <1>2, <1>3

(* Requests come, move and go without a token: what they were and may be   *)
(* the same.                                                               *)
LEMMA NoTokenMade ==
  ASSUME WalletTypeOK, PostsInv, NonceInv, nonces' = nonces, issued' = issued,
         IsFiniteSet(posts'), \A n : Cardinality(Marking(n)') <= Cardinality(Marking(n))
  PROVE  NonceInv'
  <1>1. \A n \in 1 .. MaxNonces : issued'[n] + Cardinality(Marking(n)') <= MaxPosts
    <2> SUFFICES ASSUME NEW n \in 1 .. MaxNonces
                 PROVE  issued[n] + Cardinality(Marking(n)') <= MaxPosts
      OBVIOUS
    <2>1. PICK k : k = Cardinality(Marking(n)')
      OBVIOUS
    <2>2. k \in Nat
      <3>1. Marking(n)' \subseteq posts'
        BY DEF Marking
      <3>2. QED
        BY <2>1, <3>1, FS_Subset, FS_CardinalityType
    <2>3. issued[n] \in Nat /\ Cardinality(Marking(n)) \in Nat /\ MaxPosts \in Nat
          /\ IsFiniteSet(posts)
      BY TypeFacts, PartsAreFinite DEF PostsInv
    <2>4. issued[n] + Cardinality(Marking(n)) <= MaxPosts /\ k <= Cardinality(Marking(n))
      BY <2>1 DEF NonceInv
    <2>5. QED
      BY <2>1, <2>2, <2>3, <2>4
  <1>2. QED
    BY <1>1 DEF NonceInv

(* No more challenges are asked for than before.                           *)
LEMMA FewerCreated ==
  ASSUME WalletTypeOK, PostsInv, nonces' = nonces,
         IsFiniteSet(posts'), Cardinality(posts') <= MaxPosts,
         Cardinality(Creating') <= Cardinality(Creating),
         \A p \in posts' : p.stage # "create" => p.nonce \in 1 .. Len(nonces),
         \A w \in Wallets : challenge'[w] <= Len(nonces)
  PROVE  PostsInv'
  <1>1. PICK a \in Nat : a = Cardinality(Creating')
    <2>1. Creating' \subseteq posts'
      BY DEF Creating
    <2>2. QED
      BY <2>1, FS_Subset, FS_CardinalityType
  <1>2. PICK c \in Nat : c = Cardinality(Creating)
    BY PartsAreFinite DEF PostsInv
  <1>3. Len(nonces) \in Nat /\ MaxNonces \in Nat /\ Len(nonces) + c <= MaxNonces
    BY <1>2, TypeFacts DEF PostsInv
  <1>4. Len(nonces) + a <= MaxNonces
    BY <1>1, <1>2, <1>3
  <1>5. QED
    BY <1>1, <1>4 DEF PostsInv

(* A nonce is used or expires: none becomes fresh again.                   *)
LEMMA NonceTurns ==
  ASSUME WalletTypeOK, NEW n \in DOMAIN nonces, NEW s \in {"used", "expired"},
         nonces' = [nonces EXCEPT ![n].state = s]
  PROVE  /\ nonces' \in Seq(Nonce) /\ Len(nonces') = Len(nonces)
         /\ \A m \in 1 .. Len(nonces) : nonces'[m].state = "fresh" => nonces[m].state = "fresh"
         /\ nonces'[n].state = s
  <1>1. nonces \in Seq(Nonce) /\ DOMAIN nonces = 1 .. Len(nonces) /\ nonces[n] \in Nonce
    BY TypeFacts, ElementOfSeq DEF WalletTypeOK
  <1>2. PICK e : e = [nonces[n] EXCEPT !.state = s]
    OBVIOUS
  <1>3. e \in Nonce /\ e.state = s
    BY <1>1, <1>2 DEF Nonce
  <1>4. nonces' = [nonces EXCEPT ![n] = e]
    BY <1>2
  <1>5. nonces' \in Seq(Nonce) /\ Len(nonces') = Len(nonces)
    BY <1>1, <1>3, <1>4, ExceptSeq
  <1>6. nonces'[n] = e /\ \A m \in DOMAIN nonces \ {n} : nonces'[m] = nonces[m]
    BY <1>1, <1>4
  <1>7. QED
    BY <1>1, <1>3, <1>5, <1>6

-----------------------------------------------------------------------------
(* The invariant is kept, action by action.                                *)

LEMMA EndSessionKeeps ==
  ASSUME WalletInv, EndSession
  PROVE  WalletInv'
  <1>1. /\ wagmi' = wagmi \/ wagmi' = [status |-> "disconnected", address |-> None]
        /\ session' = None
        /\ UNCHANGED <<chains, linked, disconnected, challenge, leaving, permitted, news, backend,
                       converting, reloads>>
    BY DEF EndSession
  <1>2. WalletTypeOK /\ SwapsWait(chains) /\ CallsInv /\ WagmiInv /\ AwayInv /\ PostsInv /\ NonceInv
    BY DEF WalletInv
  <1>3. wagmi' \in [status : {"connecting", "connected", "disconnected"}, address : Account]
    BY <1>1, <1>2 DEF WalletTypeOK, Account
  <1>4. WalletTypeOK'
    BY <1>1, <1>2, <1>3 DEF WalletTypeOK, backend, Account, Current
  <1>5. CallsInv'
    BY <1>1, <1>2 DEF CallsInv, backend
  <1>6. WagmiInv' /\ AwayInv'
    BY <1>1, <1>2 DEF WagmiInv, AwayInv
  <1>7. PostsInv' /\ NonceInv'
    BY <1>1, <1>2, BackendStays DEF PostsInv
  <1>8. QED
    BY <1>1, <1>2, <1>4, <1>5, <1>6, <1>7 DEF WalletInv

LEMMA WagmiHearsKeeps ==
  ASSUME WalletInv, WagmiHears
  PROVE  WalletInv'
  <1>1. /\ wagmi' = [status |-> IF permitted = None THEN "disconnected" ELSE "connected",
                     address |-> permitted]
        /\ news' = FALSE
        /\ linked' = linked \/ (~disconnected /\ permitted # None
                                  /\ linked' = [h \in Hooks |-> permitted])
        /\ UNCHANGED <<chains, disconnected, session, challenge, leaving, permitted, backend,
                       converting, reloads>>
    BY DEF WagmiHears
  <1>2. WalletTypeOK /\ SwapsWait(chains) /\ CallsInv /\ WagmiInv /\ AwayInv /\ PostsInv /\ NonceInv
    BY DEF WalletInv
  <1>3. /\ wagmi' \in [status : {"connecting", "connected", "disconnected"}, address : Account]
        /\ linked' \in [Hooks -> Account]
    BY <1>1, <1>2 DEF WalletTypeOK
  <1>4. WalletTypeOK'
    BY <1>1, <1>2, <1>3 DEF WalletTypeOK, backend, Current
  <1>5. CallsInv' /\ AwayInv'
    BY <1>1, <1>2 DEF CallsInv, AwayInv, backend
  <1>6. WagmiInv'
    BY <1>1 DEF WagmiInv
  <1>7. PostsInv' /\ NonceInv'
    BY <1>1, <1>2, BackendStays DEF PostsInv
  <1>8. QED
    BY <1>1, <1>2, <1>4, <1>5, <1>6, <1>7 DEF WalletInv

LEMMA SwitchAccountKeeps ==
  ASSUME WalletInv, SwitchAccount
  PROVE  WalletInv'
  <1>1. /\ permitted' \in Account /\ news' = TRUE
        /\ UNCHANGED <<chains, linked, disconnected, session, challenge, leaving, wagmi, backend,
                       converting, reloads>>
    BY DEF SwitchAccount, browser
  <1>2. WalletTypeOK /\ SwapsWait(chains) /\ CallsInv /\ WagmiInv /\ AwayInv /\ PostsInv /\ NonceInv
    BY DEF WalletInv
  <1>3. WalletTypeOK'
    BY <1>1, <1>2 DEF WalletTypeOK, backend, Current
  <1>4. CallsInv' /\ AwayInv' /\ WagmiInv'
    BY <1>1, <1>2 DEF CallsInv, AwayInv, WagmiInv, backend
  <1>5. PostsInv' /\ NonceInv'
    BY <1>1, <1>2, BackendStays DEF PostsInv
  <1>6. QED
    BY <1>1, <1>2, <1>3, <1>4, <1>5 DEF WalletInv

LEMMA AccessIsRevokedKeeps ==
  ASSUME WalletInv, AccessIsRevoked
  PROVE  WalletInv'
  <1>1. /\ permitted' \in {permitted, None} /\ news' = FALSE /\ leaving' = "no"
        /\ wagmi' = [status |-> "disconnected", address |-> None]
        /\ UNCHANGED <<chains, linked, disconnected, session, challenge, backend, converting,
                       reloads>>
    BY DEF AccessIsRevoked
  <1>2. WalletTypeOK /\ SwapsWait(chains) /\ CallsInv /\ WagmiInv /\ AwayInv /\ PostsInv /\ NonceInv
    BY DEF WalletInv
  <1>3. /\ wagmi' \in [status : {"connecting", "connected", "disconnected"}, address : Account]
        /\ permitted' \in Account
    BY <1>1, <1>2 DEF WalletTypeOK, Account
  <1>4. WalletTypeOK'
    BY <1>1, <1>2, <1>3 DEF WalletTypeOK, backend, Current
  <1>5. CallsInv' /\ AwayInv' /\ WagmiInv'
    BY <1>1, <1>2 DEF CallsInv, AwayInv, WagmiInv, backend
  <1>6. PostsInv' /\ NonceInv'
    BY <1>1, <1>2, BackendStays DEF PostsInv
  <1>7. QED
    BY <1>1, <1>2, <1>4, <1>5, <1>6 DEF WalletInv

LEMMA ReadIsAnsweredKeeps ==
  ASSUME WalletInv, NEW i \in Chains, ReadIsAnswered(i)
  PROVE  WalletInv'
  <1>1. /\ Running(i) /\ Holder(i).kind = "read" /\ chains' = Released(i, TRUE)
        /\ \/ linked' = linked
           \/ /\ Holder(i).wanted
              /\ linked' = [linked EXCEPT ![Holder(i).by] = permitted]
        /\ UNCHANGED <<disconnected, session, challenge, leaving, outside, backend, converting,
                       reloads>>
    BY DEF ReadIsAnswered
  <1>2. WalletTypeOK /\ CallsInv /\ WagmiInv /\ AwayInv /\ PostsInv /\ NonceInv
    BY DEF WalletInv
  <1>3. /\ chains' \in Seq(Seq(Call)) /\ Len(chains') = Len(chains) /\ SwapsWait(chains')
        /\ CallsIn(chains') \subseteq CallsIn(chains) /\ Holder(i) \in CallsIn(chains)
    BY <1>1, AnsweredCall
  <1>4. linked' \in [Hooks -> Account]
    BY <1>1, <1>2 DEF WalletTypeOK
  <1>5. WalletTypeOK'
    BY <1>1, <1>2, <1>3, <1>4 DEF WalletTypeOK, backend, outside, Current
  <1>6. CallsInv'
    BY <1>1, <1>2, <1>3, CallsStay DEF backend
  <1>7. Holder(i).wanted => ~disconnected
    BY <1>1, <1>2, <1>3 DEF CallsInv
  <1>8. AwayInv' /\ WagmiInv'
    BY <1>1, <1>2, <1>7 DEF AwayInv, WagmiInv, outside
  <1>9. PostsInv' /\ NonceInv'
    BY <1>1, <1>2, BackendStays DEF PostsInv
  <1>10. QED
    BY <1>3, <1>5, <1>6, <1>8, <1>9 DEF WalletInv

LEMMA ConnectIsAnsweredKeeps ==
  ASSUME WalletInv, NEW i \in Chains, ConnectIsAnswered(i)
  PROVE  WalletInv'
  <1>1. PICK ok \in BOOLEAN :
          /\ Running(i) /\ Holder(i).kind = "connect" /\ chains' = Released(i, ok)
          /\ \/ \E w \in Wallets : /\ permitted' = w /\ news' = TRUE
                                   /\ linked' = [linked EXCEPT ![Holder(i).by] = w]
             \/ UNCHANGED <<permitted, linked, news>>
          /\ UNCHANGED <<disconnected, session, challenge, leaving, wagmi, backend, converting,
                         reloads>>
    BY DEF ConnectIsAnswered
  <1>2. WalletTypeOK /\ CallsInv /\ WagmiInv /\ AwayInv /\ PostsInv /\ NonceInv
    BY DEF WalletInv
  <1>3. /\ chains' \in Seq(Seq(Call)) /\ Len(chains') = Len(chains) /\ SwapsWait(chains')
        /\ CallsIn(chains') \subseteq CallsIn(chains) /\ Holder(i) \in Call
    BY <1>1, AnsweredCall
  <1>4. Holder(i).by = Modal
    BY <1>1, <1>3 DEF Call
  <1>5. linked' \in [Hooks -> Account] /\ permitted' \in Account /\ news' \in BOOLEAN
    BY <1>1, <1>2 DEF WalletTypeOK, Account
  <1>6. WalletTypeOK'
    BY <1>1, <1>2, <1>3, <1>5 DEF WalletTypeOK, backend, Current
  <1>7. CallsInv'
    BY <1>1, <1>2, <1>3, CallsStay DEF backend
  <1>8. AwayInv' /\ WagmiInv'
    <2>1. \A h \in Hooks \ {Modal} : linked'[h] = linked[h]
      BY <1>1, <1>2, <1>4 DEF WalletTypeOK
    <2>2. QED
      BY <1>1, <1>2, <2>1 DEF AwayInv, WagmiInv
  <1>9. PostsInv' /\ NonceInv'
    BY <1>1, <1>2, BackendStays DEF PostsInv
  <1>10. QED
    BY <1>3, <1>6, <1>7, <1>8, <1>9 DEF WalletInv

LEMMA ConnectWalletKeeps ==
  ASSUME WalletInv, ConnectWallet
  PROVE  WalletInv'
  <1>1. PICK new : new = <<[kind |-> "connect", by |-> Modal]>>
                           \o (IF disconnected THEN Reads ELSE << >>)
    OBVIOUS
  <1>2. /\ disconnected' = FALSE /\ chains' = Queued(new)
        /\ linked' = linked \/ linked' = [h \in Hooks |-> wagmi.address]
        /\ UNCHANGED <<session, challenge, leaving, outside, backend, converting, reloads>>
    BY <1>1 DEF ConnectWallet
  <1>3. WalletTypeOK /\ CallsInv /\ WagmiInv /\ AwayInv /\ PostsInv /\ NonceInv
    BY DEF WalletInv
  <1>4. PICK e : e = [kind |-> "connect", by |-> Modal]
    OBVIOUS
  <1>5. e \in Call /\ e.kind = "connect"
    BY <1>4 DEF Call
  <1>6. PICK r \in Seq(Call) : /\ r = (IF disconnected THEN Reads ELSE << >>)
                               /\ \A k \in DOMAIN r : r[k].kind = "read"
    <2>1. << >> \in Seq(Call) /\ DOMAIN << >> = {}
      OBVIOUS
    <2>2. QED
      BY <2>1, ReadsTyped
  <1>7. new \in Seq(Call) /\ \A k \in DOMAIN new : new[k].kind \in {"read", "connect"}
    <2>1. new = <<e>> \o r /\ <<e>> \in Seq(Call) /\ Len(<<e>>) = 1 /\ <<e>>[1] = e
      BY <1>1, <1>4, <1>5, <1>6
    <2>2. /\ new \in Seq(Call) /\ Len(new) = 1 + Len(r)
          /\ \A k \in 1 .. 1 + Len(r) : new[k] = IF k <= 1 THEN <<e>>[k] ELSE r[k - 1]
      BY <2>1, ConcatProperties
    <2>3. /\ DOMAIN new = 1 .. Len(new) /\ DOMAIN r = 1 .. Len(r) /\ Len(r) \in Nat
      BY <2>2, LenProperties
    <2>4. ASSUME NEW k \in DOMAIN new PROVE new[k].kind \in {"read", "connect"}
      <3>1. CASE k = 1
        <4>1. 1 \in 1 .. 1 + Len(r)
          BY <2>3
        <4>2. new[k] = <<e>>[1]
          BY <2>2, <3>1, <4>1
        <4>3. QED
          BY <1>5, <2>1, <4>2
      <3>2. CASE k # 1
        <4>1. k \in 1 .. 1 + Len(r) /\ ~(k <= 1) /\ k - 1 \in DOMAIN r
          BY <2>2, <2>3, <3>2
        <4>2. new[k] = r[k - 1]
          BY <2>2, <4>1
        <4>3. QED
          BY <1>6, <4>1, <4>2
      <3>3. QED
        BY <3>1, <3>2
    <2>5. QED
      BY <2>2, <2>4
  <1>8. /\ chains' \in Seq(Seq(Call)) /\ Len(chains') = Len(chains) /\ SwapsWait(chains')
        /\ \A x \in CallsIn(chains') : x \in CallsIn(chains) \/ \E k \in DOMAIN new : x = new[k]
    BY <1>2, <1>7, QueuedCalls
  <1>9. linked' \in [Hooks -> Account]
    BY <1>2, <1>3 DEF WalletTypeOK
  <1>10. WalletTypeOK'
    BY <1>2, <1>3, <1>8, <1>9 DEF WalletTypeOK, backend, outside, Current
  <1>11. CallsInv'
    <2> SUFFICES ASSUME NEW x \in CallsIn(chains')
                 PROVE  x.kind = "sign" => x.nonce \in 1 .. Len(nonces)
      BY <1>2 DEF CallsInv, backend
    <2>1. CASE x \in CallsIn(chains)
      BY <1>3, <2>1 DEF CallsInv
    <2>2. CASE \E k \in DOMAIN new : x = new[k]
      BY <1>7, <2>2
    <2>3. QED
      BY <1>8, <2>1, <2>2
  <1>12. AwayInv' /\ WagmiInv'
    BY <1>2, <1>3 DEF AwayInv, WagmiInv, outside
  <1>13. PostsInv' /\ NonceInv'
    BY <1>2, <1>3, BackendStays DEF PostsInv
  <1>14. QED
    BY <1>8, <1>10, <1>11, <1>12, <1>13 DEF WalletInv

(* One call of a component is queued.                                      *)
LEMMA OneQueued ==
  ASSUME WalletInv, NEW e \in Call, e.kind # "ensure", chains' = Queued(<<e>>)
  PROVE  /\ chains' \in Seq(Seq(Call)) /\ Len(chains') = Len(chains) /\ SwapsWait(chains')
         /\ \A x \in CallsIn(chains') : x \in CallsIn(chains) \/ x = e
  <1>1. PICK new : new = <<e>>
    OBVIOUS
  <1>2. new \in Seq(Call) /\ DOMAIN new = {1} /\ new[1] = e
    BY <1>1
  <1>3. QED
    BY <1>1, <1>2, QueuedCalls

LEMMA SignInKeeps ==
  ASSUME WalletInv, NEW h \in Hooks, SignIn(h)
  PROVE  WalletInv'
  <1>1. PICK w : w = Active(h)
    OBVIOUS
  <1>2. PICK e : e = [kind |-> "sign", by |-> h, wallet |-> w, nonce |-> challenge[w]]
    OBVIOUS
  <1>3. /\ w # None /\ challenge[w] # 0 /\ chains' = Queued(<<e>>)
        /\ linked' = [linked EXCEPT ![h] = w] /\ session' = None
        /\ UNCHANGED <<disconnected, challenge, leaving, outside, backend, converting, reloads>>
    BY <1>1, <1>2 DEF SignIn
  <1>4. WalletTypeOK /\ CallsInv /\ WagmiInv /\ AwayInv /\ PostsInv /\ NonceInv
    BY DEF WalletInv
  <1>5. w \in Wallets /\ ~disconnected
    BY <1>1, <1>3, <1>4 DEF Active, WalletTypeOK, Account
  <1>6. challenge[w] \in 1 .. MaxNonces /\ challenge[w] \in 1 .. Len(nonces)
    BY <1>3, <1>4, <1>5, TypeFacts DEF PostsInv
  <1>7. e \in Call /\ e.kind = "sign" /\ e.nonce \in 1 .. Len(nonces)
    <2>1. e \in [kind : {"sign"}, by : Hooks, wallet : Wallets, nonce : 1 .. MaxNonces]
      BY <1>2, <1>5, <1>6
    <2>2. QED
      BY <1>2, <1>6, <2>1 DEF Call
  <1>8. /\ chains' \in Seq(Seq(Call)) /\ Len(chains') = Len(chains) /\ SwapsWait(chains')
        /\ \A x \in CallsIn(chains') : x \in CallsIn(chains) \/ x = e
    BY <1>3, <1>7, OneQueued
  <1>9. linked' \in [Hooks -> Account] /\ session' \in Account
    BY <1>3, <1>4, <1>5 DEF WalletTypeOK, Account
  <1>10. WalletTypeOK'
    BY <1>3, <1>4, <1>8, <1>9 DEF WalletTypeOK, backend, outside, Current
  <1>11. CallsInv'
    BY <1>3, <1>4, <1>7, <1>8 DEF CallsInv, backend
  <1>12. AwayInv' /\ WagmiInv'
    BY <1>3, <1>4, <1>5 DEF AwayInv, WagmiInv, outside
  <1>13. PostsInv' /\ NonceInv'
    BY <1>3, <1>4, BackendStays DEF PostsInv
  <1>14. QED
    BY <1>8, <1>10, <1>11, <1>12, <1>13 DEF WalletInv

LEMMA ConvertKeeps ==
  ASSUME WalletInv, NEW h \in Hooks, Convert(h)
  PROVE  WalletInv'
  <1>1. /\ converting' = converting \cup {h}
        /\ UNCHANGED <<chains, linked, disconnected, session, challenge, leaving, wagmi, permitted,
                       news, backend, reloads>>
    BY DEF Convert, browser, outside
  <1>2. WalletTypeOK /\ SwapsWait(chains) /\ CallsInv /\ WagmiInv /\ AwayInv /\ PostsInv /\ NonceInv
    BY DEF WalletInv
  <1>3. WalletTypeOK'
    <2>1. converting' \subseteq Hooks
      BY <1>1, <1>2 DEF WalletTypeOK
    <2>2. QED
      BY <1>1, <1>2, <2>1 DEF WalletTypeOK, backend, Current
  <1>4. CallsInv' /\ AwayInv' /\ WagmiInv'
    BY <1>1, <1>2 DEF CallsInv, AwayInv, WagmiInv, backend
  <1>5. PostsInv' /\ NonceInv'
    BY <1>1, <1>2, BackendStays DEF PostsInv
  <1>6. QED
    BY <1>1, <1>2, <1>3, <1>4, <1>5 DEF WalletInv

LEMMA SendTransactionKeeps ==
  ASSUME WalletInv, NEW h \in Hooks, SendTransaction(h)
  PROVE  WalletInv'
  <1>1. PICK e : e = [kind |-> "send", by |-> h, stage |-> "started"]
    OBVIOUS
  <1>2. /\ chains' = Queued(<<e>>) \/ chains' = chains
        /\ converting' = converting \ {h}
        /\ UNCHANGED <<linked, disconnected, session, challenge, leaving, outside, backend, reloads>>
    BY <1>1 DEF SendTransaction
  <1>3. WalletTypeOK /\ SwapsWait(chains) /\ CallsInv /\ WagmiInv /\ AwayInv /\ PostsInv /\ NonceInv
    BY DEF WalletInv
  <1>4. e \in Call /\ e.kind = "send"
    BY <1>1 DEF Call
  <1>5. /\ chains' \in Seq(Seq(Call)) /\ Len(chains') = Len(chains) /\ SwapsWait(chains')
        /\ \A x \in CallsIn(chains') : x \in CallsIn(chains) \/ x = e
    <2>1. CASE chains' = Queued(<<e>>)
      BY <1>4, <2>1, OneQueued
    <2>2. CASE chains' = chains
      BY <1>3, <2>2 DEF WalletTypeOK
    <2>3. QED
      BY <1>2, <2>1, <2>2
  <1>6. WalletTypeOK'
    <2>1. converting' \subseteq Hooks
      BY <1>2, <1>3 DEF WalletTypeOK
    <2>2. QED
      BY <1>2, <1>3, <1>5, <2>1 DEF WalletTypeOK, backend, outside, Current
  <1>7. CallsInv'
    BY <1>2, <1>3, <1>4, <1>5, CallsStay DEF backend
  <1>8. AwayInv' /\ WagmiInv'
    BY <1>2, <1>3 DEF AwayInv, WagmiInv, outside
  <1>9. PostsInv' /\ NonceInv'
    BY <1>2, <1>3, BackendStays DEF PostsInv
  <1>10. QED
    BY <1>5, <1>6, <1>7, <1>8, <1>9 DEF WalletInv

LEMMA LockStepKeeps ==
  ASSUME WalletInv, NEW i \in Chains, LockStep(i),
         UNCHANGED <<linked, disconnected, session, challenge, leaving, outside, backend,
                     converting, reloads>>
  PROVE  WalletInv'
  <1>1. WalletTypeOK /\ SwapsWait(chains) /\ CallsInv /\ WagmiInv /\ AwayInv /\ PostsInv /\ NonceInv
        /\ chains \in Seq(Seq(Call)) /\ Len(chains) \in 1 .. MaxDisconnects + 1
        /\ i \in DOMAIN chains
    BY DEF WalletInv, WalletTypeOK, Current, Chains
  <1>2. /\ chains' \in Seq(Seq(Call)) /\ Len(chains') = Len(chains) /\ SwapsWait(chains')
        /\ \A x \in CallsIn(chains') : x \in CallsIn(chains) \/ x.kind \in {"send", "ensure"}
    <2>1. CASE EnsureChain(i)
      BY <1>1, <2>1, SwapAsks
    <2>2. CASE \E ok \in BOOLEAN : ChainIsEnsured(i, ok)
      BY <1>1, <2>2, SwitchEnds
    <2>3. CASE SendIsAnswered(i)
      <3>1. PICK ok \in BOOLEAN : chains' = Released(i, ok)
        BY <2>3 DEF SendIsAnswered
      <3>2. chains[i] # << >> /\ chains[i][1].kind = "send" /\ chains[i][1].stage = "asked"
        BY <1>1, <2>3, ChainsTyped DEF SendIsAnswered, Running, Holder
      <3>3. chains[i][1].kind # "ensure" /\ ~Swapping(chains[i][1])
        BY <3>2 DEF Swapping
      <3>4. PICK d : d = chains' /\ d = Ended(chains, i)
        BY <3>1 DEF Released, Ended
      <3>5. d \in Seq(Seq(Call)) /\ Len(d) = Len(chains) /\ SwapsWait(d)
            /\ CallsIn(d) \subseteq CallsIn(chains)
        BY <1>1, <3>2, <3>3, <3>4, CallEnds
      <3>6. QED
        BY <3>4, <3>5
    <2>4. QED
      BY <2>1, <2>2, <2>3 DEF LockStep
  <1>3. WalletTypeOK'
    BY <1>1, <1>2 DEF WalletTypeOK, backend, outside, Current
  <1>4. CallsInv'
    BY <1>1, <1>2, CallsStay DEF backend
  <1>5. AwayInv' /\ WagmiInv'
    BY <1>1 DEF AwayInv, WagmiInv, outside
  <1>6. PostsInv' /\ NonceInv'
    BY <1>1, BackendStays DEF PostsInv
  <1>7. QED
    BY <1>2, <1>3, <1>4, <1>5, <1>6 DEF WalletInv

LEMMA SignOutKeeps ==
  ASSUME WalletInv, SignOut
  PROVE  WalletInv'
  <1>1. /\ Current <= MaxDisconnects /\ session' = None /\ linked' = [h \in Hooks |-> None]
        /\ challenge' = [w \in Wallets |-> 0] /\ disconnected' = TRUE /\ chains' = ResetChain
        /\ leaving' = "revoke" /\ UNCHANGED <<outside, backend, converting, reloads>>
    BY DEF SignOut
  <1>2. WalletTypeOK /\ SwapsWait(chains) /\ CallsInv /\ WagmiInv /\ AwayInv /\ PostsInv /\ NonceInv
        /\ chains \in Seq(Seq(Call)) /\ Current \in 1 .. MaxDisconnects + 1
    BY DEF WalletInv, WalletTypeOK
  <1>3. PICK d : d = chains'
    OBVIOUS
  <1>4. /\ d \in Seq(Seq(Call)) /\ Len(d) = Len(chains) + 1 /\ SwapsWait(d)
        /\ \A x \in CallsIn(d) :
             (x.kind = "read" => ~x.wanted) /\ (x.kind # "read" => x \in CallsIn(chains))
    BY <1>1, <1>2, <1>3, ResetKeeps
  <1>5. Current' \in 1 .. MaxDisconnects + 1
    <2>1. Current' = Current + 1
      BY <1>3, <1>4 DEF Current
    <2>2. QED
      BY <1>1, <1>2, <2>1, LockConstants
  <1>6. challenge' \in [Wallets -> 0 .. MaxNonces] /\ linked' \in [Hooks -> Account]
        /\ session' \in Account
    BY <1>1, SessionConstants DEF Account
  <1>7. WalletTypeOK'
    BY <1>1, <1>2, <1>3, <1>4, <1>5, <1>6 DEF WalletTypeOK, backend, outside
  <1>8. CallsInv'
    BY <1>1, <1>2, <1>3, <1>4 DEF CallsInv, backend
  <1>9. AwayInv' /\ WagmiInv'
    BY <1>1, <1>2 DEF AwayInv, WagmiInv, outside
  <1>10. PostsInv' /\ NonceInv'
    <2>1. \A w \in Wallets : challenge'[w] <= Len(nonces)
      BY <1>1, <1>2, TypeFacts
    <2>2. QED
      BY <1>1, <1>2, <2>1, BackendStays
  <1>11. QED
    BY <1>3, <1>4, <1>7, <1>8, <1>9, <1>10 DEF WalletInv

LEMMA PrefetchKeeps ==
  ASSUME WalletInv, NEW h \in Hooks, Prefetch(h)
  PROVE  WalletInv'
  <1>1. PICK q : q = [stage |-> "create", by |-> h, wallet |-> Active(h), nonce |-> 0,
                      heard |-> TRUE]
    OBVIOUS
  <1>2. /\ Active(h) # None /\ Cardinality(posts) < MaxPosts
        /\ Len(nonces) + Cardinality(Creating) < MaxNonces
        /\ posts' = posts \cup {q}
        /\ UNCHANGED <<browser, outside, nonces, issued, converting, reloads>>
    BY <1>1 DEF Prefetch, Creating
  <1>3. WalletTypeOK /\ SwapsWait(chains) /\ CallsInv /\ WagmiInv /\ AwayInv /\ PostsInv /\ NonceInv
    BY DEF WalletInv
  <1>4. Active(h) \in Wallets
    BY <1>2, <1>3 DEF Active, WalletTypeOK, Account
  <1>5. q \in Post /\ q.stage = "create"
    BY <1>1, <1>4, SessionConstants DEF Post, PostStages
  <1>6. /\ posts' \subseteq Post /\ IsFiniteSet(posts') /\ Cardinality(posts') <= MaxPosts
        /\ Cardinality(Creating') <= Cardinality(Creating) + 1
        /\ \A n : Marking(n)' = Marking(n)
    BY <1>2, <1>3, <1>5, PostIsMade
  <1>7. WalletTypeOK'
    BY <1>2, <1>3, <1>6 DEF WalletTypeOK, browser, outside, Current
  <1>8. CallsInv' /\ WagmiInv' /\ AwayInv' /\ SwapsWait(chains')
    BY <1>2, <1>3 DEF CallsInv, WagmiInv, AwayInv, browser, outside
  <1>9. PostsInv'
    <2>1. PICK a : a = Cardinality(Creating')
      OBVIOUS
    <2>2. a \in Nat
      <3>1. Creating' \subseteq posts'
        BY DEF Creating
      <3>2. QED
        BY <1>6, <2>1, <3>1, FS_Subset, FS_CardinalityType
    <2>3. Cardinality(Creating) \in Nat /\ Len(nonces) \in Nat /\ MaxNonces \in Nat
      BY <1>3, TypeFacts, PartsAreFinite DEF PostsInv
    <2>4. Len(nonces) + a <= MaxNonces
      BY <1>2, <1>6, <2>1, <2>2, <2>3
    <2>5. \A p \in posts' : p.stage # "create" => p.nonce \in 1 .. Len(nonces)
      BY <1>2, <1>3, <1>5 DEF PostsInv
    <2>6. nonces' = nonces /\ challenge' = challenge
      BY <1>2 DEF browser
    <2>7. QED
      BY <1>3, <1>6, <2>1, <2>4, <2>5, <2>6 DEF PostsInv
  <1>10. NonceInv'
    BY <1>2, <1>3, <1>6 DEF NonceInv
  <1>11. QED
    BY <1>7, <1>8, <1>9, <1>10 DEF WalletInv

LEMMA ChallengeArrivesKeeps ==
  ASSUME WalletInv, NEW p \in posts, ChallengeArrives(p)
  PROVE  WalletInv'
  <1>1. /\ p.stage = "create" /\ posts' = posts \ {p}
        /\ nonces' = Append(nonces, [wallet |-> p.wallet, state |-> "fresh"])
        /\ challenge' = challenge \/ challenge' = [challenge EXCEPT ![p.wallet] = Len(nonces')]
        /\ UNCHANGED <<chains, linked, disconnected, session, leaving, outside, issued, converting,
                       reloads>>
    BY DEF ChallengeArrives
  <1>2. WalletTypeOK /\ SwapsWait(chains) /\ CallsInv /\ WagmiInv /\ AwayInv /\ PostsInv /\ NonceInv
    BY DEF WalletInv
  <1>3. PICK m : m = Len(nonces)
    OBVIOUS
  <1>4. /\ m \in Nat /\ nonces' \in Seq(Nonce) /\ Len(nonces') = m + 1
        /\ nonces'[m + 1].state = "fresh" /\ \A n \in 1 .. m : nonces'[n] = nonces[n]
    <2>1. PICK e : e = [wallet |-> p.wallet, state |-> "fresh"]
      OBVIOUS
    <2>2. e \in Nonce /\ e.state = "fresh"
      BY <1>2, <2>1, TypeFacts DEF Nonce
    <2>3. nonces \in Seq(Nonce) /\ nonces' = Append(nonces, e)
      BY <1>1, <1>2, <2>1 DEF WalletTypeOK
    <2>4. QED
      BY <1>3, <2>2, <2>3
  <1>5. /\ posts' \subseteq Post /\ IsFiniteSet(posts') /\ Cardinality(posts') <= MaxPosts
        /\ Cardinality(Creating') = Cardinality(Creating) - 1
        /\ \A n : Cardinality(Marking(n)') <= Cardinality(Marking(n))
    BY <1>1, <1>2, PostGoes
  <1>6. PICK c : c = Cardinality(Creating) /\ c \in Nat /\ m + c <= MaxNonces /\ MaxNonces \in Nat
    BY <1>2, <1>3, TypeFacts, PartsAreFinite DEF PostsInv
  <1>7. m + 1 <= MaxNonces /\ m + 1 + Cardinality(Creating') <= MaxNonces
    <2>1. Cardinality(Creating') \in Nat
      <3>1. Creating' \subseteq posts'
        BY DEF Creating
      <3>2. QED
        BY <1>5, <3>1, FS_Subset, FS_CardinalityType
    <2>2. PICK a \in Nat : a = Cardinality(Creating') /\ a = c - 1
      BY <1>5, <1>6, <2>1
    <2>3. m + 1 <= MaxNonces /\ m + 1 + a <= MaxNonces
      BY <1>4, <1>6, <2>2
    <2>4. QED
      BY <2>2, <2>3
  <1>8. challenge' \in [Wallets -> 0 .. MaxNonces]
        /\ \A w \in Wallets : challenge'[w] <= m + 1
    <2>1. \A w \in Wallets : challenge[w] \in 0 .. MaxNonces /\ challenge[w] <= m
      BY <1>2, <1>3, TypeFacts DEF PostsInv
    <2>2. m + 1 \in 0 .. MaxNonces
      BY <1>4, <1>6, <1>7
    <2>3. challenge \in [Wallets -> 0 .. MaxNonces]
      BY <1>2 DEF WalletTypeOK
    <2>4. CASE challenge' = challenge
      <3>1. \A w \in Wallets : challenge[w] <= m + 1
        BY <1>4, <1>6, <2>1
      <3>2. QED
        BY <2>3, <2>4, <3>1
    <2>5. CASE challenge' = [challenge EXCEPT ![p.wallet] = m + 1]
      <3>1. PICK k : k = m + 1
        OBVIOUS
      <3>2. challenge' = [challenge EXCEPT ![p.wallet] = k] /\ k \in 0 .. MaxNonces
        BY <2>2, <2>5, <3>1
      <3>3. challenge' \in [Wallets -> 0 .. MaxNonces]
        BY <2>3, <3>2
      <3>4. ASSUME NEW w \in Wallets PROVE challenge'[w] = k \/ challenge'[w] = challenge[w]
        BY <2>3, <3>2
      <3>5. \A w \in Wallets : challenge[w] <= k /\ k <= k
        BY <1>4, <2>1, <3>1
      <3>6. \A w \in Wallets : challenge'[w] <= k
        BY <3>4, <3>5
      <3>7. QED
        BY <3>1, <3>3, <3>6
    <2>6. challenge' = challenge \/ challenge' = [challenge EXCEPT ![p.wallet] = m + 1]
      <3>1. PICK k : k = Len(nonces') /\ k = m + 1
        BY <1>4
      <3>2. QED
        BY <1>1, <3>1
    <2>7. QED
      BY <2>4, <2>5, <2>6
  <1>9. WalletTypeOK'
    BY <1>1, <1>2, <1>4, <1>5, <1>8 DEF WalletTypeOK, outside, Current
  <1>10. CallsInv' /\ WagmiInv' /\ AwayInv' /\ SwapsWait(chains')
    <2>1. \A x \in CallsIn(chains) : x.kind = "sign" => x.nonce \in 1 .. Len(nonces')
      BY <1>2, <1>3, <1>4 DEF CallsInv
    <2>2. QED
      BY <1>1, <1>2, <2>1 DEF CallsInv, WagmiInv, AwayInv, outside
  <1>11. PostsInv'
    <2>1. \A x \in posts' : x.stage # "create" => x.nonce \in 1 .. m + 1
      BY <1>1, <1>2, <1>3, <1>4 DEF PostsInv
    <2>2. QED
      BY <1>4, <1>5, <1>7, <1>8, <2>1 DEF PostsInv
  <1>12. NonceInv'
    <2>1. \A n \in 1 .. MaxNonces : issued'[n] + Cardinality(Marking(n)') <= MaxPosts
      <3> SUFFICES ASSUME NEW n \in 1 .. MaxNonces
                   PROVE  issued[n] + Cardinality(Marking(n)') <= MaxPosts
        BY <1>1
      <3>1. PICK k : k = Cardinality(Marking(n)')
        OBVIOUS
      <3>2. k \in Nat
        <4>1. Marking(n)' \subseteq posts'
          BY DEF Marking
        <4>2. QED
          BY <1>5, <3>1, <4>1, FS_Subset, FS_CardinalityType
      <3>3. issued[n] \in Nat /\ Cardinality(Marking(n)) \in Nat /\ MaxPosts \in Nat
        BY <1>2, TypeFacts, PartsAreFinite DEF PostsInv
      <3>4. issued[n] + Cardinality(Marking(n)) <= MaxPosts /\ k <= Cardinality(Marking(n))
        BY <1>2, <1>5, <3>1 DEF NonceInv
      <3>5. QED
        BY <3>1, <3>2, <3>3, <3>4
    <2>2. \A n \in 1 .. MaxNonces : n > m => issued[n] = 0
      BY <1>2, <1>3 DEF NonceInv
    <2>3. \A n \in 1 .. MaxNonces : n > m + 1 => issued[n] = 0
      BY <1>4, <2>2
    <2>4. \A n \in 1 .. m + 1 : nonces'[n].state = "fresh" => issued[n] = 0
      <3> SUFFICES ASSUME NEW n \in 1 .. m + 1, nonces'[n].state = "fresh" PROVE issued[n] = 0
        OBVIOUS
      <3>1. CASE n = m + 1
        BY <1>4, <1>6, <1>7, <2>2, <3>1
      <3>2. CASE n # m + 1
        <4>1. n \in 1 .. m
          BY <1>4, <3>2
        <4>2. QED
          BY <1>2, <1>3, <1>4, <4>1 DEF NonceInv
      <3>3. QED
        BY <3>1, <3>2
    <2>5. QED
      BY <1>1, <1>4, <2>1, <2>3, <2>4 DEF NonceInv
  <1>13. QED
    BY <1>9, <1>10, <1>11, <1>12 DEF WalletInv

LEMMA SignIsAnsweredKeeps ==
  ASSUME WalletInv, NEW i \in Chains, SignIsAnswered(i)
  PROVE  WalletInv'
  <1>1. PICK me : me = Holder(i)
    OBVIOUS
  <1>2. PICK q : q = [stage |-> "find", by |-> me.by, wallet |-> me.wallet,
                      nonce |-> me.nonce, heard |-> TRUE]
    OBVIOUS
  <1>3. PICK ok \in BOOLEAN :
          /\ Running(i) /\ me.kind = "sign" /\ chains' = Released(i, ok)
          /\ \/ Cardinality(posts) < MaxPosts /\ posts' = posts \cup {q}
             \/ posts' = posts
          /\ UNCHANGED <<linked, disconnected, session, challenge, leaving, outside, nonces, issued,
                         converting, reloads>>
    BY <1>1, <1>2 DEF SignIsAnswered
  <1>4. WalletTypeOK /\ CallsInv /\ WagmiInv /\ AwayInv /\ PostsInv /\ NonceInv
    BY DEF WalletInv
  <1>5. /\ chains' \in Seq(Seq(Call)) /\ Len(chains') = Len(chains) /\ SwapsWait(chains')
        /\ CallsIn(chains') \subseteq CallsIn(chains)
        /\ me \in Call /\ me \in CallsIn(chains)
    BY <1>1, <1>3, AnsweredCall
  <1>6. /\ q \in Post /\ q.stage = "find" /\ q.nonce = me.nonce
        /\ me.nonce \in 1 .. Len(nonces)
    <2>1. me \in [kind : {"sign"}, by : Hooks, wallet : Wallets, nonce : 1 .. MaxNonces]
      BY <1>3, <1>5 DEF Call
    <2>2. me.nonce \in 1 .. Len(nonces)
      BY <1>3, <1>4, <1>5 DEF CallsInv
    <2>3. me.nonce \in 0 .. MaxNonces /\ me.by \in Hooks /\ me.wallet \in Wallets
      BY <2>1, SessionConstants
    <2>4. QED
      BY <1>2, <2>2, <2>3 DEF Post, PostStages
  <1>7. /\ posts' \subseteq Post /\ IsFiniteSet(posts') /\ Cardinality(posts') <= MaxPosts
        /\ Cardinality(Creating') <= Cardinality(Creating)
        /\ \A n : Marking(n)' = Marking(n)
    <2>1. CASE Cardinality(posts) < MaxPosts /\ posts' = posts \cup {q}
      <3>1. /\ posts' \subseteq Post /\ IsFiniteSet(posts') /\ Cardinality(posts') <= MaxPosts
            /\ \A n : Marking(n)' = Marking(n)
        BY <1>4, <1>6, <2>1, PostIsMade
      <3>2. Creating' = Creating
        BY <1>6, <2>1 DEF Creating
      <3>3. Cardinality(Creating) \in Nat
        BY <1>4, PartsAreFinite DEF PostsInv
      <3>4. QED
        BY <3>1, <3>2, <3>3
    <2>2. CASE posts' = posts
      <3>1. Creating' = Creating /\ \A n : Marking(n)' = Marking(n)
        BY <2>2 DEF Creating, Marking
      <3>2. Cardinality(Creating) \in Nat
        BY <1>4, PartsAreFinite DEF PostsInv
      <3>3. QED
        BY <1>4, <2>2, <3>1, <3>2 DEF PostsInv, WalletTypeOK
    <2>3. QED
      BY <1>3, <2>1, <2>2
  <1>8. WalletTypeOK'
    BY <1>3, <1>4, <1>5, <1>7 DEF WalletTypeOK, outside, Current
  <1>9. CallsInv'
    BY <1>3, <1>4, <1>5, CallsStay
  <1>10. AwayInv' /\ WagmiInv'
    BY <1>3, <1>4 DEF AwayInv, WagmiInv, outside
  <1>11. PostsInv'
    <2>1. \A x \in posts' : x.stage # "create" => x.nonce \in 1 .. Len(nonces)
      BY <1>3, <1>4, <1>6 DEF PostsInv
    <2>2. Len(nonces) + Cardinality(Creating') <= MaxNonces
      <3>1. PICK a \in Nat : a = Cardinality(Creating')
        <4>1. Creating' \subseteq posts'
          BY DEF Creating
        <4>2. QED
          BY <1>7, <4>1, FS_Subset, FS_CardinalityType
      <3>2. Cardinality(Creating) \in Nat /\ Len(nonces) \in Nat /\ MaxNonces \in Nat
        BY <1>4, TypeFacts, PartsAreFinite DEF PostsInv
      <3>3. QED
        BY <1>4, <1>7, <3>1, <3>2 DEF PostsInv
    <2>3. QED
      BY <1>3, <1>4, <1>7, <2>1, <2>2 DEF PostsInv
  <1>12. NonceInv'
    BY <1>3, <1>4, <1>7 DEF NonceInv
  <1>13. QED
    BY <1>5, <1>8, <1>9, <1>10, <1>11, <1>12 DEF WalletInv

LEMMA FindNonceKeeps ==
  ASSUME WalletInv, NEW p \in posts, FindNonce(p)
  PROVE  WalletInv'
  <1>1. PICK q : q = [p EXCEPT !.stage = "mark"]
    OBVIOUS
  <1>2. /\ p.stage = "find"
        /\ \/ nonces[p.nonce].state = "fresh" /\ posts' = (posts \ {p}) \cup {q}
           \/ posts' = posts \ {p}
        /\ UNCHANGED <<browser, outside, converting, reloads, nonces, issued>>
    BY <1>1 DEF FindNonce, Usable, Move, VerifyElse
  <1>3. WalletTypeOK /\ SwapsWait(chains) /\ CallsInv /\ WagmiInv /\ AwayInv /\ PostsInv /\ NonceInv
    BY DEF WalletInv
  <1>4. q \in Post /\ q.stage = "mark" /\ q.nonce = p.nonce /\ p.nonce \in 1 .. Len(nonces)
    <2>1. p \in Post /\ "mark" \in PostStages
      BY <1>3, TypeFacts DEF PostStages
    <2>2. p.nonce \in 1 .. Len(nonces)
      BY <1>2, <1>3 DEF PostsInv
    <2>3. QED
      BY <1>1, <2>1, <2>2, PostsChange
  <1>5. /\ posts' \subseteq Post /\ IsFiniteSet(posts') /\ Cardinality(posts') <= MaxPosts
        /\ Cardinality(Creating') <= Cardinality(Creating)
        /\ \A n : n # p.nonce => Cardinality(Marking(n)') <= Cardinality(Marking(n))
    <2>1. CASE posts' = (posts \ {p}) \cup {q}
      BY <1>3, <1>4, <2>1, PostMoves
    <2>2. CASE posts' = posts \ {p}
      <3>1. /\ posts' \subseteq Post /\ IsFiniteSet(posts') /\ Cardinality(posts') <= MaxPosts
            /\ Cardinality(Creating')
                 = Cardinality(Creating) - (IF p.stage = "create" THEN 1 ELSE 0)
            /\ \A n : Cardinality(Marking(n)') <= Cardinality(Marking(n))
        BY <1>3, <2>2, PostGoes
      <3>2. PICK a : a = Cardinality(Creating')
        OBVIOUS
      <3>3. PICK c \in Nat : c = Cardinality(Creating)
        BY <1>3, PartsAreFinite DEF PostsInv
      <3>4. a <= c
        BY <1>2, <3>1, <3>2, <3>3
      <3>5. QED
        BY <2>2, <3>1, <3>2, <3>3, <3>4
    <2>3. QED
      BY <1>2, <2>1, <2>2
  <1>6. WalletTypeOK'
    BY <1>2, <1>3, <1>5 DEF WalletTypeOK, browser, outside, Current
  <1>7. CallsInv' /\ WagmiInv' /\ AwayInv' /\ SwapsWait(chains')
    BY <1>2, <1>3 DEF CallsInv, WagmiInv, AwayInv, browser, outside
  <1>8. PostsInv'
    <2>1. \A x \in posts' : x.stage # "create" => x.nonce \in 1 .. Len(nonces)
      BY <1>2, <1>3, <1>4 DEF PostsInv
    <2>2. QED
      <3>1. nonces' = nonces /\ \A w \in Wallets : challenge'[w] <= Len(nonces)
        BY <1>2, <1>3 DEF browser, PostsInv
      <3>2. QED
        BY <1>3, <1>5, <2>1, <3>1, FewerCreated
  <1>9. NonceInv'
    <2>1. CASE posts' = posts \ {p}
      <3>1. IsFiniteSet(posts') /\ \A n : Cardinality(Marking(n)') <= Cardinality(Marking(n))
        BY <1>3, <2>1, PostGoes
      <3>2. QED
        BY <1>2, <1>3, <3>1, NoTokenMade
    <2>2. CASE nonces[p.nonce].state = "fresh"
      <3>1. issued[p.nonce] = 0 /\ p.nonce \in 1 .. MaxNonces
        <4>1. Len(nonces) \in Nat /\ MaxNonces \in Nat /\ p.nonce \in 0 .. MaxNonces
          BY <1>3, TypeFacts
        <4>2. QED
          BY <1>3, <1>4, <2>2, <4>1 DEF NonceInv
      <3>2. ASSUME NEW n \in 1 .. MaxNonces
            PROVE  issued[n] + Cardinality(Marking(n)') <= MaxPosts
        <4>1. PICK k : k = Cardinality(Marking(n)')
          OBVIOUS
        <4>2. k \in Nat /\ k <= Cardinality(posts') /\ Cardinality(posts') \in Nat
          <5>1. Marking(n)' \subseteq posts'
            BY DEF Marking
          <5>2. QED
            BY <1>5, <4>1, <5>1, FS_Subset, FS_CardinalityType
        <4>3. issued[n] \in Nat /\ Cardinality(Marking(n)) \in Nat /\ MaxPosts \in Nat
          BY <1>3, TypeFacts, PartsAreFinite DEF PostsInv
        <4>4. CASE n = p.nonce
          BY <1>5, <3>1, <4>1, <4>2, <4>3, <4>4
        <4>5. CASE n # p.nonce
          <5>1. issued[n] + Cardinality(Marking(n)) <= MaxPosts /\ k <= Cardinality(Marking(n))
            BY <1>3, <1>5, <4>1, <4>5 DEF NonceInv
          <5>2. QED
            BY <4>1, <4>2, <4>3, <5>1
        <4>6. QED
          BY <4>4, <4>5
      <3>3. QED
        BY <1>2, <1>3, <3>2 DEF NonceInv
    <2>3. QED
      BY <1>2, <2>1, <2>2
  <1>10. QED
    BY <1>6, <1>7, <1>8, <1>9 DEF WalletInv

LEMMA PostIsLostKeeps ==
  ASSUME WalletInv, NEW p \in posts, PostIsLost(p)
  PROVE  WalletInv'
  <1>1. PICK q : q = [p EXCEPT !.heard = FALSE]
    OBVIOUS
  <1>2. /\ posts' = (posts \ {p}) \cup {q}
        /\ UNCHANGED <<browser, outside, converting, reloads, nonces, issued>>
    BY <1>1 DEF PostIsLost, VerifyElse
  <1>3. WalletTypeOK /\ SwapsWait(chains) /\ CallsInv /\ WagmiInv /\ AwayInv /\ PostsInv /\ NonceInv
    BY DEF WalletInv
  <1>4. q \in Post /\ q.stage = p.stage /\ q.nonce = p.nonce
    <2>1. p \in Post /\ "mark" \in PostStages
      BY <1>3, TypeFacts DEF PostStages
    <2>2. QED
      BY <1>1, <2>1, PostsChange
  <1>5. /\ posts' \subseteq Post /\ IsFiniteSet(posts') /\ Cardinality(posts') <= MaxPosts
        /\ Cardinality(Creating') <= Cardinality(Creating)
        /\ \A n : Cardinality(Marking(n)') <= Cardinality(Marking(n))
    BY <1>2, <1>3, <1>4, PostMoves
  <1>6. WalletTypeOK'
    BY <1>2, <1>3, <1>5 DEF WalletTypeOK, browser, outside, Current
  <1>7. CallsInv' /\ WagmiInv' /\ AwayInv' /\ SwapsWait(chains')
    BY <1>2, <1>3 DEF CallsInv, WagmiInv, AwayInv, browser, outside
  <1>8. PostsInv'
    <2>1. \A x \in posts' : x.stage # "create" => x.nonce \in 1 .. Len(nonces)
      BY <1>2, <1>3, <1>4 DEF PostsInv
    <2>2. QED
      <3>1. nonces' = nonces /\ \A w \in Wallets : challenge'[w] <= Len(nonces)
        BY <1>2, <1>3 DEF browser, PostsInv
      <3>2. QED
        BY <1>3, <1>5, <2>1, <3>1, FewerCreated
  <1>9. NonceInv'
    BY <1>2, <1>3, <1>5, NoTokenMade
  <1>10. QED
    BY <1>6, <1>7, <1>8, <1>9 DEF WalletInv

LEMMA NonceExpiresKeeps ==
  ASSUME WalletInv, NEW n \in DOMAIN nonces, NonceExpires(n)
  PROVE  WalletInv'
  <1>1. /\ nonces' = [nonces EXCEPT ![n].state = "expired"]
        /\ UNCHANGED <<browser, outside, converting, reloads, posts, issued>>
    BY DEF NonceExpires, VerifyElse
  <1>2. WalletTypeOK /\ SwapsWait(chains) /\ CallsInv /\ WagmiInv /\ AwayInv /\ PostsInv /\ NonceInv
    BY DEF WalletInv
  <1>3. /\ nonces' \in Seq(Nonce) /\ Len(nonces') = Len(nonces)
        /\ \A m \in 1 .. Len(nonces) : nonces'[m].state = "fresh" => nonces[m].state = "fresh"
    BY <1>1, <1>2, NonceTurns
  <1>4. WalletTypeOK'
    BY <1>1, <1>2, <1>3 DEF WalletTypeOK, browser, outside, Current
  <1>5. CallsInv' /\ WagmiInv' /\ AwayInv' /\ SwapsWait(chains')
    BY <1>1, <1>2, <1>3 DEF CallsInv, WagmiInv, AwayInv, browser, outside
  <1>6. Creating' = Creating /\ \A m : Marking(m)' = Marking(m)
    BY <1>1 DEF Creating, Marking
  <1>7. PostsInv' /\ NonceInv'
    BY <1>1, <1>2, <1>3, <1>6 DEF PostsInv, NonceInv, browser
  <1>8. QED
    BY <1>4, <1>5, <1>7 DEF WalletInv

LEMMA MarkNonceKeeps ==
  ASSUME WalletInv, NEW p \in posts, MarkNonce(p)
  PROVE  WalletInv'
  <1>1. PICK q : q = [p EXCEPT !.stage = "accepted"]
    OBVIOUS
  <1>2. PICK n : n = p.nonce
    OBVIOUS
  <1>3. /\ p.stage = "mark"
        /\ nonces' = [nonces EXCEPT ![n].state = "used"]
        /\ issued' = [issued EXCEPT ![n] = issued[n] + 1]
        /\ posts' = (posts \ {p}) \cup {q}
        /\ UNCHANGED <<browser, outside, converting, reloads>>
    BY <1>1, <1>2 DEF MarkNonce, Move, VerifyElse
  <1>4. WalletTypeOK /\ SwapsWait(chains) /\ CallsInv /\ WagmiInv /\ AwayInv /\ PostsInv /\ NonceInv
    BY DEF WalletInv
  <1>5. /\ q \in Post /\ q.stage = "accepted" /\ q.nonce = n
        /\ n \in 1 .. Len(nonces) /\ n \in DOMAIN nonces /\ n \in 1 .. MaxNonces
    <2>1. p \in Post /\ "accepted" \in PostStages /\ MaxNonces \in Nat /\ Len(nonces) \in Nat
          /\ DOMAIN nonces = 1 .. Len(nonces) /\ p.nonce \in 0 .. MaxNonces
      BY <1>4, TypeFacts DEF PostStages
    <2>2. n \in 1 .. Len(nonces)
      BY <1>2, <1>3, <1>4 DEF PostsInv
    <2>3. q \in Post /\ q.stage = "accepted" /\ q.nonce = n
      BY <1>1, <1>2, <2>1, PostsChange
    <2>4. QED
      BY <1>2, <2>1, <2>2, <2>3
  <1>6. /\ nonces' \in Seq(Nonce) /\ Len(nonces') = Len(nonces)
        /\ \A m \in 1 .. Len(nonces) : nonces'[m].state = "fresh" => nonces[m].state = "fresh"
        /\ nonces'[n].state = "used"
    BY <1>3, <1>4, <1>5, NonceTurns
  <1>7. /\ posts' \subseteq Post /\ IsFiniteSet(posts') /\ Cardinality(posts') <= MaxPosts
        /\ Cardinality(Creating') <= Cardinality(Creating)
        /\ \A m : Cardinality(Marking(m)') <= Cardinality(Marking(m))
    BY <1>3, <1>4, <1>5, PostMoves
  <1>8. issued' \in [1 .. MaxNonces -> Nat] /\ issued'[n] = issued[n] + 1
        /\ \A m \in (1 .. MaxNonces) \ {n} : issued'[m] = issued[m]
    BY <1>3, <1>4, <1>5 DEF WalletTypeOK
  <1>9. WalletTypeOK'
    BY <1>3, <1>4, <1>6, <1>7, <1>8 DEF WalletTypeOK, browser, outside, Current
  <1>10. CallsInv' /\ WagmiInv' /\ AwayInv' /\ SwapsWait(chains')
    BY <1>3, <1>4, <1>6 DEF CallsInv, WagmiInv, AwayInv, browser, outside
  <1>11. PostsInv'
    <2>1. /\ \A x \in posts' : x.stage # "create" => x.nonce \in 1 .. Len(nonces')
          /\ \A w \in Wallets : challenge'[w] <= Len(nonces')
      BY <1>3, <1>4, <1>5, <1>6 DEF PostsInv, browser
    <2>2. PICK a \in Nat : a = Cardinality(Creating')
      <3>1. Creating' \subseteq posts'
        BY DEF Creating
      <3>2. QED
        BY <1>7, <3>1, FS_Subset, FS_CardinalityType
    <2>3. PICK c \in Nat : c = Cardinality(Creating)
      BY <1>4, PartsAreFinite DEF PostsInv
    <2>4. Len(nonces) \in Nat /\ MaxNonces \in Nat /\ Len(nonces) + c <= MaxNonces
      BY <1>4, <2>3, TypeFacts DEF PostsInv
    <2>5. Len(nonces) + a <= MaxNonces
      BY <1>7, <2>2, <2>3, <2>4
    <2>6. Len(nonces') + Cardinality(Creating') <= MaxNonces
      BY <1>6, <2>2, <2>5
    <2>7. QED
      BY <1>7, <2>1, <2>6 DEF PostsInv
  <1>12. NonceInv'
    <2>1. ASSUME NEW m \in 1 .. MaxNonces
          PROVE  issued'[m] + Cardinality(Marking(m)') <= MaxPosts
      <3>1. PICK k : k = Cardinality(Marking(m)')
        OBVIOUS
      <3>2. PICK j : j = Cardinality(Marking(m))
        OBVIOUS
      <3>3. issued[m] \in Nat /\ j \in Nat /\ MaxPosts \in Nat /\ issued[m] + j <= MaxPosts
        BY <1>4, <3>2, TypeFacts, PartsAreFinite DEF PostsInv, NonceInv
      <3>4. k \in Nat /\ k <= j
        <4>1. Marking(m)' \subseteq posts'
          BY DEF Marking
        <4>2. QED
          BY <1>7, <3>1, <3>2, <4>1, FS_Subset, FS_CardinalityType
      <3>5. CASE m = n
        <4>1. PICK A : A = Marking(n) /\ IsFiniteSet(A)
          BY <1>4, PartsAreFinite DEF PostsInv
        <4>2. p \in A /\ Marking(n)' = A \ {p}
          BY <1>2, <1>3, <1>5, <4>1 DEF Marking
        <4>3. k = j - 1
          BY <3>1, <3>2, <3>5, <4>1, <4>2, FS_RemoveElement
        <4>4. QED
          BY <1>8, <3>1, <3>3, <3>4, <3>5, <4>3
      <3>6. CASE m # n
        <4>1. issued'[m] = issued[m]
          BY <1>8, <3>6
        <4>2. QED
          BY <3>1, <3>3, <3>4, <4>1
      <3>7. QED
        BY <3>5, <3>6
    <2>2. \A m \in 1 .. MaxNonces : m > Len(nonces') => issued'[m] = 0
      <3>1. \A m \in 1 .. MaxNonces : m > Len(nonces) => issued[m] = 0 /\ m # n
        BY <1>4, <1>5, TypeFacts DEF NonceInv
      <3>2. QED
        BY <1>6, <1>8, <3>1
    <2>3. \A m \in 1 .. Len(nonces') : nonces'[m].state = "fresh" => issued'[m] = 0
      <3> SUFFICES ASSUME NEW m \in 1 .. Len(nonces), nonces'[m].state = "fresh"
                   PROVE  issued'[m] = 0
        BY <1>6
      <3>1. m # n /\ issued[m] = 0
        BY <1>4, <1>6 DEF NonceInv
      <3>2. m \in 1 .. MaxNonces
        <4>1. PICK c \in Nat : c = Cardinality(Creating)
          BY <1>4, PartsAreFinite DEF PostsInv
        <4>2. Len(nonces) \in Nat /\ MaxNonces \in Nat /\ Len(nonces) + c <= MaxNonces
          BY <1>4, <4>1, TypeFacts DEF PostsInv
        <4>3. QED
          BY <4>2
      <3>3. QED
        BY <1>8, <3>1, <3>2
    <2>4. QED
      BY <2>1, <2>2, <2>3 DEF NonceInv
  <1>13. QED
    BY <1>9, <1>10, <1>11, <1>12 DEF WalletInv

LEMMA VerifyIsAnsweredKeeps ==
  ASSUME WalletInv, NEW p \in posts, VerifyIsAnswered(p)
  PROVE  WalletInv'
  <1>1. /\ posts' = posts \ {p} /\ p.stage = "accepted"
        /\ \/ challenge' = [challenge EXCEPT ![p.wallet] = 0] /\ session' = p.wallet
              /\ news' = (news \/ (~disconnected /\ wagmi.address = None))
           \/ UNCHANGED <<challenge, session, news>>
        /\ UNCHANGED <<chains, linked, disconnected, leaving, wagmi, permitted, nonces, issued,
                       converting, reloads>>
    BY DEF VerifyIsAnswered
  <1>2. WalletTypeOK /\ SwapsWait(chains) /\ CallsInv /\ WagmiInv /\ AwayInv /\ PostsInv /\ NonceInv
    BY DEF WalletInv
  <1>3. /\ posts' \subseteq Post /\ IsFiniteSet(posts') /\ Cardinality(posts') <= MaxPosts
        /\ Cardinality(Creating') = Cardinality(Creating) - (IF p.stage = "create" THEN 1 ELSE 0)
        /\ \A n : Cardinality(Marking(n)') <= Cardinality(Marking(n))
    BY <1>1, <1>2, PostGoes
  <1>4. Cardinality(Creating') <= Cardinality(Creating)
    <2>1. PICK c \in Nat : c = Cardinality(Creating)
      BY <1>2, PartsAreFinite DEF PostsInv
    <2>2. QED
      BY <1>1, <1>3, <2>1
  <1>5. p.wallet \in Wallets
    BY <1>2, TypeFacts
  <1>6. /\ challenge' \in [Wallets -> 0 .. MaxNonces]
        /\ \A w \in Wallets : challenge'[w] <= Len(nonces)
    <2>1. 0 \in 0 .. MaxNonces /\ 0 <= Len(nonces)
      BY <1>2, TypeFacts
    <2>2. challenge \in [Wallets -> 0 .. MaxNonces] /\ \A w \in Wallets : challenge[w] <= Len(nonces)
      BY <1>2 DEF WalletTypeOK, PostsInv
    <2>3. QED
      BY <1>1, <2>1, <2>2
  <1>7. session' \in Account /\ news' \in BOOLEAN
    <2>1. session \in Account /\ news \in BOOLEAN
      BY <1>2 DEF WalletTypeOK
    <2>2. PICK b \in BOOLEAN : b = (news \/ (~disconnected /\ wagmi.address = None))
      BY <2>1
    <2>3. QED
      BY <1>1, <1>5, <2>1, <2>2 DEF Account
  <1>8. WalletTypeOK'
    BY <1>1, <1>2, <1>3, <1>6, <1>7 DEF WalletTypeOK, Current
  <1>9. CallsInv' /\ WagmiInv' /\ AwayInv' /\ SwapsWait(chains')
    BY <1>1, <1>2 DEF CallsInv, WagmiInv, AwayInv
  <1>10. PostsInv'
    <2>1. \A x \in posts' : x.stage # "create" => x.nonce \in 1 .. Len(nonces)
      BY <1>1, <1>2 DEF PostsInv
    <2>2. QED
      BY <1>1, <1>2, <1>3, <1>4, <1>6, <2>1, FewerCreated
  <1>11. NonceInv'
    BY <1>1, <1>2, <1>3, NoTokenMade
  <1>12. QED
    BY <1>8, <1>9, <1>10, <1>11 DEF WalletInv

(* A chain by itself, in which nothing but reads is waiting.               *)
LEMMA ReadsAlone ==
  ASSUME NEW r \in Seq(Call), \A k \in DOMAIN r : r[k].kind = "read", NEW c, c = <<r>>
  PROVE  /\ c \in Seq(Seq(Call)) /\ Len(c) = 1 /\ SwapsWait(c)
         /\ \A x \in CallsIn(c) : x.kind = "read" /\ \E k \in DOMAIN r : x = r[k]
  <1>1. c \in Seq(Seq(Call)) /\ Len(c) = 1 /\ DOMAIN c = {1} /\ c[1] = r
    OBVIOUS
  <1>2. \A j \in DOMAIN c : \A k \in DOMAIN c[j] : c[j][k].kind = "read"
    BY <1>1
  <1>3. SwapsWait(c)
    BY <1>2 DEF SwapsWait, AllWaited, AllDiffer
  <1>4. ASSUME NEW x \in CallsIn(c) PROVE x.kind = "read" /\ \E k \in DOMAIN r : x = r[k]
    <2>1. PICK j \in DOMAIN c : \E k \in DOMAIN c[j] : x = c[j][k]
      BY CallIsThere
    <2>2. QED
      BY <1>1, <1>2, <2>1
  <1>5. QED
    BY <1>1, <1>3, <1>4

LEMMA ReloadPageKeeps ==
  ASSUME WalletInv, ReloadPage
  PROVE  WalletInv'
  <1>1. PICK r : r = IF disconnected THEN << >> ELSE Reads
    OBVIOUS
  <1>2. /\ reloads < MaxReloads /\ reloads' = reloads + 1
        /\ chains' = <<r>>
        /\ linked' = [h \in Hooks |-> None]
        /\ challenge' = [w \in Wallets |-> 0]
        /\ leaving' = "no" /\ converting' = {}
        /\ wagmi' = [status |-> "connecting", address |-> None]
        /\ news' = FALSE
        /\ posts' = {[p EXCEPT !.heard = FALSE] : p \in posts}
        /\ UNCHANGED <<disconnected, session, permitted, nonces, issued>>
    BY <1>1 DEF ReloadPage
  <1>3. WalletTypeOK /\ PostsInv /\ NonceInv
    BY DEF WalletInv
  <1>4. r \in Seq(Call) /\ (\A k \in DOMAIN r : r[k].kind = "read") /\ (disconnected => r = << >>)
    <2>1. << >> \in Seq(Call) /\ DOMAIN << >> = {}
      OBVIOUS
    <2>2. QED
      BY <1>1, <2>1, ReadsTyped
  <1>5. PICK c : c = chains' /\ c = <<r>>
    BY <1>2
  <1>6. /\ c \in Seq(Seq(Call)) /\ Len(c) = 1 /\ SwapsWait(c)
        /\ \A x \in CallsIn(c) : x.kind = "read" /\ \E k \in DOMAIN r : x = r[k]
    BY <1>4, <1>5, ReadsAlone
  <1>7. posts' \subseteq Post /\ IsFiniteSet(posts') /\ Cardinality(posts') <= Cardinality(posts)
        /\ Cardinality(posts) \in Nat /\ Cardinality(posts') \in Nat
    <2>1. posts \in SUBSET Post /\ IsFiniteSet(posts)
      BY <1>3 DEF WalletTypeOK, PostsInv
    <2>2. QED
      BY <1>2, <2>1, NobodyHears, FS_CardinalityType
  <1>8. ASSUME NEW p \in posts
        PROVE  [p EXCEPT !.heard = FALSE].stage = p.stage
               /\ [p EXCEPT !.heard = FALSE].nonce = p.nonce
    <2>1. p \in Post /\ "find" \in PostStages
      BY <1>3, TypeFacts DEF PostStages
    <2>2. QED
      BY <2>1, PostsChange
  <1>9. Cardinality(Creating') <= Cardinality(Creating)
    <2>1. PICK A : A = Creating
      OBVIOUS
    <2>2. PICK B : B = Creating'
      OBVIOUS
    <2>3. A \in SUBSET Post /\ IsFiniteSet(A)
      BY <1>3, <2>1, PartsAreFinite DEF PostsInv, WalletTypeOK
    <2>4. B = {[p EXCEPT !.heard = FALSE] : p \in A}
      BY <1>2, <1>8, <2>1, <2>2 DEF Creating
    <2>5. QED
      BY <2>1, <2>2, <2>3, <2>4, NobodyHears
  <1>10. ASSUME NEW n PROVE Cardinality(Marking(n)') <= Cardinality(Marking(n))
    <2>1. PICK A : A = Marking(n)
      OBVIOUS
    <2>2. PICK B : B = Marking(n)'
      OBVIOUS
    <2>3. A \in SUBSET Post /\ IsFiniteSet(A)
      BY <1>3, <2>1, PartsAreFinite DEF PostsInv, WalletTypeOK
    <2>4. B = {[p EXCEPT !.heard = FALSE] : p \in A}
      BY <1>2, <1>8, <2>1, <2>2 DEF Marking
    <2>5. QED
      BY <2>1, <2>2, <2>3, <2>4, NobodyHears
  <1>11. challenge' \in [Wallets -> 0 .. MaxNonces] /\ \A w \in Wallets : challenge'[w] <= Len(nonces)
    <2>1. 0 \in 0 .. MaxNonces /\ 0 <= Len(nonces)
      BY <1>3, TypeFacts
    <2>2. QED
      BY <1>2, <2>1
  <1>12. WalletTypeOK'
    <2>1. Current' \in 1 .. MaxDisconnects + 1
      <3>1. Current' = 1
        BY <1>5, <1>6 DEF Current
      <3>2. MaxDisconnects \in Nat
        BY <1>3, TypeFacts
      <3>3. QED
        BY <3>1, <3>2
    <2>2. linked' \in [Hooks -> Account]
      BY <1>2 DEF Account
    <2>3. wagmi' \in [status : {"connecting", "connected", "disconnected"}, address : Account]
      BY <1>2 DEF Account
    <2>4. reloads' \in 0 .. MaxReloads
      BY <1>2, <1>3, TypeFacts DEF WalletTypeOK
    <2>5. QED
      BY <1>2, <1>3, <1>5, <1>6, <1>7, <1>11, <2>1, <2>2, <2>3, <2>4 DEF WalletTypeOK
  <1>13. CallsInv'
    <2> SUFFICES ASSUME NEW x \in CallsIn(c)
                 PROVE  /\ x.kind = "sign" => x.nonce \in 1 .. Len(nonces')
                        /\ (x.kind = "read" /\ disconnected') => ~x.wanted
      BY <1>5 DEF CallsInv
    <2>1. x.kind = "read" /\ \E k \in DOMAIN r : x = r[k]
      BY <1>6
    <2>2. ~disconnected'
      <3>1. DOMAIN << >> = {}
        OBVIOUS
      <3>2. QED
        BY <1>2, <1>4, <2>1, <3>1
    <2>3. QED
      BY <2>1, <2>2
  <1>14. WagmiInv' /\ AwayInv'
    BY <1>2 DEF WagmiInv, AwayInv
  <1>15. PostsInv'
    <2>1. \A x \in posts' : x.stage # "create" => x.nonce \in 1 .. Len(nonces)
      BY <1>2, <1>3, <1>8 DEF PostsInv
    <2>2. Cardinality(posts') <= MaxPosts
      BY <1>3, <1>7, TypeFacts DEF PostsInv
    <2>3. QED
      BY <1>2, <1>3, <1>7, <1>9, <1>11, <2>1, <2>2, FewerCreated
  <1>16. NonceInv'
    BY <1>2, <1>3, <1>7, <1>10, NoTokenMade
  <1>17. QED
    BY <1>5, <1>6, <1>12, <1>13, <1>14, <1>15, <1>16 DEF WalletInv

-----------------------------------------------------------------------------
(* The invariant.                                                          *)

LEMMA WalletInvInit == WalletInit => WalletInv
  <1> SUFFICES ASSUME WalletInit PROVE WalletInv
    OBVIOUS
  <1>1. PICK c : c = chains /\ c = <<Reads>>
    BY DEF WalletInit
  <1>2. /\ c \in Seq(Seq(Call)) /\ Len(c) = 1 /\ SwapsWait(c)
        /\ \A x \in CallsIn(c) : x.kind = "read"
    BY <1>1, ReadsTyped, ReadsAlone
  <1>3. /\ Len(nonces) = 0 /\ nonces \in Seq(Nonce) /\ posts = {} /\ ~disconnected
        /\ challenge = [w \in Wallets |-> 0] /\ issued = [n \in 1 .. MaxNonces |-> 0]
        /\ wagmi = [status |-> "connecting", address |-> None]
        /\ linked = [h \in Hooks |-> None] /\ session = None /\ permitted \in Account
        /\ news = FALSE /\ leaving = "no" /\ reloads = 0 /\ converting = {} /\ disconnected = FALSE
    BY DEF WalletInit
  <1>4. MaxNonces \in Nat /\ MaxPosts \in Nat /\ MaxReloads \in Nat /\ MaxDisconnects \in Nat
    BY SessionConstants, LockConstants
  <1>5. WalletTypeOK
    <2>1. Current \in 1 .. MaxDisconnects + 1
      BY <1>1, <1>2, <1>4 DEF Current
    <2>2. challenge \in [Wallets -> 0 .. MaxNonces] /\ issued \in [1 .. MaxNonces -> Nat]
          /\ reloads \in 0 .. MaxReloads
      BY <1>3, <1>4
    <2>3. wagmi \in [status : {"connecting", "connected", "disconnected"}, address : Account]
          /\ linked \in [Hooks -> Account] /\ session \in Account
      BY <1>3 DEF Account
    <2>4. QED
      BY <1>1, <1>2, <1>3, <2>1, <2>2, <2>3 DEF WalletTypeOK
  <1>6. CallsInv
    BY <1>1, <1>2, <1>3 DEF CallsInv
  <1>7. WagmiInv /\ AwayInv
    BY <1>3 DEF WagmiInv, AwayInv
  <1>8. Creating = {} /\ \A n : Marking(n) = {}
    BY <1>3 DEF Creating, Marking
  <1>9. Cardinality({}) = 0 /\ IsFiniteSet({})
    BY FS_EmptySet
  <1>10. PostsInv
    BY <1>3, <1>4, <1>8, <1>9 DEF PostsInv
  <1>11. NonceInv
    <2>1. \A n \in 1 .. MaxNonces : issued[n] = 0 /\ Cardinality(Marking(n)) = 0
      BY <1>3, <1>8, <1>9
    <2>2. 1 .. Len(nonces) = {} /\ 0 + 0 <= MaxPosts
      BY <1>3, <1>4
    <2>3. \A n \in 1 .. MaxNonces : issued[n] + Cardinality(Marking(n)) <= MaxPosts
      BY <1>4, <2>1
    <2>4. QED
      BY <2>1, <2>2, <2>3 DEF NonceInv
  <1>12. QED
    BY <1>1, <1>2, <1>5, <1>6, <1>7, <1>10, <1>11 DEF WalletInv

LEMMA WalletStays ==
  ASSUME WalletInv, UNCHANGED walletVars
  PROVE  WalletInv'
  <1>1. /\ UNCHANGED <<chains, linked, disconnected, session, challenge, leaving, wagmi, permitted,
                       news, posts, nonces, issued, converting, reloads>>
    BY DEF walletVars, browser, outside, backend
  <1>2. WalletTypeOK' /\ CallsInv' /\ WagmiInv' /\ AwayInv'
    BY <1>1 DEF WalletInv, WalletTypeOK, CallsInv, WagmiInv, AwayInv, Current
  <1>3. PostsInv' /\ NonceInv'
    <2>1. UNCHANGED backend /\ PostsInv /\ NonceInv
      BY <1>1 DEF backend, WalletInv
    <2>2. \A w \in Wallets : challenge'[w] <= Len(nonces)
      BY <1>1 DEF WalletInv, PostsInv
    <2>3. QED
      BY <2>1, <2>2, BackendStays
  <1>4. QED
    BY <1>1, <1>2, <1>3 DEF WalletInv

(* Every step of the browser, the extension and the backend keeps it.      *)
LEMMA WalletInvStep == WalletInv /\ [WalletNext]_walletVars => WalletInv'
  <1> SUFFICES ASSUME WalletInv, [WalletNext]_walletVars PROVE WalletInv'
    OBVIOUS
  <1>1. CASE UNCHANGED walletVars
    BY <1>1, WalletStays
  <1>2. CASE EndSession
    BY <1>2, EndSessionKeeps
  <1>3. CASE Event
    <2>1. CASE WagmiHears
      BY <2>1, WagmiHearsKeeps
    <2>2. CASE SwitchAccount
      BY <2>2, SwitchAccountKeeps
    <2>3. CASE \E i \in Chains : Answer(i)
      <3>1. PICK i \in Chains : Answer(i)
        BY <2>3
      <3>2. CASE ReadIsAnswered(i)
        BY <3>2, ReadIsAnsweredKeeps
      <3>3. CASE ConnectIsAnswered(i)
        BY <3>3, ConnectIsAnsweredKeeps
      <3>4. CASE SignIsAnswered(i)
        BY <3>4, SignIsAnsweredKeeps
      <3>5. CASE LockStep(i) /\ UNCHANGED <<linked, disconnected, session, challenge, leaving,
                                            outside, backend, converting, reloads>>
        BY <3>5, LockStepKeeps
      <3>6. QED
        BY <3>1, <3>2, <3>3, <3>4, <3>5 DEF Answer
    <2>4. CASE ConnectWallet
      BY <2>4, ConnectWalletKeeps
    <2>5. CASE \E h \in Hooks : Prefetch(h) \/ SignIn(h) \/ Convert(h) \/ SendTransaction(h)
      BY <2>5, PrefetchKeeps, SignInKeeps, ConvertKeeps, SendTransactionKeeps
    <2>6. CASE SignOut
      BY <2>6, SignOutKeeps
    <2>7. CASE AccessIsRevoked
      BY <2>7, AccessIsRevokedKeeps
    <2>8. CASE ReloadPage
      BY <2>8, ReloadPageKeeps
    <2>9. CASE \E p \in posts : PostStep(p) \/ PostIsLost(p)
      <3>1. PICK p \in posts : PostStep(p) \/ PostIsLost(p)
        BY <2>9
      <3>2. CASE ChallengeArrives(p)
        BY <3>2, ChallengeArrivesKeeps
      <3>3. CASE FindNonce(p)
        BY <3>3, FindNonceKeeps
      <3>4. CASE MarkNonce(p)
        BY <3>4, MarkNonceKeeps
      <3>5. CASE VerifyIsAnswered(p)
        BY <3>5, VerifyIsAnsweredKeeps
      <3>6. CASE PostIsLost(p)
        BY <3>6, PostIsLostKeeps
      <3>7. QED
        BY <3>1, <3>2, <3>3, <3>4, <3>5, <3>6 DEF PostStep
    <2>10. CASE \E n \in DOMAIN nonces : NonceExpires(n)
      BY <2>10, NonceExpiresKeeps
    <2>11. QED
      BY <1>3, <2>1, <2>2, <2>3, <2>4, <2>5, <2>6, <2>7, <2>8, <2>9, <2>10 DEF Event
  <1>4. QED
    BY <1>1, <1>2, <1>3 DEF WalletNext

LEMMA WalletInvariant == WalletSpec => []WalletInv
  BY WalletInvInit, WalletInvStep, PTL DEF WalletSpec

-----------------------------------------------------------------------------
(* The theorems.                                                           *)

(* A disconnect lasts: whatever was asked of the extension or the backend  *)
(* before it and is answered after it, no component but the one in which a *)
(* connect was open has a wallet again, and the session of a sign-in that  *)
(* was under way is ended by the effects.                                  *)
THEOREM DisconnectLasts == WalletSpec => []DisconnectSticks
  <1>1. WalletInv => DisconnectSticks
    <2> SUFFICES ASSUME WalletInv PROVE DisconnectSticks
      OBVIOUS
    <2>1. WalletTypeOK /\ AwayInv
      BY DEF WalletInv
    <2>2. ASSUME disconnected, wagmi.status = "disconnected", ~EffectsDue
          PROVE  session = None
      <3>1. PICK h \in Hooks : h # Modal
        BY SessionConstants
      <3>2. linked[h] = None
        BY <2>1, <2>2, <3>1 DEF AwayInv
      <3>3. QED
        BY <2>2, <3>1, <3>2 DEF EffectsDue, NobodyConnected
    <2>3. QED
      BY <2>1, <2>2 DEF DisconnectSticks, AwayInv
  <1>2. QED
    BY <1>1, WalletInvariant, PTL

(* However many requests there are and however they are interleaved, a     *)
(* challenge is answered with no more tokens than there may be requests at *)
(* one time: once it is marked, nobody finds it again.                     *)
THEOREM ChallengeIsSpent == WalletSpec => []NonceSpentByRacers
  <1>1. WalletInv => NonceSpentByRacers
    <2> SUFFICES ASSUME WalletInv, NEW n \in 1 .. MaxNonces PROVE issued[n] <= MaxPosts
      BY DEF NonceSpentByRacers
    <2>1. WalletTypeOK /\ PostsInv /\ NonceInv
      BY DEF WalletInv
    <2>2. PICK k \in Nat : k = Cardinality(Marking(n))
      BY <2>1, PartsAreFinite DEF PostsInv
    <2>3. issued[n] \in Nat /\ MaxPosts \in Nat /\ issued[n] + k <= MaxPosts
      BY <2>1, <2>2, TypeFacts DEF NonceInv
    <2>4. QED
      BY <2>2, <2>3
  <1>2. QED
    BY <1>1, WalletInvariant, PTL

(* Once wagmi knows the wallet of the session, what the components had     *)
(* linked before ends it neither by the effects nor by a sign-in of        *)
(* another wallet: they look at wagmi's address first.                     *)
THEOREM KnownSessionLasts == WalletSpec => SessionLasts
  <1> DEFINE Ends == (session # None /\ wagmi.address = session)
                       => (session' = session \/ disconnected' \/ \E p \in posts : p \notin posts')
  <1>1. WalletInv /\ [WalletNext]_walletVars => [Ends]_walletVars
    <2> SUFFICES ASSUME WalletInv, WalletNext, session # None, wagmi.address = session
                 PROVE  session' = session \/ disconnected' \/ \E p \in posts : p \notin posts'
      OBVIOUS
    <2>1. wagmi.status = "connected"
      BY DEF WalletInv, WagmiInv
    <2>2. \A h \in Hooks : Active(h) # None => Active(h) = session
      BY DEF Active
    <2>3. ~EffectsDue
      BY <2>1, <2>2 DEF EffectsDue, NobodyConnected, Mismatch
    <2>4. Event
      BY <2>3 DEF WalletNext, EndSession
    <2>5. CASE \E p \in posts : VerifyIsAnswered(p)
      BY <2>5 DEF VerifyIsAnswered
    <2>6. CASE SignOut
      BY <2>6 DEF SignOut
    <2>7. CASE \E h \in Hooks : SignIn(h)
      BY <2>2, <2>7 DEF SignIn
    <2>8. CASE WagmiHears \/ SwitchAccount \/ ConnectWallet \/ AccessIsRevoked \/ ReloadPage
      BY <2>8 DEF WagmiHears, SwitchAccount, ConnectWallet, AccessIsRevoked, ReloadPage, browser
    <2>9. CASE \E i \in Chains : Answer(i)
      BY <2>9 DEF Answer, ReadIsAnswered, ConnectIsAnswered, SignIsAnswered
    <2>10. CASE \E h \in Hooks : Prefetch(h) \/ Convert(h) \/ SendTransaction(h)
      BY <2>10 DEF Prefetch, Convert, SendTransaction, browser
    <2>11. CASE \E p \in posts : ChallengeArrives(p) \/ FindNonce(p) \/ MarkNonce(p) \/ PostIsLost(p)
      BY <2>11 DEF ChallengeArrives, FindNonce, MarkNonce, PostIsLost, VerifyElse, browser
    <2>12. CASE \E n \in DOMAIN nonces : NonceExpires(n)
      BY <2>12 DEF NonceExpires, VerifyElse, browser
    <2>13. QED
      BY <2>4, <2>5, <2>6, <2>7, <2>8, <2>9, <2>10, <2>11, <2>12 DEF Event, PostStep
  <1>2. QED
    BY <1>1, WalletInvariant, PTL DEF WalletSpec, SessionLasts
=============================================================================
