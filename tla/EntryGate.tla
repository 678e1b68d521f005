----------------------------- MODULE EntryGate -----------------------------
(***************************************************************************)
(* What joining a tournament promises, with no requests and no steps in    *)
(* between: a user who can pay the price enters a pool once, and the price *)
(* moves from the user to the house.  Nothing else moves a credit.         *)
(***************************************************************************)
EXTENDS Integers

CONSTANTS Users, Pools, Price, OpeningBalance

VARIABLES balance, seats, house

Init ==
  /\ balance = OpeningBalance
  /\ seats = {}
  /\ house = 0

Enter(u, p) ==
  /\ <<p, u>> \notin seats
  /\ balance[u] >= Price[p]
  /\ seats' = seats \cup {<<p, u>>}
  /\ balance' = [balance EXCEPT ![u] = @ - Price[p]]
  /\ house' = house + Price[p]

Next == \E u \in Users, p \in Pools : Enter(u, p)

Spec == Init /\ [][Next]_<<balance, seats, house>>
=============================================================================
