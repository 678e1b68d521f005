---------------------------- MODULE MCDailyPool ----------------------------
(***************************************************************************)
(* Daily pools with the fee of the code and room for two players.          *)
(***************************************************************************)
EXTENDS DailyPool, TLC

CONSTANTS u1, u2, r1, r2, p1, p2, s1, s2, Seats, Opening

MCKind       == [p \in Pools |-> "DAILY"]
MCFee        == [p \in Pools |-> 20]
MCMaxPlayers == [p \in Pools |-> Seats]
MCSeed       == [p \in Pools |-> 0]
MCOpening    == [u \in Users |-> Opening]

ASSUME OnlyDailyPools == Kind = MCKind

PoolSymmetry == Permutations(Pools)
PlayerSymmetry == Permutations(Users) \cup Permutations(Requests)
=============================================================================
