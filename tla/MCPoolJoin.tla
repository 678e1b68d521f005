----------------------------- MODULE MCPoolJoin -----------------------------
(***************************************************************************)
(* Three pools that compete for the same balances: a daily pool whose fee  *)
(* does not divide evenly, a weekly pool with a single seat, and a         *)
(* practice pool, which is free whatever its fee says.                     *)
(***************************************************************************)
EXTENDS PoolJoin, TLC

CONSTANTS u1, u2, u3, r1, r2, d, w, x

Only(f) == [p \in Pools |-> f[p]]

MCKind       == Only(d :> "DAILY" @@ w :> "WEEKLY_JACKPOT" @@ x :> "PRACTICE")
MCFee        == Only(d :> 15 @@ w :> 10 @@ x :> 30)
MCMaxPlayers == Only(d :> 2 @@ w :> 1 @@ x :> 2)
MCSeed       == Only(d :> 0 @@ w :> 6 @@ x :> 500)
MCOpening    == [u \in Users |-> (u1 :> 25 @@ u2 :> 20 @@ u3 :> 15)[u]]
=============================================================================
