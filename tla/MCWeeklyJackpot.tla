-------------------------- MODULE MCWeeklyJackpot --------------------------
(***************************************************************************)
(* Two epochs with the fees of the code.                                   *)
(***************************************************************************)
EXTENDS WeeklyJackpot
=============================================================================
