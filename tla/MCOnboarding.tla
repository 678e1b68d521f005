---------------------------- MODULE MCOnboarding ----------------------------
(***************************************************************************)
(* Two overlapping broadcasts; a pool of which the player may take the     *)
(* last seat.                                                              *)
(***************************************************************************)
EXTENDS Onboarding

CONSTANTS c1, c2
=============================================================================
