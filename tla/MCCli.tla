------------------------------- MODULE MCCli -------------------------------
(* Cli for TLC.  The locked ONs are alike, which only a safety run may use. *)
EXTENDS Cli, TLC

LockedOns == Permutations(On \cap Root)
=============================================================================
