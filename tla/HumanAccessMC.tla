---------------------------- MODULE HumanAccessMC ----------------------------
(* Values of the constants of HumanAccess for TLC. *)
EXTENDS HumanAccess, TLC

CONSTANTS u1, u2

=============================================================================
