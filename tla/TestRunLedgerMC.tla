-------------------------- MODULE TestRunLedgerMC --------------------------
(* An instance of TestRunLedger for TLC.                                   *)
EXTENDS TestRunLedger, TLC

CONSTANTS a1, a2, r1, r2, consultant, user, x1, x2, k1, k2, o1, o2

(* One account can play both roles, the other one of them.                 *)
TwoRoles == a1 :> {consultant} @@ a2 :> {consultant, user}

(* One consultant; or one of each, which fits in one way only.             *)
TwoDemands ==
  {consultant :> 1 @@ user :> 0, consultant :> 1 @@ user :> 1}

Symmetric ==
  Permutations({x1, x2}) \cup Permutations({o1, o2})
    \cup Permutations({k1, k2})
=============================================================================
