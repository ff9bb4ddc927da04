------------------------ MODULE AccountProvisioningMC ------------------------
(* Values of the constants of AccountProvisioning for TLC. *)
EXTENDS AccountProvisioning, TLC

CONSTANTS c1, c2, w1, w2, w3, s1, s2

ApplicationAndAdmin == {"counsellor", "tenant-admin"}
AllThree == {"advice-seeker", "counsellor", "tenant-admin"}

Symmetric == Permutations(Calls) \cup Permutations(Passwords) \cup Permutations(Seeds)

\* A request that is done only leaves: of what it held, its kind is enough, and
\* when no other is at work nobody knows when the record was written.
Remembered ==
  LET Left(c) == IF In(c, "done") THEN [Idle EXCEPT !.phase = "done", !.kind = call[c].kind]
                                  ELSE call[c]
      quiet == \A c \in Calls : In(c, "done") \/ In(c, "idle")
  IN <<lock, IF quiet THEN <<Aged, AgedWrites>> ELSE <<rec, adrift>>, delayed,
       marker, account, erased, late, setups, unlinked, [c \in Calls |-> Left(c)]>>
=============================================================================
