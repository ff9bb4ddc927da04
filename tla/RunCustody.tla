----------------------------- MODULE RunCustody -----------------------------
(***************************************************************************)
(* What the test-run ledger promises about the accounts it lends: a run    *)
(* takes its accounts all at once and none that another run holds, only a  *)
(* run that is open brings things into the product, and when it closes it  *)
(* gives all its accounts back together and leaves no thing of its own     *)
(* behind, whatever was lost, repeated or delayed on the way.              *)
(***************************************************************************)
CONSTANTS Accounts, Runs, Things, Nobody

VARIABLES
  phase,   \* phase[r]: "new", "open" or "closed"
  holder,  \* holder[a]: the run that holds account a, or Nobody
  maker    \* maker[x]: the run whose thing x is in the product, or Nobody

vars == <<phase, holder, maker>>

Init ==
  /\ phase = [r \in Runs |-> "new"]
  /\ holder = [a \in Accounts |-> Nobody]
  /\ maker = [x \in Things |-> Nobody]

(* A run takes a set of free accounts.                                     *)
Open(r, A) ==
  /\ phase[r] = "new"
  /\ A # {}
  /\ \A a \in A : holder[a] = Nobody
  /\ phase' = [phase EXCEPT ![r] = "open"]
  /\ holder' = [a \in Accounts |-> IF a \in A THEN r ELSE holder[a]]
  /\ UNCHANGED maker

(* A thing of an open run comes into the product,                          *)
Bring(r, x) ==
  /\ phase[r] = "open"
  /\ maker[x] = Nobody
  /\ maker' = [maker EXCEPT ![x] = r]
  /\ UNCHANGED <<phase, holder>>

(* and leaves it while its run is still open.                              *)
Clear(r, x) ==
  /\ phase[r] = "open"
  /\ maker[x] = r
  /\ maker' = [maker EXCEPT ![x] = Nobody]
  /\ UNCHANGED <<phase, holder>>

(* A run with nothing left in the product gives its accounts back.         *)
Close(r) ==
  /\ phase[r] = "open"
  /\ \A x \in Things : maker[x] # r
  /\ phase' = [phase EXCEPT ![r] = "closed"]
  /\ holder' = [a \in Accounts |-> IF holder[a] = r THEN Nobody ELSE holder[a]]
  /\ UNCHANGED maker

Next ==
  \E r \in Runs :
    \/ \E A \in SUBSET Accounts : Open(r, A)
    \/ \E x \in Things : Bring(r, x) \/ Clear(r, x)
    \/ Close(r)

Spec == Init /\ [][Next]_vars
=============================================================================
