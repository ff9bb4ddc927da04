------------------------ MODULE EvidencePublication ------------------------
(***************************************************************************)
(* What the evidence gateway promises a reader of a public link, whatever  *)
(* requests, object-store calls and crashes it takes to keep the promise:  *)
(* a run shows nothing until it is exposed, it is exposed once and with a  *)
(* non-empty set of files, what it shows never changes while it is public, *)
(* and once it is held (quarantined) or withdrawn (archived) it never      *)
(* becomes public (again).  A link, once fixed, is fixed for good and      *)
(* names one run.                                                          *)
(***************************************************************************)
CONSTANTS Runs, Files, PublicIds, None

VARIABLES
  phase,   \* phase[r] \in Phases
  link,    \* link[r]: the public id fixed for run r, or None
  shown    \* shown[r]: the files the page of run r's link lists

vars == <<phase, link, shown>>

Phases == {"private", "public", "held", "withdrawn"}

Init ==
  /\ phase = [r \in Runs |-> "private"]
  /\ link = [r \in Runs |-> None]
  /\ shown = [r \in Runs |-> {}]

(* p can be the link of run r: the one it has, or one no run has.          *)
Fits(r, p) ==
  \/ link[r] = p
  \/ link[r] = None /\ \A s \in Runs : link[s] # p

(* Fixes the address of a run without showing anything.                    *)
Reserve(r, p) ==
  /\ phase[r] # "held"
  /\ UNCHANGED <<phase, shown>>
  /\ Fits(r, p)
  /\ link' = [link EXCEPT ![r] = p]

(* Makes a set of files readable under the run's address, all at once.     *)
Expose(r, p) ==
  /\ phase[r] = "private"
  /\ phase' = [phase EXCEPT ![r] = "public"]
  /\ Fits(r, p)
  /\ link' = [link EXCEPT ![r] = p]
  /\ \E S \in (SUBSET Files) \ {{}} : shown' = [shown EXCEPT ![r] = S]

(* Keeps a run from ever being exposed.                                    *)
Hold(r) ==
  /\ phase' = [phase EXCEPT ![r] = "held"]
  /\ phase[r] = "private"
  /\ UNCHANGED <<link, shown>>

(* Ends a run; nothing of it is readable any more.                         *)
Withdraw(r) ==
  /\ phase[r] # "withdrawn"
  /\ phase' = [phase EXCEPT ![r] = "withdrawn"]
  /\ shown' = [shown EXCEPT ![r] = {}]
  /\ UNCHANGED link

Next ==
  \E r \in Runs :
    \/ \E p \in PublicIds : Reserve(r, p)
    \/ \E p \in PublicIds : Expose(r, p)
    \/ Hold(r)
    \/ Withdraw(r)

Spec == Init /\ [][Next]_vars
-----------------------------------------------------------------------------
(* What is left of the promise where a schedule deletes whole runs too: a  *)
(* run may end at any time, and then its link is free for another.         *)
Expunge(r) ==
  /\ phase' = [phase EXCEPT ![r] = "withdrawn"]
  /\ link' = [link EXCEPT ![r] = None]
  /\ shown' = [shown EXCEPT ![r] = {}]

ExpungingNext == Next \/ \E r \in Runs : Expunge(r)

ExpungingSpec == Init /\ [][ExpungingNext]_vars
=============================================================================
