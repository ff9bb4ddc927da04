--------------------------- MODULE TestRunProofs ---------------------------
(***************************************************************************)
(* Proofs about TestRunLedger for every value of its constants.            *)
(*                                                                         *)
(* The safety results rest on IndInv, a conjunction of facts about one     *)
(* row each (RowFacts), about a row and its run (RowsHeld), about a row    *)
(* and its parents (Families), and of LeasesAreCasts.  Each conjunct has a *)
(* lemma that says every step keeps it; TypeOK is inductive on its own.    *)
(*                                                                         *)
(* The second half is about RunAccountSelection: that its search ends and  *)
(* finds what there is, for any slots and candidates.  It has an invariant *)
(* of the search (Sound) and a measure of what it has left to do (ToGo).   *)
(***************************************************************************)
EXTENDS TestRunLedger, FiniteSetTheorems, SequenceTheorems,
        WellFoundedInduction, TLAPS

(* How far a row has come says what the product has of it, and when.       *)
RowFacts ==
  \A x \in Resources :
    /\ state[x] \in {"none", "planned", "cancelled"} => object[x] = NoObject
    /\ state[x] \in {"none", "planned", "cancelled"} \cup Creating => externalId[x] = NoObject
    /\ state[x] \notin Deleting \cup {"deleted"} => goneAt[x] = NoTime
    /\ state[x] \in {"present", "deleted"} \cup Deleting =>
         object[x] # NoObject /\ externalId[x] = object[x] /\ madeAt[x] <= updatedAt[x]
    /\ state[x] \in Deleting => deletionStartedAt[x] \in Times /\ madeAt[x] <= deletionStartedAt[x]
    /\ state[x] = "deleted" => goneAt[x] # NoTime

(* An unfinished row belongs to an open run that has the row's account.    *)
RowsHeld ==
  \A x \in Resources :
    state[x] \in ResourceStates \ Terminal =>
      /\ IsOpen(intent[x].run)
      /\ intent[x].account # NoAccount => lease[intent[x].account] = intent[x].run

(* The parents of an unfinished row: not yet being deleted, and present    *)
(* once the row was dispatched.                                            *)
Families ==
  \A x \in Resources :
    state[x] \in ResourceStates \ Terminal =>
      \A p \in intent[x].parents :
        /\ state[p] \in {"planned", "cancelled", "present"} \cup Creating
        /\ state[x] # "planned" => state[p] = "present"

IndInv == RowFacts /\ RowsHeld /\ Families /\ LeasesAreCasts

-----------------------------------------------------------------------------
(* Types.                                                                  *)

LEMMA InitTypes == Init => TypeOK
<1> SUFFICES ASSUME Init PROVE TypeOK
  OBVIOUS
<1>1. clock \in Times
  BY LedgerAssumption DEF Init, Times
<1> QED BY <1>1 DEF Init, TypeOK, IsRow

(* What the generic transition does, spelled out.                          *)
LEMMA MoveCases ==
  ASSUME NEW s \in ResourceStates, NEW t \in Transitions[s]
  PROVE  \/ s = "planned" /\ t \in {"creating", "cancelled"}
         \/ s = "creating" /\ t = "create-uncertain"
         \/ s = "present" /\ t = "deleting"
         \/ s \in Deleting /\ t \in {"pending-purge", "delete-uncertain"}
BY DEF ResourceStates, Transitions, Deleting

(* The operations on runs keep the types,                                  *)
LEMMA RunTypes ==
  ASSUME TypeOK, NEW r \in Runs, RunStep(r)
  PROVE  TypeOK'
<1>1. ASSUME NEW C \in SUBSET Accounts, NEW d \in Demands, Create(r, C, d) PROVE TypeOK'
  <2>1. PICK A \in SUBSET Available(C) :
          /\ cast' = [cast EXCEPT ![r] = A]
          /\ lease' = [a \in Accounts |-> IF a \in A THEN r ELSE lease[a]]
    BY <1>1 DEF Create
  <2>2. A \in SUBSET Accounts
    BY DEF Available
  <2>3. status' \in [Runs -> RunStatuses \cup {"none"}]
    BY <1>1 DEF Create, TypeOK, RunStatuses
  <2>4. cast' \in [Runs -> SUBSET Accounts] /\ lease' \in [Accounts -> Runs \cup {NoRun}]
    BY <2>1, <2>2 DEF TypeOK
  <2> QED BY <1>1, <2>3, <2>4 DEF Create, TypeOK, ledger, product, IsRow
<1>2. ASSUME NEW s, NEW t \in RunStatuses, Transition(r, s, t) PROVE TypeOK'
  BY <1>2 DEF Transition, TypeOK, ledger, product, IsRow
<1>3. CASE Start(r)
  BY <1>2, <1>3 DEF Start, RunStatuses
<1>4. CASE FinishRun(r)
  BY <1>2, <1>4, LedgerAssumption DEF FinishRun, RunStatuses
<1>5. CASE Release(r)
  <2>1. status' \in [Runs -> RunStatuses \cup {"none"}]
    BY <1>5 DEF Release, TypeOK, RunStatuses
  <2>2. lease' \in [Accounts -> Runs \cup {NoRun}]
    BY <1>5 DEF Release, TypeOK
  <2> QED BY <1>5, <2>1, <2>2 DEF Release, TypeOK, ledger, product, IsRow
<1> QED BY <1>1, <1>3, <1>4, <1>5 DEF RunStep

(* The operations on rows, with the state the row is in given a name.      *)
LEMMA RowCases ==
  ASSUME TypeOK, NEW x \in Resources, ResourceStep(x)
  PROVE  \E now \in Instants :
        \/ \E i \in Intents : PlanIntent(x, i, now)
        \/ \E s \in ResourceStates : s = state[x] /\ \E t \in Transitions[s] : Move(x, t, now)
        \/ \E s \in ResourceStates : s = state[x] /\ BindProduct(x, now)
        \/ \E s \in ResourceStates, v \in Instants :
             s = state[x] /\ ConfirmPhysicalAbsence(x, v, now)
<1>1. IsRow(x) => state[x] \in ResourceStates
  BY DEF IsRow, TypeOK
<1>2. ASSUME NEW now \in Instants, NEW t \in ResourceStates, Move(x, t, now)
      PROVE  IsRow(x) /\ t \in Transitions[state[x]]
  BY <1>2 DEF Move, Current
<1>3. ASSUME NEW now \in Instants,
             BindProduct(x, now) \/ \E v \in Instants : ConfirmPhysicalAbsence(x, v, now)
      PROVE  IsRow(x)
  BY <1>3 DEF BindProduct, ConfirmPhysicalAbsence, Current
<1> QED BY <1>1, <1>2, <1>3 DEF ResourceStep

(* those on rows do,                                                       *)
LEMMA RowTypes ==
  ASSUME TypeOK, NEW x \in Resources, ResourceStep(x)
  PROVE  TypeOK'
<1>1. PICK now \in Instants :
        \/ \E i \in Intents : PlanIntent(x, i, now)
        \/ \E s \in ResourceStates : s = state[x] /\ \E t \in Transitions[s] : Move(x, t, now)
        \/ \E s \in ResourceStates : s = state[x] /\ BindProduct(x, now)
        \/ \E s \in ResourceStates, v \in Instants :
             s = state[x] /\ ConfirmPhysicalAbsence(x, v, now)
  BY RowCases
<1>2. now \in Times /\ now # NoTime
  BY LedgerAssumption DEF TypeOK, Instants, Times
<1>3. ASSUME NEW i \in Intents, PlanIntent(x, i, now) PROVE TypeOK'
  <2>1. i # NoIntent
    BY LedgerAssumption DEF Intents, NoIntent
  <2>2. state' \in [Resources -> ResourceStates \cup {"none"}]
    BY <1>3 DEF PlanIntent, TypeOK, ResourceStates
  <2>3. intent' \in [Resources -> Intents \cup {NoIntent}]
    BY <1>3 DEF PlanIntent, TypeOK
  <2>4. updatedAt' \in [Resources -> Times \cup {NoTime}]
    BY <1>2, <1>3 DEF PlanIntent, TypeOK
  <2>5. \A y \in Resources : IsRow(y)' <=> intent'[y] # NoIntent
    BY <1>3, <2>1 DEF PlanIntent, TypeOK, IsRow
  <2>6. \A y \in Resources : IsRow(y)' <=> updatedAt'[y] # NoTime
    BY <1>2, <1>3 DEF PlanIntent, TypeOK, IsRow
  <2> QED BY <1>3, <2>2, <2>3, <2>4, <2>5, <2>6 DEF PlanIntent, TypeOK, runs, product
<1>4. ASSUME NEW s \in ResourceStates, NEW t \in ResourceStates, state[x] = s, Update(x, t, now)
      PROVE  /\ state' \in [Resources -> ResourceStates \cup {"none"}]
             /\ updatedAt' \in [Resources -> Times \cup {NoTime}]
             /\ \A y \in Resources : IsRow(y)' <=> IsRow(y)
             /\ \A y \in Resources : IsRow(y)' <=> updatedAt'[y] # NoTime
  <2>1. s # "none" /\ t # "none"
    BY DEF ResourceStates
  <2> QED BY <1>2, <1>4, <2>1 DEF Update, TypeOK, IsRow
<1>5. ASSUME NEW s \in ResourceStates, NEW t \in Transitions[s], s = state[x], Move(x, t, now) PROVE TypeOK'
  <2>1. t \in ResourceStates
    BY MoveCases DEF ResourceStates
  <2>2. state[x] = s /\ Update(x, t, now)
    BY <1>5 DEF Move, Current
  <2>3. deletionStartedAt' \in [Resources -> Times \cup {NoTime}]
    BY <1>2, <1>5 DEF Move, TypeOK
  <2> QED BY <1>4, <1>5, <2>1, <2>2, <2>3 DEF Move, TypeOK, runs, product
<1>6. ASSUME NEW s \in ResourceStates, s = state[x], BindProduct(x, now) PROVE TypeOK'
  <2>1. state[x] = s /\ Update(x, "present", now) /\ "present" \in ResourceStates
    BY <1>6 DEF BindProduct, Current, ResourceStates
  <2>2. /\ externalId' \in [Resources -> Objects \cup {NoObject}]
        /\ deletionStartedAt' \in [Resources -> Times \cup {NoTime}]
    BY <1>6 DEF BindProduct, TypeOK
  <2> QED BY <1>4, <1>6, <2>1, <2>2 DEF BindProduct, TypeOK, runs, product
<1>7. ASSUME NEW s \in ResourceStates, NEW v \in Instants, s = state[x],
             ConfirmPhysicalAbsence(x, v, now)
      PROVE  TypeOK'
  <2>1. state[x] = s /\ Update(x, "deleted", now) /\ "deleted" \in ResourceStates
    BY <1>7 DEF ConfirmPhysicalAbsence, Current, ResourceStates
  <2> QED BY <1>4, <1>7, <2>1 DEF ConfirmPhysicalAbsence, TypeOK, runs, product
<1> QED BY <1>1, <1>3, <1>5, <1>6, <1>7

(* and so do the product and the time.                                     *)
LEMMA OutsideTypes ==
  ASSUME TypeOK, Tick \/ \E x \in Resources : ProductStep(x)
  PROVE  TypeOK'
<1>1. clock < MaxClock => clock + 1 \in Times /\ clock + 1 # NoTime
  BY LedgerAssumption DEF TypeOK, Times
<1>2. CASE Tick
  BY <1>1, <1>2 DEF Tick, TypeOK, runs, ledger, product, IsRow
<1>3. ASSUME NEW x \in Resources, NEW o \in Objects, ProductMakes(x, o) PROVE TypeOK'
  <2>1. \A y \in Resources : object'[y] = NoObject <=> madeAt'[y] = NoTime
    BY <1>1, <1>3, LedgerAssumption DEF ProductMakes, TypeOK
  <2>2. /\ object' \in [Resources -> Objects \cup {NoObject}]
        /\ madeAt' \in [Resources -> Times \cup {NoTime}]
        /\ clock' \in Times
    BY <1>1, <1>3 DEF ProductMakes, TypeOK
  <2> QED BY <1>3, <2>1, <2>2 DEF ProductMakes, TypeOK, runs, ledger, IsRow
<1>4. ASSUME NEW x \in Resources, ProductPurges(x) PROVE TypeOK'
  BY <1>4 DEF ProductPurges, TypeOK, runs, ledger, IsRow
<1> QED BY <1>2, <1>3, <1>4 DEF ProductStep

(* The declared types hold in every reachable state.                       *)
THEOREM LedgerTypesCorrect == Spec => []TypeOK
<1>1. ASSUME TypeOK, [Next]_vars PROVE TypeOK'
  <2>1. CASE Next
    BY <1>1, <2>1, RunTypes, RowTypes, OutsideTypes DEF Next
  <2>2. CASE UNCHANGED vars
    BY <1>1, <2>2 DEF TypeOK, vars, runs, ledger, product, IsRow
  <2> QED BY <1>1, <2>1, <2>2
<1> QED BY InitTypes, <1>1, PTL DEF Spec

-----------------------------------------------------------------------------
(* The inductive invariant.                                                *)

(* What the types say of a row.                                            *)
LEMMA RowType ==
  ASSUME TypeOK, NEW x \in Resources, IsRow(x)
  PROVE  /\ intent[x] \in Intents
         /\ intent[x].run \in Runs
         /\ intent[x].account \in Accounts \cup {NoAccount}
         /\ intent[x].parents \subseteq Resources
         /\ updatedAt[x] \in Times
<1>1. intent[x] \in Intents
  BY DEF TypeOK
<1> QED BY <1>1 DEF TypeOK, Intents

(* What a step of each kind leaves alone.                                  *)
LEMMA Frames ==
  /\ \A r \in Runs : RunStep(r) => UNCHANGED <<ledger, product, clock>>
  /\ \A x \in Resources : ResourceStep(x) => UNCHANGED <<runs, product, clock>>
  /\ \A x \in Resources : ProductStep(x) => UNCHANGED <<runs, ledger>>
  /\ Tick => UNCHANGED <<runs, ledger, product>>
<1>1. ASSUME NEW r \in Runs, RunStep(r) PROVE UNCHANGED <<ledger, product, clock>>
  BY <1>1 DEF RunStep, Create, Start, FinishRun, Transition, Release
<1>2. ASSUME NEW x \in Resources, ResourceStep(x) PROVE UNCHANGED <<runs, product, clock>>
  BY <1>2 DEF ResourceStep, PlanIntent, Move, BindProduct, ConfirmPhysicalAbsence
<1>3. ASSUME NEW x \in Resources, ProductStep(x) PROVE UNCHANGED <<runs, ledger>>
  BY <1>3 DEF ProductStep, ProductMakes, ProductPurges
<1>4. Tick => UNCHANGED <<runs, ledger, product>>
  BY DEF Tick
<1> QED BY <1>1, <1>2, <1>3, <1>4

LEMMA InitInv == Init => IndInv
<1> SUFFICES ASSUME Init PROVE IndInv
  OBVIOUS
<1>1. RowFacts
  BY DEF Init, RowFacts, Creating, Deleting
<1>2. RowsHeld /\ Families
  BY DEF Init, RowsHeld, Families, ResourceStates
<1>3. LeasesAreCasts
  BY LedgerAssumption DEF Init, LeasesAreCasts
<1> QED BY <1>1, <1>2, <1>3 DEF IndInv

(* A run step changes the status of one run and leases of that run only.   *)
LEMMA LeasesKept ==
  ASSUME TypeOK, LeasesAreCasts, NEW r \in Runs, RunStep(r)
  PROVE  LeasesAreCasts'
<1> SUFFICES ASSUME NEW q \in Runs, NEW a \in Accounts
             PROVE  lease'[a] = q <=> IsOpen(q)' /\ a \in cast'[q]
  BY DEF LeasesAreCasts
<1>0. lease[a] = q <=> IsOpen(q) /\ a \in cast[q]
  BY DEF LeasesAreCasts
<1>1. ASSUME NEW C \in SUBSET Accounts, NEW d \in Demands, Create(r, C, d)
      PROVE  lease'[a] = q <=> IsOpen(q)' /\ a \in cast'[q]
  <2>1. PICK A \in SUBSET Available(C) :
          /\ cast' = [cast EXCEPT ![r] = A]
          /\ lease' = [b \in Accounts |-> IF b \in A THEN r ELSE lease[b]]
    BY <1>1 DEF Create
  <2>2. a \in A => lease[a] = NoRun
    BY DEF Available
  <2>3. status[r] = "none" /\ status' = [status EXCEPT ![r] = "reserved"]
    BY <1>1 DEF Create
  <2>4. CASE q = r
    <3>1. ~IsOpen(r) /\ IsOpen(r)'
      BY <2>3 DEF IsOpen, RunStatuses, TypeOK
    <3>2. lease[a] # r
      BY <1>0, <2>4, <3>1
    <3> QED BY <2>1, <2>4, <3>1, <3>2 DEF TypeOK
  <2>5. CASE q # r
    <3>1. IsOpen(q)' <=> IsOpen(q)
      BY <2>3, <2>5 DEF IsOpen, TypeOK
    <3>2. a \in A => lease[a] # q
      BY <2>2, LedgerAssumption
    <3> QED BY <1>0, <2>1, <2>5, <3>1, <3>2 DEF TypeOK
  <2> QED BY <2>4, <2>5
<1>2. ASSUME NEW s, NEW t \in RunStatuses \ {"released"}, s \in RunStatuses \ {"released"},
             Transition(r, s, t)
      PROVE  lease'[a] = q <=> IsOpen(q)' /\ a \in cast'[q]
  <2>1. IsOpen(q)' <=> IsOpen(q)
    BY <1>2 DEF Transition, IsOpen, TypeOK
  <2> QED BY <1>0, <1>2, <2>1 DEF Transition
<1>3. CASE Start(r) \/ FinishRun(r)
  BY <1>2, <1>3, LedgerAssumption DEF Start, FinishRun, RunStatuses
<1>4. CASE Release(r)
  <2>1. ~IsOpen(r)' /\ (q # r => (IsOpen(q)' <=> IsOpen(q)))
    BY <1>4 DEF Release, IsOpen, TypeOK
  <2>2. lease'[a] = IF lease[a] = r THEN NoRun ELSE lease[a]
    BY <1>4 DEF Release
  <2> QED BY <1>0, <1>4, <2>1, <2>2, LedgerAssumption DEF Release
<1> QED BY <1>1, <1>3, <1>4 DEF RunStep

(* An unfinished row keeps its run open and its account leased,            *)
LEMMA HeldByRuns ==
  ASSUME TypeOK, RowsHeld, NEW r \in Runs, RunStep(r)
  PROVE  RowsHeld'
<1>0. UNCHANGED ledger
  BY Frames
<1> SUFFICES ASSUME NEW x \in Resources, state[x] \in ResourceStates \ Terminal
             PROVE  /\ IsOpen(intent[x].run)'
                    /\ intent[x].account # NoAccount => lease'[intent[x].account] = intent[x].run
  BY <1>0 DEF RowsHeld, ledger
<1> DEFINE q == intent[x].run
           a == intent[x].account
<1>1. /\ IsOpen(q)
      /\ a # NoAccount => a \in Accounts /\ lease[a] = q
      /\ q \in Runs
      /\ x \in RowsOf(q)
  BY RowType DEF RowsHeld, IsRow, ResourceStates, RowsOf
<1>2. ASSUME NEW C \in SUBSET Accounts, NEW d \in Demands, Create(r, C, d)
      PROVE  IsOpen(q)' /\ (a # NoAccount => lease'[a] = q)
  <2>1. PICK A \in SUBSET Available(C) :
          lease' = [b \in Accounts |-> IF b \in A THEN r ELSE lease[b]]
    BY <1>2 DEF Create
  <2>2. a \in A => lease[a] = NoRun
    BY DEF Available
  <2>3. IsOpen(q)'
    BY <1>1, <1>2, <1>0 DEF Create, IsOpen, TypeOK, ledger, RunStatuses
  <2> QED BY <1>1, <2>1, <2>2, <2>3, LedgerAssumption
<1>3. ASSUME NEW s, NEW t \in RunStatuses \ {"released"}, Transition(r, s, t)
      PROVE  IsOpen(q)' /\ (a # NoAccount => lease'[a] = q)
  BY <1>0, <1>1, <1>3 DEF Transition, IsOpen, TypeOK, ledger
<1>4. CASE Start(r) \/ FinishRun(r)
  BY <1>3, <1>4, LedgerAssumption DEF Start, FinishRun, RunStatuses
<1>5. CASE Release(r)
  <2>1. q # r
    BY <1>1, <1>5 DEF Release, Releasable
  <2>2. IsOpen(q)'
    BY <1>0, <1>1, <1>5, <2>1 DEF Release, IsOpen, TypeOK, ledger
  <2> QED BY <1>1, <1>5, <2>1, <2>2 DEF Release
<1> QED BY <1>0, <1>2, <1>4, <1>5 DEF RunStep, ledger

(* What an operation on rows does to the row and leaves of the others.     *)
LEMMA RowChange ==
  ASSUME TypeOK, NEW x \in Resources, NEW t, NEW now, Update(x, t, now)
  PROVE  /\ state'[x] = t /\ updatedAt'[x] = now
         /\ \A y \in Resources \ {x} : state'[y] = state[y] /\ updatedAt'[y] = updatedAt[y]
BY DEF Update, TypeOK

LEMMA HeldByRows ==
  ASSUME TypeOK, RowsHeld, NEW x \in Resources, ResourceStep(x)
  PROVE  RowsHeld'
<1>0. UNCHANGED runs /\ \A r : IsOpen(r)' <=> IsOpen(r)
  BY Frames DEF runs, IsOpen
<1>1. PICK now \in Instants :
        \/ \E i \in Intents : PlanIntent(x, i, now)
        \/ \E s \in ResourceStates : s = state[x] /\ \E t \in Transitions[s] : Move(x, t, now)
        \/ \E s \in ResourceStates : s = state[x] /\ BindProduct(x, now)
        \/ \E s \in ResourceStates, v \in Instants :
             s = state[x] /\ ConfirmPhysicalAbsence(x, v, now)
  BY RowCases
<1>2. ASSUME NEW i \in Intents, PlanIntent(x, i, now) PROVE RowsHeld'
  BY <1>0, <1>2 DEF PlanIntent, RowsHeld, RunAccepts, LeasedTo, TypeOK, runs
<1>3. ASSUME NEW s \in ResourceStates \ Terminal, NEW t, state[x] = s, Update(x, t, now),
             UNCHANGED intent
      PROVE  RowsHeld'
  BY <1>0, <1>3, RowChange DEF RowsHeld, runs
<1>4. ASSUME NEW s \in ResourceStates, NEW t \in Transitions[s], s = state[x], Move(x, t, now)
      PROVE  RowsHeld'
  BY <1>3, <1>4, MoveCases DEF Move, Current, Terminal, Deleting
<1>5. ASSUME NEW s \in ResourceStates, s = state[x], BindProduct(x, now) PROVE RowsHeld'
  BY <1>3, <1>5 DEF BindProduct, Current, Terminal, Creating
<1>6. ASSUME NEW s \in ResourceStates, NEW v \in Instants, s = state[x],
             ConfirmPhysicalAbsence(x, v, now)
      PROVE  RowsHeld'
  BY <1>3, <1>6 DEF ConfirmPhysicalAbsence, Current, Terminal, Deleting
<1> QED BY <1>1, <1>2, <1>4, <1>5, <1>6

(* its parents in place,                                                   *)
LEMMA FamiliesByRows ==
  ASSUME TypeOK, Families, NEW x \in Resources, ResourceStep(x)
  PROVE  Families'
<1>1. PICK now \in Instants :
        \/ \E i \in Intents : PlanIntent(x, i, now)
        \/ \E s \in ResourceStates : s = state[x] /\ \E t \in Transitions[s] : Move(x, t, now)
        \/ \E s \in ResourceStates : s = state[x] /\ BindProduct(x, now)
        \/ \E s \in ResourceStates, v \in Instants :
             s = state[x] /\ ConfirmPhysicalAbsence(x, v, now)
  BY RowCases
<1> DEFINE Good(y, p) == /\ state[p] \in {"planned", "cancelled", "present"} \cup Creating
                         /\ state[y] # "planned" => state[p] = "present"
<1>2. ASSUME NEW y \in Resources, state[y] \in ResourceStates \ Terminal, NEW p \in intent[y].parents
      PROVE  p \in Resources /\ Good(y, p) /\ IsRow(y) /\ (p \in Resources => y \in ChildrenOf(p))
  <2>1. IsRow(y)
    BY <1>2 DEF IsRow, ResourceStates
  <2> QED BY <1>2, <2>1, RowType DEF Families, ChildrenOf
<1>3. ASSUME NEW i \in Intents, PlanIntent(x, i, now) PROVE Families'
  <2> SUFFICES ASSUME NEW y \in Resources, state'[y] \in ResourceStates \ Terminal,
                      NEW p \in intent'[y].parents
               PROVE  Good(y, p)'
    BY DEF Families
  <2>1. state[x] = "none" /\ state' = [state EXCEPT ![x] = "planned"]
    BY <1>3 DEF PlanIntent, IsRow, TypeOK
  <2>2. CASE y = x
    <3>1. p \in i.parents /\ i.parents \subseteq Resources
      BY <1>3, <2>2 DEF PlanIntent, TypeOK, Intents
    <3>2. p \in Resources /\ state[p] # "none" /\ state[p] \in {"planned", "present"} \cup Creating
      BY <1>3, <3>1 DEF PlanIntent, GoodParent, IsRow
    <3> QED BY <2>1, <2>2, <3>2 DEF TypeOK
  <2>3. CASE y # x
    <3>1. state[y] \in ResourceStates \ Terminal /\ p \in intent[y].parents
      BY <1>3, <2>1, <2>3 DEF PlanIntent, TypeOK
    <3>2. p \in Resources /\ Good(y, p)
      BY <1>2, <3>1
    <3>3. p # x
      BY <2>1, <3>2 DEF Creating
    <3> QED BY <2>1, <2>3, <3>2, <3>3 DEF TypeOK
  <2> QED BY <2>2, <2>3
<1>4. ASSUME NEW s \in ResourceStates \ Terminal, NEW t, state[x] = s, Update(x, t, now),
             UNCHANGED intent,
             \/ s = "planned" /\ t = "creating" /\ \A p \in intent[x].parents : state[p] = "present"
             \/ s = "planned" /\ t = "cancelled"
             \/ s = "creating" /\ t = "create-uncertain"
             \/ s \in Creating /\ t = "present"
             \/ s = "present" /\ t = "deleting" /\ ChildrenTerminal(x)
             \/ s \in Deleting
      PROVE  Families'
  <2> SUFFICES ASSUME NEW y \in Resources, state'[y] \in ResourceStates \ Terminal,
                      NEW p \in intent'[y].parents
               PROVE  Good(y, p)'
    BY DEF Families
  <2>1. state[y] \in ResourceStates \ Terminal /\ p \in intent[y].parents
    BY <1>4, RowChange
  <2>2. p \in Resources /\ Good(y, p) /\ y \in ChildrenOf(p)
    BY <1>2, <2>1
  <2>3. CASE p = x
    <3>1. ~(s = "present" /\ t = "deleting" /\ ChildrenTerminal(x)) /\ s \notin Deleting
      BY <1>4, <2>1, <2>2, <2>3 DEF ChildrenTerminal, Creating, Deleting
    <3>2. y # x
      BY <1>4, <2>1, <2>2, <2>3, <3>1, RowChange DEF Creating, Terminal
    <3>3. state'[y] = state[y] /\ state'[p] = t
      BY <1>4, <2>3, <3>2, RowChange
    <3>4. state[y] = "planned" \/ state[p] = "present"
      BY <2>2
    <3> QED BY <1>4, <2>3, <3>1, <3>3, <3>4 DEF Creating
  <2>4. CASE p # x
    <3>1. state'[p] = state[p]
      BY <1>4, <2>2, <2>4, RowChange
    <3>2. CASE y = x
      BY <1>4, <2>1, <2>2, <3>1, <3>2, RowChange DEF Creating, Deleting, Terminal
    <3>3. CASE y # x
      BY <1>4, <2>2, <3>1, <3>3, RowChange
    <3> QED BY <3>2, <3>3
  <2> QED BY <2>3, <2>4
<1>5. ASSUME NEW s \in ResourceStates, NEW t \in Transitions[s], s = state[x], Move(x, t, now)
      PROVE  Families'
  <2>1. /\ state[x] = s /\ Update(x, t, now) /\ UNCHANGED intent
        /\ t = "creating" => \A p \in intent[x].parents : state[p] = "present"
        /\ t = "deleting" => ChildrenTerminal(x)
    BY <1>5 DEF Move, Current
  <2> QED BY <1>4, <2>1, MoveCases DEF Terminal, Deleting, Creating
<1>6. ASSUME NEW s \in ResourceStates, s = state[x], BindProduct(x, now) PROVE Families'
  BY <1>4, <1>6 DEF BindProduct, Current, Terminal, Creating
<1>7. ASSUME NEW s \in ResourceStates, NEW v \in Instants, s = state[x],
             ConfirmPhysicalAbsence(x, v, now)
      PROVE  Families'
  BY <1>4, <1>7 DEF ConfirmPhysicalAbsence, Current, Terminal, Deleting
<1> QED BY <1>1, <1>3, <1>5, <1>6, <1>7

(* The facts about a row survive what happens to other rows and what is    *)
(* done to it; a proof is accepted only for what was purged, because       *)
(*     madeAt <= deletionStartedAt <= verifiedAt.                          *)
LEMMA FactsByRows ==
  ASSUME TypeOK, RowFacts, NEW x \in Resources, ResourceStep(x)
  PROVE  RowFacts'
<1>0. UNCHANGED <<object, madeAt, goneAt>>
  BY Frames DEF product
<1>1. PICK now \in Instants :
        \/ \E i \in Intents : PlanIntent(x, i, now)
        \/ \E s \in ResourceStates : s = state[x] /\ \E t \in Transitions[s] : Move(x, t, now)
        \/ \E s \in ResourceStates : s = state[x] /\ BindProduct(x, now)
        \/ \E s \in ResourceStates, v \in Instants :
             s = state[x] /\ ConfirmPhysicalAbsence(x, v, now)
  BY RowCases
<1>2. now \in Times /\ Times \subseteq Nat
  BY LedgerAssumption DEF TypeOK, Instants, Times
<1>3. ASSUME NEW i \in Intents, PlanIntent(x, i, now) PROVE RowFacts'
  BY <1>0, <1>3 DEF PlanIntent, IsRow, RowFacts, TypeOK, Creating, Deleting
<1>4. object[x] # NoObject => madeAt[x] \in Times
  BY DEF TypeOK
<1>5. ASSUME NEW s \in ResourceStates, NEW t \in Transitions[s], s = state[x], Move(x, t, now)
      PROVE  RowFacts'
  <2>1. /\ state[x] = s /\ now >= updatedAt[x] /\ UNCHANGED externalId
        /\ state'[x] = t /\ updatedAt'[x] = now
        /\ \A y \in Resources \ {x} : state'[y] = state[y] /\ updatedAt'[y] = updatedAt[y]
    BY <1>5, RowChange DEF Move, Current
  <2>2. /\ t = "deleting" => deletionStartedAt'[x] = now
        /\ t # "deleting" => deletionStartedAt'[x] = deletionStartedAt[x]
        /\ \A y \in Resources \ {x} : deletionStartedAt'[y] = deletionStartedAt[y]
    BY <1>5 DEF Move, TypeOK
  <2>3. updatedAt[x] \in Times
    BY <2>1, RowType DEF IsRow, ResourceStates
  <2>4. CASE s = "planned" \/ s = "creating"
    BY <1>0, <2>1, <2>2, <2>4, MoveCases DEF RowFacts, Creating, Deleting
  <2>5. CASE s = "present" \/ s \in Deleting
    <3>1. t \in Deleting
      BY <2>5, MoveCases DEF Deleting
    <3>2. object[x] # NoObject /\ externalId[x] = object[x] /\ madeAt[x] <= now
      BY <1>2, <1>4, <2>1, <2>3, <2>5 DEF RowFacts
    <3>3. deletionStartedAt'[x] \in Times /\ madeAt[x] <= deletionStartedAt'[x]
      <4>1. CASE s = "present"
        BY <1>2, <2>1, <2>2, <3>2, <4>1, MoveCases DEF Deleting
      <4>2. CASE s \in Deleting
        BY <2>1, <2>2, <4>2, MoveCases DEF RowFacts, Deleting
      <4> QED BY <2>5, <4>1, <4>2
    <3> QED BY <1>0, <2>1, <2>2, <3>1, <3>2, <3>3 DEF RowFacts, Creating, Deleting
  <2> QED BY <2>4, <2>5, MoveCases
<1>6. ASSUME NEW s \in ResourceStates, s = state[x], BindProduct(x, now) PROVE RowFacts'
  <2>1. /\ state[x] = s /\ s \in Creating
        /\ object[x] # NoObject /\ madeAt[x] <= now
        /\ state'[x] = "present" /\ updatedAt'[x] = now /\ externalId'[x] = object[x]
        /\ \A y \in Resources \ {x} : state'[y] = state[y] /\ updatedAt'[y] = updatedAt[y]
    BY <1>2, <1>4, <1>6, RowChange DEF BindProduct, Current, TypeOK
  <2>2. \A y \in Resources \ {x} : /\ deletionStartedAt'[y] = deletionStartedAt[y]
                                   /\ externalId'[y] = externalId[y]
    BY <1>6 DEF BindProduct, TypeOK
  <2> QED BY <1>0, <2>1, <2>2 DEF RowFacts, Creating, Deleting
<1>7. ASSUME NEW s \in ResourceStates, NEW v \in Instants, s = state[x],
             ConfirmPhysicalAbsence(x, v, now)
      PROVE  RowFacts'
  <2>1. /\ state[x] = s /\ s \in Deleting /\ now >= updatedAt[x]
        /\ UNCHANGED <<externalId, deletionStartedAt>>
        /\ state'[x] = "deleted" /\ updatedAt'[x] = now
        /\ \A y \in Resources \ {x} : state'[y] = state[y] /\ updatedAt'[y] = updatedAt[y]
    BY <1>7, RowChange DEF ConfirmPhysicalAbsence, Current
  <2>2. /\ object[x] # NoObject /\ externalId[x] = object[x] /\ madeAt[x] <= updatedAt[x]
        /\ deletionStartedAt[x] \in Times /\ madeAt[x] <= deletionStartedAt[x]
    BY <2>1 DEF RowFacts
  <2>3. madeAt[x] <= now
    <3>1. updatedAt[x] \in Times
      BY <2>1, RowType DEF IsRow, ResourceStates
    <3> QED BY <1>2, <1>4, <2>1, <2>2, <3>1
  <2>4. goneAt[x] # NoTime
    <3>1. v < madeAt[x] \/ goneAt[x] # NoTime
      BY <1>7, <2>2 DEF ConfirmPhysicalAbsence, AbsentAt
    <3>2. v >= deletionStartedAt[x] /\ v \in Nat
      BY <1>7 DEF ConfirmPhysicalAbsence, Instants
    <3>3. madeAt[x] \in Nat /\ deletionStartedAt[x] \in Nat /\ madeAt[x] <= deletionStartedAt[x]
      BY <1>2, <1>4, <2>2
    <3> QED BY <3>1, <3>2, <3>3
  <2> QED BY <1>0, <2>1, <2>2, <2>3, <2>4 DEF RowFacts, Creating, Deleting
<1> QED BY <1>1, <1>3, <1>5, <1>6, <1>7

LEMMA FactsByProduct ==
  ASSUME TypeOK, RowFacts, NEW x \in Resources, ProductStep(x)
  PROVE  RowFacts'
<1>0. UNCHANGED ledger
  BY Frames
<1>1. ASSUME NEW o \in Objects, ProductMakes(x, o) PROVE RowFacts'
  BY <1>0, <1>1 DEF ProductMakes, RowFacts, TypeOK, ledger, Creating, Deleting
<1>2. CASE ProductPurges(x)
  <2>1. /\ state[x] \in Deleting /\ UNCHANGED <<object, madeAt>>
        /\ goneAt' = [goneAt EXCEPT ![x] = clock]
    BY <1>2 DEF ProductPurges
  <2>2. clock # NoTime
    BY LedgerAssumption DEF TypeOK, Times
  <2> QED BY <1>0, <2>1, <2>2 DEF RowFacts, TypeOK, ledger, Creating, Deleting
<1> QED BY <1>1, <1>2 DEF ProductStep

(* Every step keeps the invariant.                                         *)
LEMMA StepInv ==
  ASSUME TypeOK, IndInv, [Next]_vars
  PROVE  IndInv'
<1>1. ASSUME NEW r \in Runs, RunStep(r) PROVE IndInv'
  <2>1. RowFacts' /\ Families'
    BY <1>1, Frames DEF IndInv, RowFacts, Families, ledger, product
  <2> QED BY <1>1, <2>1, LeasesKept, HeldByRuns DEF IndInv
<1>2. ASSUME NEW x \in Resources, ResourceStep(x) PROVE IndInv'
  <2>1. LeasesAreCasts'
    BY <1>2, Frames DEF IndInv, LeasesAreCasts, IsOpen, runs
  <2> QED BY <1>2, <2>1, HeldByRows, FamiliesByRows, FactsByRows DEF IndInv
<1>3. ASSUME UNCHANGED <<runs, ledger>>
      PROVE  RowsHeld' /\ Families' /\ LeasesAreCasts'
  BY <1>3 DEF IndInv, RowsHeld, Families, LeasesAreCasts, IsOpen, runs, ledger
<1>4. ASSUME NEW x \in Resources, ProductStep(x) PROVE IndInv'
  BY <1>3, <1>4, Frames, FactsByProduct DEF IndInv
<1>5. CASE Tick \/ UNCHANGED vars
  <2>1. UNCHANGED <<runs, ledger, product>>
    BY <1>5, Frames DEF vars
  <2>2. RowFacts'
    BY <2>1 DEF IndInv, RowFacts, ledger, product
  <2> QED BY <1>3, <2>1, <2>2 DEF IndInv
<1> QED BY <1>1, <1>2, <1>4, <1>5 DEF Next

(* The conjunction is an invariant of the ledger.                          *)
THEOREM LedgerInvariant == Spec => []IndInv
<1>1. TypeOK /\ IndInv /\ [Next]_vars => IndInv'
  BY StepInv
<1> QED BY InitInv, LedgerTypesCorrect, <1>1, PTL DEF Spec

-----------------------------------------------------------------------------
(* What follows from the invariant.                                        *)

(* What is in the product has an unfinished row, dispatched before.        *)
LEMMA UnfinishedWhileThere ==
  ASSUME TypeOK, RowFacts, NEW x \in Resources, Exists(x)
  PROVE  state[x] \in ResourceStates \ Terminal /\ state[x] # "planned" /\ IsRow(x)
<1>1. object[x] # NoObject
  BY DEF Exists, TypeOK
<1>2. goneAt[x] = NoTime
  BY DEF Exists
<1> QED BY <1>1, <1>2 DEF RowFacts, TypeOK, Terminal, IsRow, ResourceStates

(* The leases are the accounts of the runs not yet released.               *)
THEOREM LeasesAreAlwaysCasts == Spec => []LeasesAreCasts
BY LedgerInvariant, PTL DEF IndInv

(* A released run has nothing in the product.                              *)
THEOREM ReleasedRunsAreClean == Spec => []NothingLeftBehind
<1>1. TypeOK /\ IndInv => NothingLeftBehind
  BY UnfinishedWhileThere DEF IndInv, RowsHeld, NothingLeftBehind
<1> QED BY LedgerTypesCorrect, LedgerInvariant, <1>1, PTL

(* What the ledger calls deleted is gone.                                  *)
THEOREM DeletionsAreProved == Spec => []DeletedIsGone
<1>1. IndInv => DeletedIsGone
  BY DEF IndInv, RowFacts, DeletedIsGone, Exists
<1> QED BY LedgerInvariant, <1>1, PTL

(* The account of a thing in the product stays with the thing's run.       *)
THEOREM AccountsStay == Spec => []AccountStaysWithObject
<1>1. TypeOK /\ IndInv => AccountStaysWithObject
  BY UnfinishedWhileThere DEF IndInv, RowsHeld, AccountStaysWithObject
<1> QED BY LedgerTypesCorrect, LedgerInvariant, <1>1, PTL

(* In the product a child never outlives its parents.                      *)
THEOREM ParentsStay == Spec => []ParentsOutliveChildren
<1>1. ASSUME TypeOK, IndInv, NEW c \in Resources, Exists(c), NEW p \in intent[c].parents
      PROVE  Exists(p)
  <2>1. p \in Resources /\ state[p] = "present"
    BY <1>1, UnfinishedWhileThere, RowType DEF IndInv, Families
  <2>2. object[p] # NoObject /\ goneAt[p] = NoTime
    BY <1>1, <2>1 DEF IndInv, RowFacts, Deleting
  <2> QED BY <1>1, <2>1, <2>2 DEF Exists, TypeOK
<1>2. TypeOK /\ IndInv => ParentsOutliveChildren
  BY <1>1 DEF ParentsOutliveChildren
<1> QED BY LedgerTypesCorrect, LedgerInvariant, <1>2, PTL

(* A released run stays as it is, in the ledger and in the product.        *)
THEOREM ReleaseIsFinal == Spec => ReleasedIsFinal
<1> DEFINE Frozen(r) ==
      /\ status'[r] = "released" /\ cast'[r] = cast[r]
      /\ {x \in Resources : IsRow(x)' /\ intent'[x].run = r} = RowsOf(r)
      /\ \A x \in RowsOf(r) : state'[x] = state[x] /\ (Exists(x)' <=> Exists(x))
<1>1. ASSUME TypeOK, IndInv, Next, NEW r \in Runs, status[r] = "released" PROVE Frozen(r)
  <2>1. \A x \in RowsOf(r) : state[x] \in Terminal
    BY <1>1 DEF IndInv, RowsHeld, RowsOf, IsRow, IsOpen, TypeOK
  <2>2. ASSUME NEW q \in Runs, RunStep(q) PROVE Frozen(r)
    <3>1. UNCHANGED <<ledger, product>>
      BY <2>2, Frames
    <3>2. status'[r] = "released" /\ cast'[r] = cast[r]
      BY <1>1, <2>2 DEF RunStep, Create, Start, FinishRun, Transition, Release, RunTransitions,
                        RunStatuses, TypeOK
    <3> QED BY <3>1, <3>2 DEF RowsOf, IsRow, Exists, ledger, product
  <2>3. ASSUME NEW x \in Resources, ResourceStep(x) PROVE Frozen(r)
    <3>1. UNCHANGED <<runs, product>>
      BY <2>3, Frames
    <3>2. ASSUME NEW i \in Intents, NEW now, PlanIntent(x, i, now)
          PROVE  /\ {y \in Resources : IsRow(y)' /\ intent'[y].run = r} = RowsOf(r)
                 /\ \A y \in RowsOf(r) : state'[y] = state[y]
      <4>1. i.run # r
        BY <1>1, <3>2 DEF PlanIntent, RunAccepts, IsOpen
      <4>2. ~IsRow(x) /\ intent'[x] = i
        BY <1>1, <3>2 DEF PlanIntent, TypeOK
      <4>3. \A y \in Resources \ {x} : state'[y] = state[y] /\ intent'[y] = intent[y]
        BY <1>1, <3>2 DEF PlanIntent, TypeOK
      <4> QED BY <4>1, <4>2, <4>3 DEF RowsOf, IsRow
    <3>3. ASSUME NEW s \in ResourceStates \ Terminal, NEW t, NEW now, state[x] = s, t # "none",
                 Update(x, t, now), UNCHANGED intent
          PROVE  /\ {y \in Resources : IsRow(y)' /\ intent'[y].run = r} = RowsOf(r)
                 /\ \A y \in RowsOf(r) : state'[y] = state[y]
      <4>1. x \notin RowsOf(r) /\ IsRow(x)
        BY <2>1, <3>3 DEF IsRow, ResourceStates
      <4>2. intent[x].run # r
        BY <4>1 DEF RowsOf
      <4>3. \A y \in Resources \ {x} : state'[y] = state[y]
        BY <1>1, <3>3, RowChange
      <4> QED BY <3>3, <4>2, <4>3 DEF RowsOf, IsRow
    <3>4. ASSUME NEW s \in ResourceStates, NEW now, NEW t, state[x] = s, Update(x, t, now),
                 UNCHANGED intent, s \in {"planned", "creating", "present"} \cup Creating \cup Deleting,
                 t # "none"
          PROVE  /\ {y \in Resources : IsRow(y)' /\ intent'[y].run = r} = RowsOf(r)
                 /\ \A y \in RowsOf(r) : state'[y] = state[y]
      BY <3>3, <3>4 DEF Terminal, Creating, Deleting
    <3>5. ASSUME NEW s \in ResourceStates, NEW t \in Transitions[s], NEW now, s = state[x],
                 Move(x, t, now)
          PROVE  /\ {y \in Resources : IsRow(y)' /\ intent'[y].run = r} = RowsOf(r)
                 /\ \A y \in RowsOf(r) : state'[y] = state[y]
      BY <3>4, <3>5, MoveCases DEF Move, Current
    <3>6. ASSUME NEW s \in ResourceStates, NEW now, s = state[x],
                 BindProduct(x, now) \/ \E v \in Instants : ConfirmPhysicalAbsence(x, v, now)
          PROVE  /\ {y \in Resources : IsRow(y)' /\ intent'[y].run = r} = RowsOf(r)
                 /\ \A y \in RowsOf(r) : state'[y] = state[y]
      BY <3>4, <3>6 DEF BindProduct, ConfirmPhysicalAbsence, Current
    <3>7. /\ {y \in Resources : IsRow(y)' /\ intent'[y].run = r} = RowsOf(r)
          /\ \A y \in RowsOf(r) : state'[y] = state[y]
      BY <1>1, <2>3, <3>2, <3>5, <3>6, RowCases
    <3> QED BY <1>1, <3>1, <3>7 DEF runs, product, Exists
  <2>4. ASSUME NEW x \in Resources, ProductStep(x) PROVE Frozen(r)
    <3>1. UNCHANGED <<runs, ledger>>
      BY <2>4, Frames
    <3>2. state[x] \in Creating \cup Deleting
      BY <2>4 DEF ProductStep, ProductMakes, ProductPurges
    <3>3. x \notin RowsOf(r)
      BY <2>1, <3>2 DEF Terminal, Creating, Deleting
    <3>4. \A y \in Resources \ {x} : madeAt'[y] = madeAt[y] /\ goneAt'[y] = goneAt[y]
      BY <1>1, <2>4 DEF ProductStep, ProductMakes, ProductPurges, TypeOK
    <3>5. \A y \in RowsOf(r) : Exists(y)' <=> Exists(y)
      BY <3>3, <3>4 DEF Exists, RowsOf
    <3> QED BY <1>1, <3>1, <3>5 DEF RowsOf, IsRow, runs, ledger
  <2>5. CASE Tick
    BY <1>1, <2>5 DEF Tick, RowsOf, IsRow, Exists, runs, ledger, product
  <2> QED BY <1>1, <2>2, <2>3, <2>4, <2>5 DEF Next
<1>2. TypeOK /\ IndInv /\ [Next]_vars =>
        [\A r \in Runs : status[r] = "released" =>
           /\ status'[r] = "released" /\ cast'[r] = cast[r]
           /\ {x \in Resources : IsRow(x)' /\ intent'[x].run = r} = RowsOf(r)
           /\ \A x \in RowsOf(r) : state'[x] = state[x] /\ (Exists(x)' <=> Exists(x))]_vars
  BY <1>1
<1> QED BY LedgerTypesCorrect, LedgerInvariant, <1>2, PTL DEF Spec, ReleasedIsFinal

-----------------------------------------------------------------------------
(* The ledger implements RunCustody.                                       *)

(* No demand is served by nobody.                                          *)
LEMMA CastsAreNotEmpty ==
  ASSUME NEW d \in Demands, NEW A, Serves(A, d)
  PROVE  A # {}
<1> SUFFICES ASSUME A = {} PROVE FALSE
  OBVIOUS
<1>1. PICK part \in [A -> Roles] :
        \A ro \in Roles : Cardinality({a \in A : part[a] = ro}) = d[ro]
  BY DEF Serves
<1>2. \A ro \in Roles : {a \in A : part[a] = ro} = {}
  OBVIOUS
<1>3. \A ro \in Roles : d[ro] = 0
  BY <1>1, <1>2, FS_EmptySet
<1> QED BY <1>3, LedgerAssumption

LEMMA InitCustody == Init => Custody!Init
BY DEF Init, Custody!Init, phase, maker, Exists

(* An operation on runs opens or closes a run, or changes nothing there,   *)
LEMMA RunCustodyStep ==
  ASSUME TypeOK, IndInv, NEW r \in Runs, RunStep(r)
  PROVE  Custody!Next \/ UNCHANGED Custody!vars
<1>0. UNCHANGED maker
  BY Frames DEF maker, Exists, ledger, product
<1>1. ASSUME NEW C \in SUBSET Accounts, NEW d \in Demands, Create(r, C, d)
      PROVE  \E A \in SUBSET Accounts : Custody!Open(r, A)
  <2>1. PICK A \in SUBSET Available(C) :
          /\ Serves(A, d)
          /\ lease' = [a \in Accounts |-> IF a \in A THEN r ELSE lease[a]]
    BY <1>1 DEF Create
  <2>2. A \in SUBSET Accounts /\ \A a \in A : lease[a] = NoRun
    BY DEF Available
  <2>3. A # {}
    BY <2>1, CastsAreNotEmpty
  <2>4. phase[r] = "new" /\ phase' = [phase EXCEPT ![r] = "open"]
    BY <1>1 DEF Create, phase, TypeOK
  <2> QED BY <1>0, <2>1, <2>2, <2>3, <2>4 DEF Custody!Open
<1>2. ASSUME NEW s \in {"reserved", "running"}, NEW t \in RunStatuses \ {"released"},
             Transition(r, s, t)
      PROVE  UNCHANGED Custody!vars
  <2>1. UNCHANGED phase
    BY <1>2 DEF Transition, phase, TypeOK, RunStatuses
  <2> QED BY <1>0, <1>2, <2>1 DEF Transition, Custody!vars
<1>3. CASE Start(r) \/ FinishRun(r)
  BY <1>2, <1>3, LedgerAssumption DEF Start, FinishRun, RunStatuses
<1>4. CASE Release(r)
  <2>1. phase[r] = "open" /\ phase' = [phase EXCEPT ![r] = "closed"]
    BY <1>4 DEF Release, phase, RunTransitions, RunStatuses, TypeOK
  <2>2. ASSUME NEW x \in Resources PROVE maker[x] # r
    <3>1. CASE Exists(x)
      <4>1. IsRow(x) /\ state[x] \notin Terminal
        BY <3>1, UnfinishedWhileThere DEF IndInv
      <4> QED BY <1>4, <3>1, <4>1 DEF Release, Releasable, RowsOf, maker
    <3>2. CASE ~Exists(x)
      BY <3>2, LedgerAssumption DEF maker
    <3> QED BY <3>1, <3>2
  <2>3. Custody!Close(r)
    BY <1>0, <1>4, <2>1, <2>2 DEF Release, Custody!Close
  <2> QED BY <2>3 DEF Custody!Next
<1> QED BY <1>1, <1>3, <1>4 DEF RunStep, Custody!Next

(* one on rows changes nothing there,                                      *)
LEMMA RowCustodyStep ==
  ASSUME TypeOK, IndInv, NEW x \in Resources, ResourceStep(x)
  PROVE  UNCHANGED Custody!vars
<1>1. UNCHANGED <<runs, product>>
  BY Frames
<1>2. \A y \in Resources : Exists(y)' <=> Exists(y)
  BY <1>1 DEF Exists, product
<1>3. \A y \in Resources : Exists(y) => intent'[y] = intent[y]
  <2>1. ASSUME NEW i \in Intents, NEW now, PlanIntent(x, i, now)
        PROVE  \A y \in Resources : Exists(y) => intent'[y] = intent[y]
    BY <2>1, UnfinishedWhileThere DEF PlanIntent, TypeOK, IndInv
  <2> QED BY <2>1 DEF ResourceStep, Move, BindProduct, ConfirmPhysicalAbsence
<1>4. UNCHANGED maker
  BY <1>2, <1>3 DEF maker
<1> QED BY <1>1, <1>4 DEF Custody!vars, phase, runs

(* and the product brings and clears what the rows account for.            *)
LEMMA ProductCustodyStep ==
  ASSUME TypeOK, IndInv, NEW x \in Resources, ProductStep(x)
  PROVE  Custody!Next
<1>0. UNCHANGED <<runs, ledger>> /\ UNCHANGED phase
  BY Frames DEF phase, runs
<1>1. state[x] \in ResourceStates \ Terminal /\ state[x] \in Creating \cup Deleting /\ IsRow(x)
  BY DEF ProductStep, ProductMakes, ProductPurges, Creating, Deleting, Terminal, ResourceStates, IsRow
<1>2. intent[x].run \in Runs /\ phase[intent[x].run] = "open"
  <2>1. intent[x].run \in Runs /\ IsOpen(intent[x].run)
    BY <1>1, RowType DEF IndInv, RowsHeld
  <2> QED BY <2>1 DEF phase, IsOpen, RunStatuses
<1>3. ASSUME NEW o \in Objects, ProductMakes(x, o) PROVE Custody!Bring(intent[x].run, x)
  <2>1. ~Exists(x) /\ Exists(x)'
    <3>1. state[x] \in Creating /\ madeAt[x] = NoTime /\ goneAt[x] = NoTime
      BY <1>3 DEF ProductMakes, TypeOK, IndInv, RowFacts, Creating, Deleting
    <3>2. madeAt'[x] # NoTime /\ goneAt'[x] = NoTime
      BY <1>3, <3>1, LedgerAssumption DEF ProductMakes, TypeOK, Times
    <3> QED BY <3>1, <3>2 DEF Exists
  <2>2. \A y \in Resources \ {x} : Exists(y)' <=> Exists(y)
    BY <1>3 DEF ProductMakes, Exists, TypeOK
  <2>3. maker[x] = NoRun /\ maker' = [maker EXCEPT ![x] = intent[x].run]
    BY <1>0, <2>1, <2>2 DEF maker, ledger
  <2> QED BY <1>0, <1>2, <2>3 DEF Custody!Bring, runs
<1>4. ASSUME ProductPurges(x) PROVE Custody!Clear(intent[x].run, x)
  <2>1. Exists(x) /\ ~Exists(x)'
    BY <1>4, LedgerAssumption DEF ProductPurges, Exists, TypeOK, Times
  <2>2. \A y \in Resources \ {x} : Exists(y)' <=> Exists(y)
    BY <1>4 DEF ProductPurges, Exists, TypeOK
  <2>3. maker[x] = intent[x].run /\ maker' = [maker EXCEPT ![x] = NoRun]
    BY <1>0, <2>1, <2>2 DEF maker, ledger
  <2> QED BY <1>0, <1>2, <2>3 DEF Custody!Clear, runs
<1> QED BY <1>2, <1>3, <1>4 DEF ProductStep, Custody!Next

(* Whatever is lost, late or repeated, accounts are taken together, given  *)
(* back together, and given back clean.                                    *)
THEOREM LedgerKeepsCustody == Spec => CustodyPromise
<1>1. TypeOK /\ IndInv /\ [Next]_vars => [Custody!Next]_(Custody!vars)
  <2> SUFFICES ASSUME TypeOK, IndInv, [Next]_vars
               PROVE  Custody!Next \/ UNCHANGED Custody!vars
    BY DEF Custody!vars
  <2>1. CASE Tick \/ UNCHANGED vars
    <3>1. UNCHANGED <<runs, ledger, product>>
      BY <2>1, Frames DEF vars
    <3> QED BY <3>1 DEF Custody!vars, phase, maker, Exists, runs, ledger, product
  <2> QED BY <2>1, RunCustodyStep, RowCustodyStep, ProductCustodyStep DEF Next
<1> QED BY InitCustody, LedgerTypesCorrect, LedgerInvariant, <1>1, PTL
       DEF Spec, CustodyPromise, Custody!Spec

-----------------------------------------------------------------------------
(* The selection of accounts: what its search keeps true (Sound).          *)

(* The slots the search for a slot has come to.                            *)
Reached(m) == {m.slot} \cup {m.taker[k] : k \in m.visited}

(* The calls that wait for the holder of their candidate to move, or have  *)
(* their candidate.                                                        *)
Asking(m) == {i \in 1..Len(m.calls) : i < Len(m.calls) \/ m.pc = "assign"}

(* The slots behind the current one have a candidate each who plays them,  *)
(* and taker and given agree, but for the candidate about to be assigned.  *)
Matched(ask, m) ==
  /\ \A s \in DOMAIN ask.slots :
       /\ m.given[s] # 0 <=> s > m.slot
       /\ m.given[s] # 0 =>
            Plays(ask, m.given[s], s) /\ m.taker[m.given[s]] = s
       /\ m.pc = "assign" => m.given[s] # Innermost(m).at
  /\ \A k \in DOMAIN ask.candidates :
       m.taker[k] # 0 => \/ m.given[m.taker[k]] = k
                         \/ m.pc = "assign" /\ k = Innermost(m).at

(* The open calls are a path: each has visited the candidate it asks for,  *)
(* who is the next one's, and no two are for the same slot.                *)
Chained(ask, m) ==
  /\ m.calls # <<>> => m.calls[1].slot = m.slot
  /\ \A i, j \in 1..Len(m.calls) : m.calls[i].slot = m.calls[j].slot => i = j
  /\ \A i \in 1..Len(m.calls) - 1 : m.taker[m.calls[i].at] = m.calls[i + 1].slot
  /\ \A i \in Asking(m) :
       /\ m.calls[i].at \in m.visited
       /\ Plays(ask, m.calls[i].at, m.calls[i].slot)
       /\ \A j \in Asking(m) : m.calls[i].at = m.calls[j].at => i = j

(* Every candidate visited is taken, and whoever plays a slot reached is   *)
(* visited or still to be looked at by an open call.                       *)
Explored(ask, m) ==
  m.pc \in {"search", "failed"} =>
    /\ \A k \in m.visited : m.taker[k] # 0
    /\ \A s \in Reached(m), k \in DOMAIN ask.candidates :
         Plays(ask, k, s) =>
           \/ k \in m.visited
           \/ \E i \in 1..Len(m.calls) : m.calls[i].slot = s /\ k >= m.calls[i].at

(* Where the search is says how many calls are open.                       *)
Staged(m) ==
  /\ m.calls = <<>> <=> m.pc \in {"found", "failed"}
  /\ m.slot = 0 <=> m.pc = "found"

(* The invariant of the search.                                            *)
Sound(ask, m) ==
  m \in Selections(ask) /\ Staged(m) /\ Matched(ask, m) /\ Chained(ask, m) /\ Explored(ask, m)

(* The types of what is asked.                                             *)
LEMMA AskTypes ==
  ASSUME NEW R, NEW ask \in Asks(R)
  PROVE  /\ Len(ask.slots) \in Nat /\ Len(ask.candidates) \in Nat
         /\ DOMAIN ask.slots = 1..Len(ask.slots)
         /\ DOMAIN ask.candidates = 1..Len(ask.candidates)
  BY LenProperties DEF Asks

(* The types of a selection and of its open calls.                         *)
LEMMA SelectionTypes ==
  ASSUME NEW R, NEW ask \in Asks(R), NEW m \in Selections(ask)
  PROVE  /\ m.calls \in Seq(Calls(ask)) /\ Len(m.calls) \in Nat
         /\ DOMAIN m.calls = 1..Len(m.calls)
         /\ m.calls # <<>> <=> Len(m.calls) > 0
         /\ \A i \in 1..Len(m.calls) :
              /\ m.calls[i] \in Calls(ask)
              /\ m.calls[i].slot \in 1..Len(ask.slots)
              /\ m.calls[i].at \in 1..Len(ask.candidates) + 1
<1>1. m.calls \in Seq(Calls(ask))
  BY DEF Selections
<1>2. /\ Len(m.calls) \in Nat /\ DOMAIN m.calls = 1..Len(m.calls)
      /\ m.calls # <<>> <=> Len(m.calls) > 0
  BY <1>1, LenProperties, EmptySeq
<1>3. \A i \in 1..Len(m.calls) : m.calls[i] \in Calls(ask)
  BY <1>1, ElementOfSeq
<1> QED
  BY <1>1, <1>2, <1>3, AskTypes DEF Calls

(* The callers are the calls but the last.                                 *)
LEMMA CallersAre ==
  ASSUME NEW R, NEW ask \in Asks(R), NEW m \in Selections(ask), m.calls # <<>>
  PROVE  /\ Callers(m) \in Seq(Calls(ask))
         /\ Len(Callers(m)) = Len(m.calls) - 1
         /\ \A i \in 1..Len(m.calls) - 1 : Callers(m)[i] = m.calls[i]
<1>1. Len(m.calls) \in Nat /\ Len(m.calls) > 0
      /\ \A i \in 1..Len(m.calls) - 1 : m.calls[i] \in Calls(ask)
  BY SelectionTypes
<1>2. Len(m.calls) - 1 \in Int /\ 1 \in Int
  BY <1>1
<1>3. /\ SubSeq(m.calls, 1, Len(m.calls) - 1) \in Seq(Calls(ask))
      /\ Len(SubSeq(m.calls, 1, Len(m.calls) - 1)) =
           IF 1 <= Len(m.calls) - 1 THEN Len(m.calls) - 1 - 1 + 1 ELSE 0
      /\ \A i \in 1..Len(m.calls) - 1 - 1 + 1 :
           SubSeq(m.calls, 1, Len(m.calls) - 1)[i] = m.calls[1 + i - 1]
  BY <1>1, <1>2, SubSeqProperties
<1> QED
  BY <1>1, <1>3 DEF Callers

(* Going on, the innermost call moves to its next candidate.               *)
LEMMA GoesOnIs ==
  ASSUME NEW R, NEW ask \in Asks(R), NEW m \in Selections(ask), m.calls # <<>>,
         Innermost(m).at \in DOMAIN ask.candidates
  PROVE  /\ GoesOn(m) \in Selections(ask)
         /\ GoesOn(m).pc = m.pc /\ GoesOn(m).slot = m.slot
         /\ GoesOn(m).visited = m.visited /\ GoesOn(m).taker = m.taker
         /\ GoesOn(m).given = m.given
         /\ Len(GoesOn(m).calls) = Len(m.calls)
         /\ \A i \in 1..Len(m.calls) :
              /\ GoesOn(m).calls[i].slot = m.calls[i].slot
              /\ GoesOn(m).calls[i].at =
                   IF i = Len(m.calls) THEN m.calls[i].at + 1 ELSE m.calls[i].at
<1> DEFINE n == Len(m.calls)
<1> DEFINE c == [m.calls[n] EXCEPT !.at = @ + 1]
<1>1. /\ n \in 1..n /\ m.calls \in Seq(Calls(ask)) /\ m.calls[n] \in Calls(ask)
      /\ m.calls[n].at \in 1..Len(ask.candidates) /\ Len(ask.candidates) \in Nat
  BY SelectionTypes, AskTypes DEF Innermost
<1>2. c \in Calls(ask) /\ c.slot = m.calls[n].slot /\ c.at = m.calls[n].at + 1
  BY <1>1 DEF Calls
<1>3. GoesOn(m) = [m EXCEPT !.calls = [m.calls EXCEPT ![n] = c]]
  BY DEF GoesOn, Selections
<1> HIDE DEF c, n
<1>4. /\ [m.calls EXCEPT ![n] = c] \in Seq(Calls(ask))
      /\ Len([m.calls EXCEPT ![n] = c]) = Len(m.calls)
      /\ \A j \in 1..Len(m.calls) :
           [m.calls EXCEPT ![n] = c][j] = IF j = n THEN c ELSE m.calls[j]
  BY <1>1, <1>2, ExceptSeq DEF n
<1> QED
  BY <1>2, <1>3, <1>4 DEF Selections, n

(* A search has an innermost call.                                         *)
LEMMA SearchesSoundly ==
  ASSUME NEW R, NEW ask \in Asks(R), NEW m, Sound(ask, m), m.pc = "search"
  PROVE  /\ m \in Selections(ask) /\ m.calls # <<>>
         /\ Len(m.calls) \in Nat /\ Len(m.calls) \in 1..Len(m.calls)
         /\ Innermost(m).at \in 1..Len(ask.candidates) + 1
         /\ Innermost(m).slot \in DOMAIN ask.slots
         /\ Asking(m) = 1..Len(m.calls) - 1
<1>1. m \in Selections(ask) /\ m.calls # <<>>
  BY DEF Sound, Staged
<1>2. Len(m.calls) \in Nat /\ Len(m.calls) \in 1..Len(m.calls)
  BY <1>1, SelectionTypes
<1> QED
  BY <1>1, <1>2, SelectionTypes, AskTypes DEF Innermost, Asking

(* The search goes on past a candidate visited before or of no use.        *)
LEMMA GoesOnSoundly ==
  ASSUME NEW R, NEW ask \in Asks(R), NEW m, Sound(ask, m), m.pc = "search",
         Innermost(m).at \in DOMAIN ask.candidates,
         Innermost(m).at \in m.visited \/ ~Plays(ask, Innermost(m).at, Innermost(m).slot)
  PROVE  Sound(ask, GoesOn(m))
<1> DEFINE n == Len(m.calls)
           g == GoesOn(m)
<1>1. /\ m \in Selections(ask) /\ m.calls # <<>> /\ n \in Nat /\ n \in 1..n
      /\ Asking(m) = 1..n - 1
  BY SearchesSoundly
<1>2. /\ g \in Selections(ask) /\ Len(g.calls) = n
      /\ \A i \in 1..n : /\ g.calls[i].slot = m.calls[i].slot
                         /\ g.calls[i].at = IF i = n THEN m.calls[i].at + 1
                                                     ELSE m.calls[i].at
  BY <1>1, GoesOnIs
<1>3. /\ g.pc = m.pc /\ g.slot = m.slot /\ g.visited = m.visited
      /\ g.taker = m.taker /\ g.given = m.given
  BY <1>1, GoesOnIs
<1> HIDE DEF g
<1>4. Staged(g)
  <2>1. g.calls # <<>>
    BY <1>1, <1>2, SelectionTypes
  <2> QED
    BY <1>1, <1>3, <2>1 DEF Sound, Staged
<1>5. Matched(ask, g)
  BY <1>3 DEF Sound, Matched
<1>6. Chained(ask, g)
  <2>1. Asking(g) = 1..n - 1
    BY <1>1, <1>2, <1>3 DEF Asking
  <2>2. g.calls[1].slot = m.slot
    BY <1>1, <1>2 DEF Sound, Chained
  <2>3. \A i, j \in 1..n : g.calls[i].slot = g.calls[j].slot => i = j
    BY <1>1, <1>2, <1>3, <2>1 DEF Sound, Chained
  <2>4. \A i \in 1..n - 1 : g.taker[g.calls[i].at] = g.calls[i + 1].slot
    <3> TAKE i \in 1..n - 1
    <3>1. i \in 1..n /\ i + 1 \in 1..n /\ i # n
      BY <1>1
    <3>2. m.taker[m.calls[i].at] = m.calls[i + 1].slot
      BY DEF Sound, Chained
    <3> QED
      BY <1>2, <1>3, <3>1, <3>2
  <2>5. \A i \in Asking(g) :
          /\ g.calls[i].at \in g.visited
          /\ Plays(ask, g.calls[i].at, g.calls[i].slot)
          /\ \A j \in Asking(g) : g.calls[i].at = g.calls[j].at => i = j
    <3>1. \A i \in 1..n - 1 : i \in 1..n /\ i # n
      BY <1>1
    <3>2. \A i \in 1..n - 1 : g.calls[i].at = m.calls[i].at
                             /\ g.calls[i].slot = m.calls[i].slot
      BY <1>2, <3>1
    <3> QED
      BY <1>1, <1>3, <2>1, <3>2 DEF Sound, Chained
  <2> QED
    BY <1>2, <1>3, <2>2, <2>3, <2>4, <2>5 DEF Chained
<1>7. Explored(ask, g)
  <2>1. Reached(g) = Reached(m)
    BY <1>3 DEF Reached
  <2> SUFFICES ASSUME NEW s \in Reached(m), NEW k \in DOMAIN ask.candidates,
                      Plays(ask, k, s), k \notin m.visited
               PROVE  \E i \in 1..n : g.calls[i].slot = s /\ k >= g.calls[i].at
    BY <1>2, <1>3, <2>1 DEF Explored, Sound
  <2>2. PICK i \in 1..n : m.calls[i].slot = s /\ k >= m.calls[i].at
    BY DEF Sound, Explored
  <2>3. i = n => k # m.calls[i].at
    BY <2>2 DEF Innermost
  <2>4. k \in Nat /\ m.calls[i].at \in Nat
    BY <1>1, <2>2, SelectionTypes, AskTypes
  <2>5. k >= g.calls[i].at
    BY <1>2, <2>2, <2>3, <2>4
  <2> QED
    BY <1>2, <2>2, <2>5
<1> QED
  BY <1>2, <1>4, <1>5, <1>6, <1>7 DEF Sound, g

(* The call that gave up leaves its caller at the next candidate.          *)
LEMMA GivesUpIs ==
  ASSUME NEW R, NEW ask \in Asks(R), NEW m, Sound(ask, m), m.pc = "search",
         Len(m.calls) # 1
  PROVE  /\ Len(m.calls) - 1 \in 1..Len(m.calls) - 1
         /\ m.calls[Len(m.calls) - 1].at \in m.visited
         /\ GivesUp(m) \in Selections(ask) /\ GivesUp(m).calls # <<>>
         /\ Len(GivesUp(m).calls) = Len(m.calls) - 1
         /\ \A i \in 1..Len(m.calls) - 1 :
              /\ GivesUp(m).calls[i].slot = m.calls[i].slot
              /\ GivesUp(m).calls[i].at =
                   IF i = Len(m.calls) - 1 THEN m.calls[i].at + 1 ELSE m.calls[i].at
         /\ GivesUp(m).pc = m.pc /\ GivesUp(m).slot = m.slot
         /\ GivesUp(m).visited = m.visited /\ GivesUp(m).taker = m.taker
         /\ GivesUp(m).given = m.given
<1> DEFINE n == Len(m.calls)
           g == GivesUp(m)
           c == [m EXCEPT !.calls = Callers(m)]
<1>1. /\ m \in Selections(ask) /\ m.calls # <<>> /\ n \in Nat /\ n \in 1..n
      /\ Asking(m) = 1..n - 1
  BY SearchesSoundly
<1>2. /\ Callers(m) \in Seq(Calls(ask)) /\ Len(Callers(m)) = n - 1
      /\ \A i \in 1..n - 1 : Callers(m)[i] = m.calls[i]
  BY <1>1, CallersAre
<1>3. /\ c \in Selections(ask) /\ c.calls = Callers(m) /\ c.pc = m.pc
      /\ c.slot = m.slot /\ c.visited = m.visited /\ c.taker = m.taker
      /\ c.given = m.given
  BY <1>1, <1>2 DEF Selections
<1>4. g = GoesOn(c)
  BY DEF GivesUp
<1> HIDE DEF g, c
<1>5. c.calls # <<>> /\ Len(c.calls) = n - 1 /\ n - 1 \in 1..n - 1
  <2>1. n - 1 \in 1..n - 1 /\ n - 1 > 0
    <3>1. n \in Nat /\ n >= 1 /\ n # 1
      BY <1>1
    <3> HIDE DEF n
    <3> QED
      BY <3>1
  <2>2. Len(c.calls) = n - 1
    BY <1>2, <1>3
  <2>3. c.calls # <<>> <=> Len(c.calls) > 0
    BY <1>3, SelectionTypes
  <2> QED
    BY <2>1, <2>2, <2>3
<1>6. Innermost(c) = m.calls[n - 1]
  BY <1>2, <1>3, <1>5 DEF Innermost
<1>7. m.calls[n - 1].at \in m.visited /\ m.visited \subseteq DOMAIN ask.candidates
  BY <1>1, <1>5 DEF Sound, Chained, Selections
<1>8. /\ g \in Selections(ask) /\ Len(g.calls) = n - 1
      /\ \A i \in 1..n - 1 :
           /\ g.calls[i].slot = m.calls[i].slot
           /\ g.calls[i].at = IF i = n - 1 THEN m.calls[i].at + 1
                                           ELSE m.calls[i].at
      /\ g.pc = m.pc /\ g.slot = m.slot /\ g.visited = m.visited
      /\ g.taker = m.taker /\ g.given = m.given
  <2>1. /\ c \in Selections(ask) /\ c.calls # <<>>
        /\ Innermost(c).at \in DOMAIN ask.candidates
    BY <1>3, <1>5, <1>6, <1>7
  <2>2. /\ g \in Selections(ask) /\ Len(g.calls) = Len(c.calls)
        /\ \A i \in 1..Len(c.calls) :
             /\ g.calls[i].slot = c.calls[i].slot
             /\ g.calls[i].at = IF i = Len(c.calls) THEN c.calls[i].at + 1
                                                   ELSE c.calls[i].at
        /\ g.pc = c.pc /\ g.slot = c.slot /\ g.visited = c.visited
        /\ g.taker = c.taker /\ g.given = c.given
    BY <1>4, <2>1, GoesOnIs
  <2> QED
    BY <1>2, <1>3, <1>5, <2>2
<1> QED
  BY <1>5, <1>7, <1>8, SelectionTypes DEF g

(* A call that saw all candidates gives up.                                *)
LEMMA GivesUpSoundly ==
  ASSUME NEW R, NEW ask \in Asks(R), NEW m, Sound(ask, m), m.pc = "search",
         Innermost(m).at > Len(ask.candidates)
  PROVE  Sound(ask, GivesUp(m))
<1> DEFINE n == Len(m.calls)
           g == GivesUp(m)
<1>1. /\ m \in Selections(ask) /\ m.calls # <<>> /\ n \in Nat /\ n \in 1..n
      /\ Asking(m) = 1..n - 1
  BY SearchesSoundly
(* What the innermost call could have asked for it has visited.            *)
<1>2. \A s \in Reached(m), k \in DOMAIN ask.candidates :
        Plays(ask, k, s) =>
          \/ k \in m.visited
          \/ \E i \in 1..n - 1 : m.calls[i].slot = s /\ k >= m.calls[i].at
  <2> SUFFICES ASSUME NEW s \in Reached(m), NEW k \in DOMAIN ask.candidates,
                      Plays(ask, k, s), k \notin m.visited
               PROVE  \E i \in 1..n - 1 : m.calls[i].slot = s /\ k >= m.calls[i].at
    OBVIOUS
  <2>1. PICK i \in 1..n : m.calls[i].slot = s /\ k >= m.calls[i].at
    BY DEF Sound, Explored
  <2>2. i # n
    BY <1>1, <2>1, AskTypes, SelectionTypes DEF Innermost
  <2> QED
    BY <1>1, <2>1, <2>2
<1>3. CASE n = 1
  <2>1. g = [m EXCEPT !.pc = "failed", !.calls = <<>>]
    BY <1>3 DEF GivesUp
  <2> HIDE DEF g
  <2>2. /\ g \in Selections(ask) /\ g.pc = "failed" /\ g.calls = <<>>
        /\ Len(g.calls) = 0 /\ g.slot = m.slot /\ g.visited = m.visited
        /\ g.taker = m.taker /\ g.given = m.given
    BY <1>1, <2>1, EmptySeq DEF Selections
  <2>3. Reached(g) = Reached(m) /\ Asking(g) = {}
    BY <2>2 DEF Reached, Asking
  <2>4. Explored(ask, g)
    BY <1>2, <1>3, <2>2, <2>3 DEF Explored, Sound
  <2>5. Staged(g) /\ Matched(ask, g) /\ Chained(ask, g)
    BY <1>1, <2>2, <2>3 DEF Sound, Staged, Matched, Chained
  <2> QED
    BY <2>2, <2>4, <2>5 DEF Sound, g
<1>4. CASE n # 1
  <2>1. /\ n - 1 \in 1..n - 1 /\ m.calls[n - 1].at \in m.visited
        /\ g \in Selections(ask) /\ g.calls # <<>> /\ Len(g.calls) = n - 1
        /\ \A i \in 1..n - 1 :
             /\ g.calls[i].slot = m.calls[i].slot
             /\ g.calls[i].at = IF i = n - 1 THEN m.calls[i].at + 1
                                             ELSE m.calls[i].at
        /\ g.pc = m.pc /\ g.slot = m.slot /\ g.visited = m.visited
        /\ g.taker = m.taker /\ g.given = m.given
    BY <1>4, GivesUpIs
  <2> HIDE DEF g
  <2>2. /\ g.pc = m.pc /\ g.slot = m.slot /\ g.visited = m.visited
        /\ g.taker = m.taker /\ g.given = m.given
    BY <2>1
  <2>3. Staged(g)
    <3>1. g.calls # <<>>
      BY <2>1
    <3> QED
      BY <1>1, <2>2, <3>1 DEF Sound, Staged
  <2>4. Matched(ask, g)
    BY <2>2 DEF Sound, Matched
  <2>5. Chained(ask, g)
    <3>1. Asking(g) = 1..n - 2
      BY <1>1, <2>1, <2>2 DEF Asking
    <3>2. g.calls[1].slot = m.slot
      BY <1>1, <2>1 DEF Sound, Chained
    <3>3. \A i \in 1..n - 1 : i \in 1..n /\ g.calls[i].slot = m.calls[i].slot
      BY <1>1, <2>1
    <3>4. \A i \in 1..n - 2 :
            /\ i \in 1..n - 1 /\ i + 1 \in 1..n - 1 /\ i # n - 1
            /\ g.calls[i].at = m.calls[i].at
      <4> TAKE i \in 1..n - 2
      <4>1. i \in 1..n - 1 /\ i + 1 \in 1..n - 1 /\ i # n - 1
        BY <1>1
      <4> QED
        BY <2>1, <4>1
    <3>5. \A i, j \in 1..n - 1 : g.calls[i].slot = g.calls[j].slot => i = j
      BY <3>3 DEF Sound, Chained
    <3>6. \A i \in 1..n - 2 : g.taker[g.calls[i].at] = g.calls[i + 1].slot
      BY <2>2, <3>3, <3>4 DEF Sound, Chained
    <3>7. \A i \in Asking(g) :
            /\ g.calls[i].at \in g.visited
            /\ Plays(ask, g.calls[i].at, g.calls[i].slot)
            /\ \A j \in Asking(g) : g.calls[i].at = g.calls[j].at => i = j
      <4>1. \A i \in 1..n - 2 :
              /\ m.calls[i].at \in m.visited
              /\ Plays(ask, m.calls[i].at, m.calls[i].slot)
              /\ \A j \in 1..n - 2 : m.calls[i].at = m.calls[j].at => i = j
        BY <1>1, <3>4 DEF Sound, Chained
      <4> QED
        BY <2>2, <3>1, <3>3, <3>4, <4>1
    <3>8. (n - 1) - 1 = n - 2
      BY <1>1
    <3> QED
      BY <2>1, <3>2, <3>5, <3>6, <3>7, <3>8 DEF Chained
  <2>6. Explored(ask, g)
    <3>1. Reached(g) = Reached(m)
      BY <2>2 DEF Reached
    <3> SUFFICES ASSUME NEW s \in Reached(m), NEW k \in DOMAIN ask.candidates,
                        Plays(ask, k, s), k \notin m.visited
                 PROVE  \E i \in 1..n - 1 : g.calls[i].slot = s /\ k >= g.calls[i].at
      BY <2>1, <2>2, <3>1 DEF Explored, Sound
    <3>2. PICK i \in 1..n - 1 : m.calls[i].slot = s /\ k >= m.calls[i].at
      BY <1>2
    <3>3. i = n - 1 => k # m.calls[i].at
      BY <2>1, <3>2
    <3>4. k \in Nat /\ m.calls[i].at \in Nat
      BY <1>1, <3>2, SelectionTypes, AskTypes
    <3>5. k >= g.calls[i].at
      <4>1. g.calls[i].at = IF i = n - 1 THEN m.calls[i].at + 1 ELSE m.calls[i].at
        BY <2>1
      <4> QED
        BY <3>2, <3>3, <3>4, <4>1
    <3> QED
      BY <2>1, <3>2, <3>5
  <2> QED
    BY <2>1, <2>3, <2>4, <2>5, <2>6 DEF Sound, g
<1> QED
  BY <1>3, <1>4

(* A free candidate is taken.                                              *)
LEMMA TakesSoundly ==
  ASSUME NEW R, NEW ask \in Asks(R), NEW m, Sound(ask, m), m.pc = "search",
         NEW k \in DOMAIN ask.candidates \ m.visited, k = Innermost(m).at,
         Plays(ask, k, Innermost(m).slot), m.taker[k] = 0
  PROVE  Sound(ask, Takes(m, k))
<1> DEFINE n == Len(m.calls)
           g == Takes(m, k)
<1>1. /\ m \in Selections(ask) /\ m.calls # <<>> /\ n \in Nat /\ n \in 1..n
      /\ Asking(m) = 1..n - 1
  BY SearchesSoundly
<1>2. /\ g \in Selections(ask) /\ g.pc = "assign" /\ g.calls = m.calls
      /\ g.slot = m.slot /\ g.visited = m.visited \cup {k}
      /\ g.taker = m.taker /\ g.given = m.given
  BY <1>1 DEF Takes, Selections
<1> HIDE DEF g
<1>3. Innermost(g) = m.calls[n] /\ m.calls[n].at = k /\ Asking(g) = 1..n
  BY <1>1, <1>2 DEF Innermost, Asking
<1>4. Staged(g) /\ Explored(ask, g)
  BY <1>1, <1>2 DEF Sound, Staged, Explored
<1>5. Matched(ask, g)
  <2>1. \A s \in DOMAIN ask.slots : m.given[s] # k
    <3>1. k # 0
      BY AskTypes
    <3> QED
      BY <1>1, <3>1, AskTypes DEF Sound, Matched
  <2> QED
    BY <1>2, <1>3, <2>1 DEF Sound, Matched
<1>6. Chained(ask, g)
  <2>1. \A i \in 1..n - 1 : m.calls[i].at # k
    BY <1>1 DEF Sound, Chained
  <2>2. \A i \in 1..n : /\ m.calls[i].at \in g.visited
                        /\ Plays(ask, m.calls[i].at, m.calls[i].slot)
    <3>1. \A i \in 1..n - 1 : m.calls[i].at \in m.visited
                              /\ Plays(ask, m.calls[i].at, m.calls[i].slot)
      BY <1>1 DEF Sound, Chained
    <3> QED
      BY <1>1, <1>2, <1>3, <3>1 DEF Innermost
  <2>3. \A i, j \in 1..n : m.calls[i].at = m.calls[j].at => i = j
    <3>1. \A i, j \in 1..n - 1 : m.calls[i].at = m.calls[j].at => i = j
      BY <1>1 DEF Sound, Chained
    <3> QED
      BY <1>1, <1>3, <2>1, <3>1
  <2> QED
    BY <1>1, <1>2, <1>3, <2>2, <2>3 DEF Sound, Chained
<1> QED
  BY <1>2, <1>4, <1>5, <1>6 DEF Sound, g

(* The holder of a candidate that was not visited is in no open call.      *)
LEMMA HolderIsNotCalled ==
  ASSUME NEW R, NEW ask \in Asks(R), NEW m, Sound(ask, m), m.pc = "search",
         NEW k \in DOMAIN ask.candidates \ m.visited, m.taker[k] # 0
  PROVE  /\ m.taker[k] \in DOMAIN ask.slots /\ m.given[m.taker[k]] = k
         /\ \A i \in 1..Len(m.calls) : m.calls[i].slot # m.taker[k]
<1> DEFINE n == Len(m.calls)
<1>1. /\ m \in Selections(ask) /\ m.calls # <<>> /\ n \in Nat /\ n \in 1..n
      /\ Asking(m) = 1..n - 1
  BY SearchesSoundly
<1>2. m.taker[k] \in DOMAIN ask.slots /\ m.given[m.taker[k]] = k
  <2>1. m.taker[k] \in 0..Len(ask.slots)
    BY <1>1 DEF Selections
  <2> QED
    BY <2>1, AskTypes DEF Sound, Matched
<1>3. k # 0 /\ m.slot \in Nat
  BY <1>1, AskTypes DEF Selections
<1> SUFFICES ASSUME NEW i \in 1..n, m.calls[i].slot = m.taker[k] PROVE FALSE
  BY <1>2
<1>4. CASE i = 1
  <2>1. m.taker[k] = m.slot
    BY <1>1, <1>4 DEF Sound, Chained
  <2> QED
    BY <1>2, <1>3, <2>1 DEF Sound, Matched
<1>5. CASE i # 1
  <2>1. i - 1 \in 1..n - 1 /\ (i - 1) + 1 = i
    BY <1>1, <1>5
  <2>2. m.taker[m.calls[i - 1].at] = m.calls[(i - 1) + 1].slot
    BY <2>1 DEF Sound, Chained
  <2>3. m.calls[i - 1].at \in m.visited
    BY <1>1, <2>1 DEF Sound, Chained
  <2>4. m.visited \subseteq DOMAIN ask.candidates
    BY <1>1 DEF Selections
  <2>5. m.given[m.taker[m.calls[i - 1].at]] = m.calls[i - 1].at
    BY <2>1, <2>2, <2>3, <2>4 DEF Sound, Matched
  <2> QED
    BY <1>2, <2>1, <2>2, <2>3, <2>5
<1> QED
  BY <1>4, <1>5

(* The holder of a candidate is asked to take another.                     *)
LEMMA DisplacesSoundly ==
  ASSUME NEW R, NEW ask \in Asks(R), NEW m, Sound(ask, m), m.pc = "search",
         NEW k \in DOMAIN ask.candidates \ m.visited, k = Innermost(m).at,
         Plays(ask, k, Innermost(m).slot), m.taker[k] # 0
  PROVE  Sound(ask, Displaces(m, k))
<1> DEFINE n == Len(m.calls)
           c == [slot |-> m.taker[k], at |-> 1]
           g == Displaces(m, k)
<1>1. /\ m \in Selections(ask) /\ m.calls # <<>> /\ n \in Nat /\ n \in 1..n
      /\ Asking(m) = 1..n - 1 /\ m.calls \in Seq(Calls(ask))
  BY SearchesSoundly, SelectionTypes
<1>2. c \in Calls(ask) /\ c.slot = m.taker[k] /\ c.at = 1
  BY HolderIsNotCalled, AskTypes DEF Calls
<1>3. g = [m EXCEPT !.visited = m.visited \cup {k}, !.calls = Append(m.calls, c)]
  BY <1>1 DEF Displaces, Selections
<1> HIDE DEF c, g
<1>4. /\ Append(m.calls, c) \in Seq(Calls(ask)) /\ Len(Append(m.calls, c)) = n + 1
      /\ \A i \in 1..n : Append(m.calls, c)[i] = m.calls[i]
      /\ Append(m.calls, c)[n + 1] = c
  BY <1>1, <1>2, AppendProperties
<1>5. /\ g \in Selections(ask) /\ g.calls = Append(m.calls, c)
      /\ g.visited = m.visited \cup {k} /\ g.pc = m.pc /\ g.slot = m.slot
      /\ g.taker = m.taker /\ g.given = m.given
  BY <1>1, <1>3, <1>4 DEF Selections
<1>6. /\ Len(g.calls) = n + 1 /\ g.calls[n + 1] = c
      /\ \A i \in 1..n : g.calls[i] = m.calls[i]
  BY <1>4, <1>5
<1>7. m.calls[n].at = k /\ Plays(ask, k, m.calls[n].slot)
  BY DEF Innermost
<1>8. Asking(g) = 1..n
  <2>1. \A i : i \in 1..n + 1 /\ i < n + 1 <=> i \in 1..n
    BY <1>1
  <2> QED
    BY <1>5, <1>6, <2>1 DEF Asking
<1>9. Staged(g)
  <2>1. g.calls # <<>>
    BY <1>1, <1>5, <1>6, SelectionTypes
  <2> QED
    BY <1>1, <1>5, <2>1 DEF Sound, Staged
<1>10. Matched(ask, g)
  BY <1>5 DEF Sound, Matched
<1>11. Chained(ask, g)
  <2>1. g.calls[1].slot = m.slot
    BY <1>1, <1>6 DEF Sound, Chained
  <2>2. \A i, j \in 1..n + 1 : g.calls[i].slot = g.calls[j].slot => i = j
    <3>1. \A i \in 1..n : g.calls[i].slot # c.slot
      BY <1>2, <1>6, HolderIsNotCalled
    <3>2. \A i, j \in 1..n : g.calls[i].slot = g.calls[j].slot => i = j
      BY <1>6 DEF Sound, Chained
    <3>3. \A i \in 1..n + 1 : i \in 1..n \/ i = n + 1
      BY <1>1
    <3> QED
      BY <1>6, <3>1, <3>2, <3>3
  <2>3. \A i \in 1..n : g.taker[g.calls[i].at] = g.calls[i + 1].slot
    <3> TAKE i \in 1..n
    <3>1. CASE i = n
      BY <1>1, <1>2, <1>5, <1>6, <1>7, <3>1
    <3>2. CASE i # n
      <4>1. i \in 1..n - 1 /\ i + 1 \in 1..n
        BY <1>1, <3>2
      <4> QED
        BY <1>5, <1>6, <4>1 DEF Sound, Chained
    <3> QED
      BY <3>1, <3>2
  <2>4. \A i \in 1..n : g.calls[i].at \in g.visited
                        /\ Plays(ask, g.calls[i].at, g.calls[i].slot)
    <3> TAKE i \in 1..n
    <3>1. CASE i = n
      BY <1>1, <1>5, <1>6, <1>7, <3>1
    <3>2. CASE i # n
      <4>1. i \in 1..n - 1
        BY <1>1, <3>2
      <4> QED
        BY <1>1, <1>5, <1>6, <4>1 DEF Sound, Chained
    <3> QED
      BY <3>1, <3>2
  <2>5. \A i, j \in 1..n : g.calls[i].at = g.calls[j].at => i = j
    <3>1. \A i \in 1..n : i = n \/ i \in 1..n - 1
      BY <1>1
    <3>2. \A i \in 1..n - 1 : m.calls[i].at # k
      BY <1>1 DEF Sound, Chained
    <3>3. \A i, j \in 1..n - 1 : m.calls[i].at = m.calls[j].at => i = j
      BY <1>1 DEF Sound, Chained
    <3>4. \A i \in 1..n : g.calls[i].at = m.calls[i].at
      BY <1>6
    <3>5. \A i, j \in 1..n : m.calls[i].at = m.calls[j].at => i = j
      BY <1>7, <3>1, <3>2, <3>3
    <3> QED
      BY <3>4, <3>5
  <2>6. (n + 1) - 1 = n
    BY <1>1
  <2> QED
    BY <1>5, <1>6, <1>8, <2>1, <2>2, <2>3, <2>4, <2>5, <2>6 DEF Chained
<1>12. Explored(ask, g)
  <2>1. \A j \in g.visited : g.taker[j] # 0
    BY <1>1, <1>5 DEF Sound, Explored
  <2> SUFFICES ASSUME NEW s \in Reached(g), NEW j \in DOMAIN ask.candidates,
                      Plays(ask, j, s), j \notin g.visited
               PROVE  \E i \in 1..n + 1 : g.calls[i].slot = s /\ j >= g.calls[i].at
    BY <1>6, <2>1 DEF Explored
  <2>2. n + 1 \in 1..n + 1 /\ j >= 1 /\ \A i \in 1..n : i \in 1..n + 1
    BY <1>1, AskTypes
  <2>3. s \in Reached(m) \/ s = m.taker[k]
    BY <1>5 DEF Reached
  <2>4. CASE s = m.taker[k]
    BY <1>2, <1>6, <2>2, <2>4
  <2>5. CASE s \in Reached(m)
    <3>1. PICK i \in 1..n : m.calls[i].slot = s /\ j >= m.calls[i].at
      BY <1>5, <2>5 DEF Sound, Explored
    <3> QED
      BY <1>6, <2>2, <3>1
  <2> QED
    BY <2>3, <2>4, <2>5
<1> QED
  BY <1>5, <1>9, <1>10, <1>11, <1>12 DEF Sound, g

(* The search for a slot begins with what the slots behind it were given.  *)
LEMMA EntersSoundly ==
  ASSUME NEW R, NEW ask \in Asks(R), NEW m \in Selections(ask), m.calls = <<>>,
         NEW s \in 0..Len(ask.slots),
         \A t \in DOMAIN ask.slots :
           /\ m.given[t] # 0 <=> t > s
           /\ m.given[t] # 0 => Plays(ask, m.given[t], t) /\ m.taker[m.given[t]] = t,
         \A k \in DOMAIN ask.candidates : m.taker[k] # 0 => m.given[m.taker[k]] = k
  PROVE  Sound(ask, Enter(m, s))
<1> DEFINE g == Enter(m, s)
<1>1. CASE s = 0
  <2>1. g = [m EXCEPT !.pc = "found", !.slot = 0]
    BY <1>1 DEF Enter
  <2> HIDE DEF g
  <2>2. /\ g \in Selections(ask) /\ g.pc = "found" /\ g.slot = 0 /\ g.calls = <<>>
        /\ g.taker = m.taker /\ g.given = m.given
    <3>1. 0 \in 0..Len(ask.slots)
      BY AskTypes
    <3> QED
      BY <2>1, <3>1 DEF Selections
  <2>3. Len(g.calls) = 0 /\ Asking(g) = {}
    BY <2>2 DEF Asking
  <2>4. Staged(g) /\ Explored(ask, g) /\ Chained(ask, g)
    BY <2>2, <2>3 DEF Staged, Explored, Chained
  <2>5. Matched(ask, g)
    BY <1>1, <2>2 DEF Matched
  <2> QED
    BY <2>2, <2>4, <2>5 DEF Sound, g
<1>2. CASE s # 0
  <2> DEFINE c == [slot |-> s, at |-> 1]
  <2>1. g = [m EXCEPT !.pc = "search", !.slot = s, !.visited = {}, !.calls = <<c>>]
    BY <1>2 DEF Enter
  <2>2. c \in Calls(ask) /\ c.slot = s /\ c.at = 1
    BY <1>2, AskTypes DEF Calls
  <2> HIDE DEF g, c
  <2>3. <<c>> \in Seq(Calls(ask)) /\ Len(<<c>>) = 1 /\ <<c>>[1] = c /\ <<c>> # <<>>
    BY <2>2
  <2>4. /\ g \in Selections(ask) /\ g.pc = "search" /\ g.slot = s /\ g.calls = <<c>>
        /\ g.visited = {} /\ g.taker = m.taker /\ g.given = m.given
    BY <2>1, <2>3 DEF Selections
  <2>5. Len(g.calls) = 1 /\ g.calls[1] = c /\ Asking(g) = {} /\ Reached(g) = {s}
    BY <2>3, <2>4 DEF Asking, Reached
  <2>6. Staged(g) /\ Chained(ask, g)
    BY <1>2, <2>2, <2>3, <2>4, <2>5 DEF Staged, Chained
  <2>7. Explored(ask, g)
    BY <2>2, <2>4, <2>5, AskTypes DEF Explored
  <2>8. Matched(ask, g)
    BY <2>4 DEF Matched
  <2> QED
    BY <2>4, <2>6, <2>7, <2>8 DEF Sound, g
<1> QED
  BY <1>1, <1>2

(* What the call that has its candidate writes down.                       *)
LEMMA AssignedIs ==
  ASSUME NEW R, NEW ask \in Asks(R), NEW m, Sound(ask, m), m.pc = "assign"
  PROVE  LET n == Len(m.calls)
             k == Innermost(m).at
             s == Innermost(m).slot
             c == Assigned(m, k, s)
         IN
         /\ m \in Selections(ask) /\ m.calls # <<>> /\ n \in Nat /\ n \in 1..n
         /\ m.slot \in Nat /\ Asking(m) = 1..n
         /\ k = m.calls[n].at /\ s = m.calls[n].slot
         /\ k \in m.visited /\ k \in DOMAIN ask.candidates /\ s \in DOMAIN ask.slots
         /\ k \in 0..Len(ask.candidates) /\ s \in 0..Len(ask.slots) /\ k # 0
         /\ Len(c.calls) = n - 1 /\ \A i \in 1..n - 1 : c.calls[i] = m.calls[i]
         /\ c \in Selections(ask) /\ c.pc = m.pc /\ c.slot = m.slot
         /\ c.visited = m.visited
         /\ \A j \in DOMAIN ask.candidates : c.taker[j] = IF j = k THEN s ELSE m.taker[j]
         /\ \A t \in DOMAIN ask.slots : c.given[t] = IF t = s THEN k ELSE m.given[t]
<1> DEFINE n == Len(m.calls)
           k == Innermost(m).at
           s == Innermost(m).slot
           c == Assigned(m, k, s)
<1>1. /\ m \in Selections(ask) /\ m.calls # <<>> /\ n \in Nat /\ n \in 1..n
      /\ m.slot \in Nat
  <2>1. m \in Selections(ask) /\ m.calls # <<>>
    BY DEF Sound, Staged
  <2>2. n \in Nat /\ n \in 1..n
    BY <2>1, SelectionTypes
  <2> QED
    BY <2>1, <2>2, AskTypes DEF Selections
<1>2. Asking(m) = 1..n
  BY DEF Asking
<1>3. /\ k = m.calls[n].at /\ s = m.calls[n].slot
      /\ k \in m.visited /\ k \in DOMAIN ask.candidates /\ s \in DOMAIN ask.slots
      /\ k \in 0..Len(ask.candidates) /\ s \in 0..Len(ask.slots) /\ k # 0
  <2>1. k = m.calls[n].at /\ s = m.calls[n].slot
    BY DEF Innermost
  <2>2. k \in m.visited
    BY <1>1, <1>2, <2>1 DEF Sound, Chained
  <2>3. k \in DOMAIN ask.candidates
    BY <1>1, <2>2 DEF Selections
  <2>4. s \in DOMAIN ask.slots
    BY <1>1, <2>1, SelectionTypes, AskTypes
  <2> QED
    BY <2>1, <2>2, <2>3, <2>4, AskTypes
<1>4. /\ Callers(m) \in Seq(Calls(ask)) /\ Len(Callers(m)) = n - 1
      /\ \A i \in 1..n - 1 : Callers(m)[i] = m.calls[i]
  BY <1>1, CallersAre
<1> HIDE DEF k, s
<1>5. c = [m EXCEPT !.taker = [m.taker EXCEPT ![k] = s],
                    !.given = [m.given EXCEPT ![s] = k], !.calls = Callers(m)]
  BY <1>1 DEF Assigned, Selections
<1> HIDE DEF c
<1>6. /\ c \in Selections(ask) /\ c.pc = m.pc /\ c.slot = m.slot
      /\ c.visited = m.visited /\ c.calls = Callers(m)
      /\ \A j \in DOMAIN ask.candidates : c.taker[j] = IF j = k THEN s ELSE m.taker[j]
      /\ \A t \in DOMAIN ask.slots : c.given[t] = IF t = s THEN k ELSE m.given[t]
  BY <1>1, <1>3, <1>4, <1>5 DEF Selections
<1> QED
  BY <1>1, <1>2, <1>3, <1>4, <1>6 DEF k, s, c

(* An assignment keeps the matching; the last one of a slot enters the next.*)
LEMMA AssignsSoundly ==
  ASSUME NEW R, NEW ask \in Asks(R), NEW m, Sound(ask, m), m.pc = "assign"
  PROVE  Sound(ask, Assigns(m, Innermost(m).at, Innermost(m).slot))
<1> DEFINE n == Len(m.calls)
           k == Innermost(m).at
           s == Innermost(m).slot
           c == Assigned(m, k, s)
<1>1. /\ m \in Selections(ask) /\ m.calls # <<>> /\ n \in Nat /\ n \in 1..n
      /\ m.slot \in Nat
  BY AssignedIs
<1>2. Asking(m) = 1..n
  BY AssignedIs
<1>3. /\ k = m.calls[n].at /\ s = m.calls[n].slot
      /\ k \in m.visited /\ k \in DOMAIN ask.candidates /\ s \in DOMAIN ask.slots
      /\ k \in 0..Len(ask.candidates) /\ s \in 0..Len(ask.slots) /\ k # 0
  BY AssignedIs
<1>4. Plays(ask, k, s)
  BY <1>1, <1>2, <1>3 DEF Sound, Chained
<1>5. Len(c.calls) = n - 1 /\ \A i \in 1..n - 1 : c.calls[i] = m.calls[i]
  BY AssignedIs
<1>6. c \in Selections(ask) /\ (c.calls # <<>> <=> Len(c.calls) > 0)
  BY AssignedIs, SelectionTypes
<1>7. /\ c \in Selections(ask) /\ c.pc = m.pc /\ c.slot = m.slot
      /\ c.visited = m.visited
      /\ \A j \in DOMAIN ask.candidates : c.taker[j] = IF j = k THEN s ELSE m.taker[j]
      /\ \A t \in DOMAIN ask.slots : c.given[t] = IF t = s THEN k ELSE m.given[t]
  BY AssignedIs
<1> HIDE DEF c, k, s
(* Whoever has a candidate after the assignment is its taker.              *)
<1>8. \A t \in DOMAIN ask.slots :
        c.given[t] # 0 => Plays(ask, c.given[t], t) /\ c.taker[c.given[t]] = t
  <2> SUFFICES ASSUME NEW t \in DOMAIN ask.slots, c.given[t] # 0
               PROVE  Plays(ask, c.given[t], t) /\ c.taker[c.given[t]] = t
    OBVIOUS
  <2>1. CASE t = s
    BY <1>3, <1>4, <1>7, <2>1
  <2>2. CASE t # s
    <3>1. c.given[t] = m.given[t] /\ m.given[t] # k
      BY <1>7, <2>2 DEF Sound, Matched, k
    <3>2. m.given[t] \in DOMAIN ask.candidates
      BY <1>1, <3>1, AskTypes DEF Selections
    <3> QED
      BY <1>7, <3>1, <3>2 DEF Sound, Matched
  <2> QED
    BY <2>1, <2>2
<1>9. \A j \in DOMAIN ask.candidates \ {k} :
        m.taker[j] # 0 => m.given[m.taker[j]] = j /\ m.taker[j] \in DOMAIN ask.slots
  <2>1. \A j \in DOMAIN ask.candidates : m.taker[j] \in 0..Len(ask.slots)
    BY <1>1 DEF Selections
  <2> QED
    BY <2>1, AskTypes DEF Sound, Matched, k
<1>10. CASE n = 1
  <2>1. s = m.slot
    BY <1>1, <1>3, <1>10 DEF Sound, Chained
  <2>2. s - 1 \in 0..Len(ask.slots) /\ c.calls = <<>>
    <3>1. s - 1 \in 0..Len(ask.slots)
      BY <1>3, AskTypes
    <3>2. c.calls = <<>>
      BY <1>5, <1>6, <1>10
    <3> QED
      BY <3>1, <3>2
  <2>3. \A t \in DOMAIN ask.slots : c.given[t] # 0 <=> t > s - 1
    <3> TAKE t \in DOMAIN ask.slots
    <3>1. t \in Nat /\ s \in Nat
      BY <1>3, AskTypes
    <3>2. m.given[t] # 0 <=> t > s
      BY <2>1 DEF Sound, Matched
    <3>3. c.given[t] = IF t = s THEN k ELSE m.given[t]
      BY <1>7
    <3>4. t > s - 1 <=> t = s \/ t > s
      BY <3>1
    <3> QED
      BY <1>3, <3>2, <3>3, <3>4
  <2>4. \A j \in DOMAIN ask.candidates : c.taker[j] # 0 => c.given[c.taker[j]] = j
    <3> SUFFICES ASSUME NEW j \in DOMAIN ask.candidates, c.taker[j] # 0
                 PROVE  c.given[c.taker[j]] = j
      OBVIOUS
    <3>1. CASE j = k
      BY <1>3, <1>7, <3>1
    <3>2. CASE j # k
      <4>1. c.taker[j] = m.taker[j] /\ m.given[m.taker[j]] = j /\ j # 0
            /\ m.taker[j] \in DOMAIN ask.slots
        BY <1>7, <1>9, <3>2, AskTypes
      <4>2. m.given[s] = 0
        BY <1>1, <1>3, <2>1 DEF Sound, Matched
      <4> QED
        BY <1>7, <4>1, <4>2
    <3> QED
      BY <3>1, <3>2
  <2>5. Sound(ask, Enter(c, s - 1))
    BY <1>7, <1>8, <2>2, <2>3, <2>4, EntersSoundly
  <2> QED
    BY <1>10, <2>5 DEF Assigns, c, k, s
<1>11. CASE n # 1
  <2>1. /\ n - 1 \in 1..n - 1 /\ n - 1 \in 1..n /\ (n - 1) + 1 = n /\ n - 1 # n
        /\ n - 1 > 0
    <3>1. n \in Nat /\ n >= 1 /\ n # 1
      BY <1>1, <1>11
    <3> HIDE DEF n
    <3> QED
      BY <3>1
  <2> DEFINE k1 == m.calls[n - 1].at
  <2>2. /\ m.taker[k1] = s /\ k1 # k /\ k1 \in m.visited
        /\ k1 \in DOMAIN ask.candidates
    <3>1. m.taker[k1] = m.calls[(n - 1) + 1].slot
      BY <2>1 DEF Sound, Chained
    <3>2. k1 \in m.visited /\ k1 # m.calls[n].at
      BY <1>1, <1>2, <2>1 DEF Sound, Chained
    <3> QED
      BY <1>1, <1>3, <2>1, <3>1, <3>2 DEF Selections
  <2>3. /\ Len(c.calls) = n - 1 /\ c.calls # <<>>
        /\ \A i \in 1..n - 1 : c.calls[i] = m.calls[i]
    BY <1>5, <1>6, <2>1
  <2>4. Innermost(c).at = k1 /\ c.pc = "assign" /\ Asking(c) = 1..n - 1
    BY <1>7, <2>1, <2>3 DEF Innermost, Asking
  <2>5. m.given[s] = k1 /\ k1 # 0 /\ s > m.slot
    <3>1. k1 # 0 /\ s # 0
      BY <1>3, <2>2, AskTypes
    <3>2. m.given[s] = k1
      BY <1>9, <2>2, <3>1
    <3> QED
      BY <1>3, <3>1, <3>2 DEF Sound, Matched
  <2> HIDE DEF k1
  <2>6. Matched(ask, c)
    <3>1. \A t \in DOMAIN ask.slots : c.given[t] # 0 <=> t > c.slot
      BY <1>3, <1>7, <2>5 DEF Sound, Matched
    <3>2. \A t \in DOMAIN ask.slots : c.given[t] # k1
      <4> TAKE t \in DOMAIN ask.slots
      <4>1. CASE t = s
        BY <1>7, <2>2, <4>1
      <4>2. CASE t # s
        BY <1>7, <2>2, <2>5, <4>2 DEF Sound, Matched
      <4> QED
        BY <4>1, <4>2
    <3>3. \A j \in DOMAIN ask.candidates :
            c.taker[j] # 0 => c.given[c.taker[j]] = j \/ j = k1
      <4> SUFFICES ASSUME NEW j \in DOMAIN ask.candidates, c.taker[j] # 0
                   PROVE  c.given[c.taker[j]] = j \/ j = k1
        OBVIOUS
      <4>1. CASE j = k
        BY <1>3, <1>7, <4>1
      <4>2. CASE j # k
        <5>1. c.taker[j] = m.taker[j] /\ m.given[m.taker[j]] = j
              /\ m.taker[j] \in DOMAIN ask.slots
          BY <1>7, <1>9, <4>2
        <5> QED
          BY <1>7, <2>5, <5>1
      <4> QED
        BY <4>1, <4>2
    <3> QED
      BY <1>8, <2>4, <3>1, <3>2, <3>3 DEF Matched
  <2>7. Chained(ask, c)
    <3>1. c.calls[1].slot = m.slot
      BY <1>1, <2>1, <2>3 DEF Sound, Chained
    <3>2. \A i \in 1..n - 1 : i \in 1..n /\ i # n
      BY <1>1
    <3>3. \A i, j \in 1..n - 1 : c.calls[i].slot = c.calls[j].slot => i = j
      BY <2>3, <3>2 DEF Sound, Chained
    <3>4. \A i \in 1..n - 1 :
            /\ m.calls[i].at \in m.visited /\ m.calls[i].at # k
            /\ Plays(ask, m.calls[i].at, m.calls[i].slot)
            /\ \A j \in 1..n - 1 : m.calls[i].at = m.calls[j].at => i = j
      BY <1>1, <1>2, <1>3, <3>2 DEF Sound, Chained
    <3>5. \A i \in 1..n - 2 : c.taker[c.calls[i].at] = c.calls[i + 1].slot
      <4> TAKE i \in 1..n - 2
      <4>1. i \in 1..n - 1 /\ i + 1 \in 1..n - 1
        BY <1>1
      <4>2. m.calls[i].at \in DOMAIN ask.candidates /\ m.calls[i].at # k
        BY <1>1, <3>4, <4>1 DEF Selections
      <4>3. m.taker[m.calls[i].at] = m.calls[i + 1].slot
        BY <4>1 DEF Sound, Chained
      <4> QED
        BY <1>7, <2>3, <4>1, <4>2, <4>3
    <3>6. \A i \in 1..n - 1 :
            /\ c.calls[i].at \in c.visited
            /\ Plays(ask, c.calls[i].at, c.calls[i].slot)
            /\ \A j \in 1..n - 1 : c.calls[i].at = c.calls[j].at => i = j
      BY <1>7, <2>3, <3>4
    <3>7. (n - 1) - 1 = n - 2
      BY <1>1
    <3> QED
      BY <1>7, <2>3, <2>4, <3>1, <3>3, <3>5, <3>6, <3>7 DEF Chained
  <2>8. Staged(c) /\ Explored(ask, c)
    BY <1>1, <1>7, <2>3, <2>4 DEF Sound, Staged, Explored
  <2>9. Sound(ask, c)
    BY <1>7, <2>6, <2>7, <2>8 DEF Sound
  <2> QED
    BY <1>11, <2>9 DEF Assigns, c, k, s
<1> QED
  BY <1>10, <1>11 DEF k, s

-----------------------------------------------------------------------------
(* What an ended search has found out.                                     *)

(* What a step is, case by case.                                           *)
LEMMA StepIs ==
  ASSUME NEW R, NEW ask \in Asks(R), NEW m, Sound(ask, m)
  PROVE  LET k == Innermost(m).at
             s == Innermost(m).slot
         IN
         \/ m.pc \in {"found", "failed"} /\ Step(ask, m) = m
         \/ m.pc = "assign" /\ Step(ask, m) = Assigns(m, k, s)
         \/ m.pc = "search" /\ k > Len(ask.candidates) /\ Step(ask, m) = GivesUp(m)
         \/ /\ m.pc = "search" /\ k \in DOMAIN ask.candidates
            /\ k \in m.visited \/ ~Plays(ask, k, s)
            /\ Step(ask, m) = GoesOn(m)
         \/ /\ m.pc = "search" /\ k \in DOMAIN ask.candidates \ m.visited
            /\ Plays(ask, k, s) /\ m.taker[k] = 0
            /\ Step(ask, m) = Takes(m, k)
         \/ /\ m.pc = "search" /\ k \in DOMAIN ask.candidates \ m.visited
            /\ Plays(ask, k, s) /\ m.taker[k] # 0
            /\ Step(ask, m) = Displaces(m, k)
<1> DEFINE k == Innermost(m).at
           s == Innermost(m).slot
<1>1. CASE m.pc \in {"found", "failed"}
  BY <1>1 DEF Step
<1>2. CASE m.pc = "assign"
  BY <1>2 DEF Step
<1>3. CASE m.pc = "search"
  <2>1. k \in 1..Len(ask.candidates) + 1
    BY <1>3, SearchesSoundly
  <2>2. k > Len(ask.candidates) <=> k \notin DOMAIN ask.candidates
    BY <2>1, AskTypes
  <2> HIDE DEF k, s
  <2>3. Step(ask, m) =
          CASE m.pc \in {"found", "failed"} -> m
            [] m.pc = "assign" -> Assigns(m, k, s)
            [] m.pc = "search" /\ k > Len(ask.candidates) -> GivesUp(m)
            [] m.pc = "search" /\ k \in DOMAIN ask.candidates
                 /\ (k \in m.visited \/ ~Plays(ask, k, s)) -> GoesOn(m)
            [] m.pc = "search" /\ k \in DOMAIN ask.candidates \ m.visited
                 /\ Plays(ask, k, s) /\ m.taker[k] = 0 -> Takes(m, k)
            [] m.pc = "search" /\ k \in DOMAIN ask.candidates \ m.visited
                 /\ Plays(ask, k, s) /\ m.taker[k] # 0 -> Displaces(m, k)
    BY DEF Step, k, s
  <2> QED
    BY <1>3, <2>2, <2>3 DEF k, s
<1> QED
  BY <1>1, <1>2, <1>3 DEF Sound, Selections

(* Every step keeps the invariant.                                         *)
LEMMA StepSoundly ==
  ASSUME NEW R, NEW ask \in Asks(R), NEW m, Sound(ask, m)
  PROVE  Sound(ask, Step(ask, m))
BY StepIs, AssignsSoundly, GivesUpSoundly, GoesOnSoundly, TakesSoundly,
   DisplacesSoundly

(* And the first call begins with it.                                      *)
LEMMA FirstCallSoundly ==
  ASSUME NEW R, NEW ask \in Asks(R)
  PROVE  Sound(ask, FirstCall(ask))
<1> DEFINE m == [pc |-> "search", slot |-> 0, calls |-> <<>>, visited |-> {},
                 taker |-> [k \in DOMAIN ask.candidates |-> 0],
                 given |-> [s \in DOMAIN ask.slots |-> 0]]
<1>1. 0 \in 0..Len(ask.slots) /\ 0 \in 0..Len(ask.candidates)
      /\ Len(ask.slots) \in 0..Len(ask.slots)
  BY AskTypes
<1>2. <<>> \in Seq(Calls(ask))
  BY EmptySeq
<1>3. m \in Selections(ask)
  BY <1>1, <1>2 DEF Selections
<1>4. \A t \in DOMAIN ask.slots : ~(t > Len(ask.slots))
  BY AskTypes
<1> QED
  BY <1>1, <1>3, <1>4, EntersSoundly DEF FirstCall

(* What is found is an assignment.                                         *)
LEMMA FoundFits ==
  ASSUME NEW R, NEW ask \in Asks(R), NEW m, Sound(ask, m), m.pc = "found"
  PROVE  Fits(ask, m.given)
<1>1. m.slot = 0 /\ m \in Selections(ask)
  BY DEF Sound, Staged
<1>2. \A s \in DOMAIN ask.slots : m.given[s] # 0
  BY <1>1, AskTypes DEF Sound, Matched
<1>3. m.given \in [DOMAIN ask.slots -> DOMAIN ask.candidates]
  BY <1>1, <1>2, AskTypes DEF Selections
<1> QED
  BY <1>2, <1>3 DEF Sound, Matched, Fits

(* A failed search has reached one slot more than it has visited candidates*)
(* that play any of them.                                                  *)
LEMMA FailedIsImpossible ==
  ASSUME NEW R, NEW ask \in Asks(R), NEW m, Sound(ask, m), m.pc = "failed"
  PROVE  ~Possible(ask)
<1> DEFINE V == m.visited
           T == Reached(m) \ {m.slot}
<1>1. /\ m \in Selections(ask) /\ V \subseteq DOMAIN ask.candidates
      /\ m.calls = <<>> /\ Len(m.calls) = 0 /\ m.slot \in DOMAIN ask.slots
  <2>1. m \in Selections(ask) /\ m.calls = <<>> /\ m.slot # 0
    BY DEF Sound, Staged
  <2> QED
    BY <2>1, AskTypes DEF Selections
<1>2. \A s \in Reached(m), k \in DOMAIN ask.candidates :
        Plays(ask, k, s) => k \in V
  BY <1>1 DEF Sound, Explored
<1>3. \A k \in V : /\ m.taker[k] \in DOMAIN ask.slots
                   /\ m.given[m.taker[k]] = k /\ k # 0
  <2>1. \A k \in V : m.taker[k] # 0 /\ m.taker[k] \in 0..Len(ask.slots) /\ k # 0
    BY <1>1, AskTypes DEF Sound, Explored, Selections
  <2> QED
    BY <1>1, <2>1, AskTypes DEF Sound, Matched
<1>4. m.given[m.slot] = 0
  <2>1. ~(m.slot > m.slot)
    BY <1>1, AskTypes
  <2> QED
    BY <1>1, <2>1 DEF Sound, Matched
<1>5. m.slot \in Reached(m) /\ Reached(m) \subseteq DOMAIN ask.slots
      /\ T = {m.taker[k] : k \in V}
  BY <1>1, <1>3, <1>4 DEF Reached
<1>6. IsFiniteSet(V) /\ IsFiniteSet(Reached(m)) /\ Cardinality(V) \in Nat
  <2>1. IsFiniteSet(DOMAIN ask.slots) /\ IsFiniteSet(DOMAIN ask.candidates)
    <3>1. Len(ask.slots) \in Int /\ Len(ask.candidates) \in Int /\ 1 \in Int
      BY AskTypes
    <3>2. IsFiniteSet(1..Len(ask.slots)) /\ IsFiniteSet(1..Len(ask.candidates))
      BY <3>1, FS_Interval
    <3> QED
      BY <3>2, AskTypes
  <2> QED
    BY <1>1, <1>5, <2>1, FS_Subset, FS_CardinalityType
<1>7. IsFiniteSet(T) /\ Cardinality(Reached(m)) = Cardinality(T) + 1
  <2>1. Cardinality(T) = Cardinality(Reached(m)) - 1 /\ IsFiniteSet(T)
    BY <1>5, <1>6, FS_RemoveElement
  <2> QED
    BY <1>6, <2>1, FS_CardinalityType
<1>8. Cardinality(V) <= Cardinality(T)
  <2> DEFINE f == [k \in V |-> m.taker[k]]
  <2>1. f \in [V -> T]
    BY <1>5
  <2>2. \A k, j \in V : f[k] = f[j] => k = j
    BY <1>3
  <2>3. f \in Injection(V, T)
    BY <2>1, <2>2 DEF Injection, IsInjective
  <2> QED
    BY <1>7, <2>3, FS_Injection
<1> SUFFICES ASSUME NEW g, Fits(ask, g) PROVE FALSE
  BY DEF Possible
<1> DEFINE f == [s \in Reached(m) |-> g[s]]
<1>9. f \in [Reached(m) -> V]
  BY <1>2, <1>5 DEF Fits
<1>10. \A s, t \in Reached(m) : f[s] = f[t] => s = t
  BY <1>5 DEF Fits
<1>11. f \in Injection(Reached(m), V)
  BY <1>9, <1>10 DEF Injection, IsInjective
<1>12. Cardinality(Reached(m)) <= Cardinality(V)
  BY <1>6, <1>11, FS_Injection
<1>13. Cardinality(T) \in Nat
  BY <1>7, FS_CardinalityType
<1> HIDE DEF V, T
<1> QED
  BY <1>6, <1>7, <1>8, <1>12, <1>13

-----------------------------------------------------------------------------
(* The search ends: every step leaves less to do (ToGo).                   *)

(* The candidates the open calls have still to look at, each of them once more*)
(* to give up.                                                             *)
Pending(ask, m) ==
  {p \in (1..Len(m.calls)) \X (1..Len(ask.candidates) + 1) :
     p[2] >= m.calls[p[1]].at}

(* What a slot still has to do: every candidate not yet visited may open a call.*)
Left(ask, m) ==
  (Len(ask.candidates) - Cardinality(m.visited)) * (Len(ask.candidates) + 2)
    + Cardinality(Pending(ask, m))

(* What the selection has to do at most.                                   *)
ToGo(ask, m) ==
  IF m.pc \in {"found", "failed"} THEN 0
  ELSE m.slot * StepsPerSlot(ask) + Left(ask, m)

(* The numbers up to n are n.                                              *)
LEMMA UpTo ==
  ASSUME NEW n \in Nat
  PROVE  IsFiniteSet(1..n) /\ Cardinality(1..n) = n
<1>1. /\ IsFiniteSet(1..n)
      /\ Cardinality(1..n) = IF 1 > n THEN 0 ELSE n - 1 + 1
  BY FS_Interval
<1> QED
  BY <1>1

(* All of this is finite.                                                  *)
LEMMA LeftTypes ==
  ASSUME NEW R, NEW ask \in Asks(R), NEW m \in Selections(ask)
  PROVE  /\ IsFiniteSet(Pending(ask, m)) /\ Cardinality(Pending(ask, m)) \in Nat
         /\ IsFiniteSet(m.visited) /\ Cardinality(m.visited) \in Nat
         /\ Cardinality(m.visited) <= Len(ask.candidates)
         /\ Left(ask, m) \in Nat /\ StepsPerSlot(ask) \in Nat /\ m.slot \in Nat
         /\ m.slot * StepsPerSlot(ask) \in Nat /\ ToGo(ask, m) \in Nat
         /\ (Len(ask.candidates) - Cardinality(m.visited)) * (Len(ask.candidates) + 2)
              \in Nat
<1>1. /\ Len(m.calls) \in Int /\ Len(ask.candidates) \in Nat
      /\ Len(ask.candidates) + 1 \in Int /\ 1 \in Int /\ Len(ask.candidates) \in Int
  BY AskTypes, SelectionTypes
<1>2. IsFiniteSet(Pending(ask, m)) /\ Cardinality(Pending(ask, m)) \in Nat
  <2>1. IsFiniteSet(1..Len(m.calls)) /\ IsFiniteSet(1..Len(ask.candidates) + 1)
    BY <1>1, FS_Interval
  <2>2. IsFiniteSet((1..Len(m.calls)) \X (1..Len(ask.candidates) + 1))
    BY <2>1, FS_Product
  <2>3. Pending(ask, m) \in SUBSET ((1..Len(m.calls)) \X (1..Len(ask.candidates) + 1))
    BY DEF Pending
  <2>4. IsFiniteSet(Pending(ask, m))
    BY <2>2, <2>3, FS_Subset
  <2> QED
    BY <2>4, FS_CardinalityType
<1>3. /\ IsFiniteSet(m.visited) /\ Cardinality(m.visited) \in Nat
      /\ Cardinality(m.visited) <= Len(ask.candidates)
  <2>1. /\ IsFiniteSet(1..Len(ask.candidates))
        /\ Cardinality(1..Len(ask.candidates)) =
             IF 1 > Len(ask.candidates) THEN 0 ELSE Len(ask.candidates) - 1 + 1
    BY <1>1, FS_Interval
  <2>2. m.visited \in SUBSET (1..Len(ask.candidates))
    BY AskTypes DEF Selections
  <2>3. /\ IsFiniteSet(m.visited)
        /\ Cardinality(m.visited) <= Cardinality(1..Len(ask.candidates))
    BY <2>1, <2>2, FS_Subset
  <2>4. Cardinality(m.visited) \in Nat
    BY <2>3, FS_CardinalityType
  <2> QED
    BY <1>1, <2>1, <2>3, <2>4
<1>4. m.slot \in Nat
  BY AskTypes DEF Selections
<1>5. StepsPerSlot(ask) \in Nat
  BY <1>1 DEF StepsPerSlot
<1>6. (Len(ask.candidates) - Cardinality(m.visited)) * (Len(ask.candidates) + 2) \in Nat
  BY <1>1, <1>3
<1>7. Left(ask, m) \in Nat
  BY <1>2, <1>6 DEF Left
<1>8. m.slot * StepsPerSlot(ask) \in Nat
  BY <1>4, <1>5
<1> QED
  BY <1>2, <1>3, <1>4, <1>5, <1>6, <1>7, <1>8 DEF ToGo

(* A step that does one of the things still pending.                       *)
LEMMA OnePendingLess ==
  ASSUME NEW R, NEW ask \in Asks(R), NEW m \in Selections(ask),
         NEW g \in Selections(ask), m.pc \notin {"found", "failed"},
         g.slot = m.slot, g.visited = m.visited,
         NEW p \in Pending(ask, m), Pending(ask, g) \subseteq Pending(ask, m) \ {p}
  PROVE  ToGo(ask, g) <= ToGo(ask, m) - 1
<1> DEFINE P == Pending(ask, m)
           Q == Pending(ask, g)
<1>1. IsFiniteSet(P) /\ Cardinality(P) \in Nat /\ Cardinality(Q) \in Nat
  BY LeftTypes
<1>2. IsFiniteSet(P \ {p}) /\ Cardinality(P \ {p}) = Cardinality(P) - 1
  BY <1>1, FS_RemoveElement
<1>3. Cardinality(Q) <= Cardinality(P) - 1
  <2>1. Q \in SUBSET (P \ {p})
    OBVIOUS
  <2> HIDE DEF P, Q
  <2> QED
    BY <1>2, <2>1, FS_Subset
<1>4. Left(ask, g) <= Left(ask, m) - 1
  <2> DEFINE x == (Len(ask.candidates) - Cardinality(m.visited)) * (Len(ask.candidates) + 2)
  <2>1. x \in Int
    BY LeftTypes, AskTypes
  <2>2. Left(ask, g) = x + Cardinality(Q) /\ Left(ask, m) = x + Cardinality(P)
    BY DEF Left
  <2> HIDE DEF x, P, Q
  <2> QED
    BY <1>1, <1>3, <2>1, <2>2
<1> QED
  <2> DEFINE x == m.slot * StepsPerSlot(ask)
  <2>1. x \in Nat /\ Left(ask, m) \in Nat /\ Left(ask, g) \in Nat
    BY LeftTypes
  <2>2. ToGo(ask, m) = x + Left(ask, m)
    BY DEF ToGo
  <2>3. ToGo(ask, g) = 0 \/ ToGo(ask, g) = x + Left(ask, g)
    BY DEF ToGo
  <2> HIDE DEF x
  <2> QED
    BY <1>4, <2>1, <2>2, <2>3

(* A call is open for at least one more step.                              *)
LEMMA LastIsPending ==
  ASSUME NEW R, NEW ask \in Asks(R), NEW m \in Selections(ask), m.calls # <<>>
  PROVE  /\ Len(m.calls) \in Nat /\ Len(m.calls) \in 1..Len(m.calls)
         /\ <<Len(m.calls), Innermost(m).at>> \in Pending(ask, m)
         /\ <<Len(m.calls), Len(ask.candidates) + 1>> \in Pending(ask, m)
<1>1. Len(m.calls) \in Nat /\ Len(m.calls) \in 1..Len(m.calls)
  BY SelectionTypes
<1>2. /\ m.calls[Len(m.calls)].at \in 1..Len(ask.candidates) + 1
      /\ Len(ask.candidates) \in Nat
  BY <1>1, SelectionTypes, AskTypes
<1> QED
  BY <1>1, <1>2 DEF Pending, Innermost

(* So there is a step left to do.                                          *)
LEMMA EndsBelow ==
  ASSUME NEW R, NEW ask \in Asks(R), NEW m \in Selections(ask), m.calls # <<>>,
         m.pc \notin {"found", "failed"}
  PROVE  0 <= ToGo(ask, m) - 1
<1> DEFINE x == m.slot * StepsPerSlot(ask)
           y == (Len(ask.candidates) - Cardinality(m.visited)) * (Len(ask.candidates) + 2)
<1>1. x \in Nat /\ y \in Nat
  BY LeftTypes, AskTypes
<1>2. Cardinality(Pending(ask, m)) \in Nat \ {0}
  BY LastIsPending, LeftTypes, FS_EmptySet
<1>3. ToGo(ask, m) = x + (y + Cardinality(Pending(ask, m)))
  BY DEF ToGo, Left
<1> HIDE DEF x, y
<1> QED
  BY <1>1, <1>2, <1>3

(* Each kind of step leaves less to do.                                    *)
LEMMA GoesOnEnds ==
  ASSUME NEW R, NEW ask \in Asks(R), NEW m, Sound(ask, m), m.pc = "search",
         Innermost(m).at \in DOMAIN ask.candidates
  PROVE  ToGo(ask, GoesOn(m)) <= ToGo(ask, m) - 1
<1> DEFINE n == Len(m.calls)
           g == GoesOn(m)
<1>1. m \in Selections(ask) /\ m.calls # <<>>
  BY SearchesSoundly
<1>2. <<n, Innermost(m).at>> \in Pending(ask, m)
  BY <1>1, LastIsPending
<1>3. /\ g \in Selections(ask) /\ g.slot = m.slot /\ g.visited = m.visited
      /\ Len(g.calls) = n
      /\ \A i \in 1..n :
           g.calls[i].at = IF i = n THEN m.calls[i].at + 1 ELSE m.calls[i].at
  BY <1>1, GoesOnIs
<1>4. Pending(ask, g) \subseteq Pending(ask, m) \ {<<n, Innermost(m).at>>}
  <2> HIDE DEF g
  <2> SUFFICES ASSUME NEW i \in 1..n, NEW k \in 1..Len(ask.candidates) + 1,
                      k >= g.calls[i].at
               PROVE  k >= m.calls[i].at /\ ~(i = n /\ k = m.calls[n].at)
    BY <1>3 DEF Pending, Innermost
  <2>1. k \in Nat /\ m.calls[i].at \in Nat
    BY <1>1, AskTypes, SelectionTypes
  <2> QED
    BY <1>3, <2>1
<1> QED
  BY <1>1, <1>2, <1>3, <1>4, OnePendingLess

(* A call that gives up.                                                   *)
LEMMA GivesUpEnds ==
  ASSUME NEW R, NEW ask \in Asks(R), NEW m, Sound(ask, m), m.pc = "search"
  PROVE  ToGo(ask, GivesUp(m)) <= ToGo(ask, m) - 1
<1> DEFINE n == Len(m.calls)
           g == GivesUp(m)
           p == <<n, Len(ask.candidates) + 1>>
<1>1. m \in Selections(ask) /\ m.calls # <<>>
  BY SearchesSoundly
<1>2. CASE n = 1
  <2>1. g.pc = "failed"
    BY <1>1, <1>2 DEF GivesUp, Selections
  <2>2. ToGo(ask, g) = 0
    BY <2>1 DEF ToGo
  <2> QED
    BY <1>1, <2>2, EndsBelow
<1>3. CASE n # 1
  <2>1. n \in Nat /\ p \in Pending(ask, m)
    BY <1>1, LastIsPending
  <2>2. /\ g \in Selections(ask) /\ g.slot = m.slot /\ g.visited = m.visited
        /\ Len(g.calls) = n - 1
        /\ \A i \in 1..n - 1 :
             g.calls[i].at = IF i = n - 1 THEN m.calls[i].at + 1 ELSE m.calls[i].at
    BY <1>3, GivesUpIs
  <2>3. Pending(ask, g) \subseteq Pending(ask, m) \ {p}
    <3> HIDE DEF g
    <3> SUFFICES ASSUME NEW i \in 1..n - 1, NEW k \in 1..Len(ask.candidates) + 1,
                        k >= g.calls[i].at
                 PROVE  i \in 1..n /\ i # n /\ k >= m.calls[i].at
      BY <2>2 DEF Pending
    <3>1. i \in 1..n /\ i # n
      BY <2>1
    <3>2. k \in Nat /\ m.calls[i].at \in Nat
      BY <1>1, <3>1, AskTypes, SelectionTypes
    <3>3. g.calls[i].at = IF i = n - 1 THEN m.calls[i].at + 1 ELSE m.calls[i].at
      BY <2>2
    <3> HIDE DEF n
    <3> QED
      BY <3>1, <3>2, <3>3
  <2> QED
    BY <1>1, <2>1, <2>2, <2>3, OnePendingLess
<1> QED
  BY <1>2, <1>3

(* One more candidate visited pays for a call through all candidates.      *)
LEMMA VisitPaysForACall ==
  ASSUME NEW R, NEW ask \in Asks(R), NEW m \in Selections(ask),
         NEW g \in Selections(ask), m.pc \notin {"found", "failed"},
         g.pc \notin {"found", "failed"}, g.slot = m.slot,
         NEW k \in DOMAIN ask.candidates \ m.visited, g.visited = m.visited \cup {k},
         Cardinality(Pending(ask, g)) <=
           Cardinality(Pending(ask, m)) + (Len(ask.candidates) + 1)
  PROVE  ToGo(ask, g) <= ToGo(ask, m) - 1
<1> DEFINE x == m.slot * StepsPerSlot(ask)
           C == Len(ask.candidates)
           v == Cardinality(m.visited)
           P == Cardinality(Pending(ask, m))
           Q == Cardinality(Pending(ask, g))
<1>1. x \in Nat /\ C \in Nat /\ v \in Nat /\ P \in Nat /\ Q \in Nat
  BY LeftTypes, AskTypes
<1>2. Cardinality(g.visited) = v + 1
  <2>1. IsFiniteSet(m.visited) /\ k \notin m.visited
    BY LeftTypes
  <2> QED
    BY <2>1, FS_AddElement
<1>3. ToGo(ask, m) = x + ((C - v) * (C + 2) + P)
  BY DEF ToGo, Left
<1>4. ToGo(ask, g) = x + ((C - (v + 1)) * (C + 2) + Q)
  BY <1>2 DEF ToGo, Left
<1>5. Q <= P + (C + 1)
  OBVIOUS
<1> HIDE DEF x, C, v, P, Q
<1>6. (C - (v + 1)) * (C + 2) = (C - v) * (C + 2) - (C + 2)
  BY <1>1
<1>7. (C - v) * (C + 2) \in Int
  BY <1>1
<1> QED
  BY <1>1, <1>3, <1>4, <1>5, <1>6, <1>7

(* A candidate taken.                                                      *)
LEMMA TakesEnds ==
  ASSUME NEW R, NEW ask \in Asks(R), NEW m, Sound(ask, m), m.pc = "search",
         NEW k \in DOMAIN ask.candidates \ m.visited
  PROVE  ToGo(ask, Takes(m, k)) <= ToGo(ask, m) - 1
<1> DEFINE g == Takes(m, k)
<1>1. m \in Selections(ask)
  BY DEF Sound
<1>2. /\ g \in Selections(ask) /\ g.pc = "assign" /\ g.calls = m.calls
      /\ g.slot = m.slot /\ g.visited = m.visited \cup {k}
  BY <1>1 DEF Takes, Selections
<1>3. Pending(ask, g) = Pending(ask, m)
  BY <1>2 DEF Pending
<1>4. Cardinality(Pending(ask, m)) <= Cardinality(Pending(ask, m)) + (Len(ask.candidates) + 1)
  BY <1>1, LeftTypes, AskTypes
<1> QED
  BY <1>1, <1>2, <1>3, <1>4, VisitPaysForACall

(* A candidate asked for of its holder.                                    *)
LEMMA DisplacesEnds ==
  ASSUME NEW R, NEW ask \in Asks(R), NEW m, Sound(ask, m), m.pc = "search",
         NEW k \in DOMAIN ask.candidates \ m.visited, m.taker[k] # 0
  PROVE  ToGo(ask, Displaces(m, k)) <= ToGo(ask, m) - 1
<1> DEFINE n == Len(m.calls)
           c == [slot |-> m.taker[k], at |-> 1]
           g == Displaces(m, k)
           New == {n + 1} \X (1..Len(ask.candidates) + 1)
<1>1. /\ m \in Selections(ask) /\ n \in Nat /\ m.calls \in Seq(Calls(ask))
  BY SearchesSoundly, SelectionTypes
<1>2. c \in Calls(ask)
  BY HolderIsNotCalled, AskTypes DEF Calls
<1>3. g = [m EXCEPT !.visited = m.visited \cup {k}, !.calls = Append(m.calls, c)]
  BY <1>1 DEF Displaces, Selections
<1> HIDE DEF c, g
<1>4. /\ Append(m.calls, c) \in Seq(Calls(ask)) /\ Len(Append(m.calls, c)) = n + 1
      /\ \A i \in 1..n : Append(m.calls, c)[i] = m.calls[i]
  BY <1>1, <1>2, AppendProperties
<1>5. /\ g \in Selections(ask) /\ g.pc = m.pc /\ g.slot = m.slot
      /\ g.visited = m.visited \cup {k} /\ Len(g.calls) = n + 1
      /\ \A i \in 1..n : g.calls[i] = m.calls[i]
  BY <1>1, <1>3, <1>4 DEF Selections
<1>6. Pending(ask, g) \subseteq Pending(ask, m) \cup New
  <2>1. \A i \in 1..n + 1 : i \in 1..n \/ i = n + 1
    BY <1>1
  <2> QED
    BY <1>5, <2>1 DEF Pending
<1>7. IsFiniteSet(New) /\ Cardinality(New) = Len(ask.candidates) + 1
  <2>1. Len(ask.candidates) \in Nat /\ Len(ask.candidates) + 1 \in Nat
    BY AskTypes
  <2>2. /\ IsFiniteSet(1..Len(ask.candidates) + 1)
        /\ Cardinality(1..Len(ask.candidates) + 1) = Len(ask.candidates) + 1
    BY <2>1, UpTo
  <2>3. IsFiniteSet({n + 1}) /\ Cardinality({n + 1}) = 1
    BY FS_Singleton
  <2>4. IsFiniteSet(New) /\ Cardinality(New) =
          Cardinality({n + 1}) * Cardinality(1..Len(ask.candidates) + 1)
    BY <2>2, <2>3, FS_Product
  <2> QED
    BY <2>1, <2>2, <2>3, <2>4
<1>8. Cardinality(Pending(ask, g)) <=
        Cardinality(Pending(ask, m)) + (Len(ask.candidates) + 1)
  <2> DEFINE P == Pending(ask, m)
  <2>1. IsFiniteSet(P) /\ Cardinality(P) \in Nat /\ Cardinality(Pending(ask, g)) \in Nat
    BY <1>1, <1>5, LeftTypes
  <2>2. IsFiniteSet(P \cap New) /\ Cardinality(P \cap New) \in Nat
    BY <2>1, FS_Intersection, FS_CardinalityType
  <2>3. /\ IsFiniteSet(P \cup New)
        /\ Cardinality(P \cup New) =
             Cardinality(P) + Cardinality(New) - Cardinality(P \cap New)
    BY <1>7, <2>1, FS_Union
  <2>4. Cardinality(Pending(ask, g)) <= Cardinality(P \cup New)
    BY <1>6, <2>3, FS_Subset
  <2>5. Len(ask.candidates) \in Nat
    BY AskTypes
  <2> HIDE DEF P, New
  <2> QED
    BY <1>7, <2>1, <2>2, <2>3, <2>4, <2>5 DEF P
<1> QED
  BY <1>1, <1>5, <1>8, VisitPaysForACall DEF g

(* Going on to a slot before, the search has less to do than before.       *)
LEMMA EntersEnds ==
  ASSUME NEW R, NEW ask \in Asks(R), NEW m \in Selections(ask),
         NEW s \in 0..Len(ask.slots)
  PROVE  ToGo(ask, Enter(m, s)) <= (s + 1) * StepsPerSlot(ask)
<1> DEFINE g == Enter(m, s)
           C == Len(ask.candidates)
           K == StepsPerSlot(ask)
<1>1. C \in Nat /\ s \in Nat /\ K \in Nat
  BY LeftTypes, AskTypes
<1>2. CASE s = 0
  <2>1. g.pc = "found"
    BY <1>2 DEF Enter, Selections
  <2>2. ToGo(ask, g) = 0
    BY <2>1 DEF ToGo
  <2>3. (s + 1) * K \in Nat
    BY <1>1
  <2> HIDE DEF g, K
  <2> QED
    BY <2>2, <2>3 DEF g, K
<1>3. CASE s # 0
  <2> DEFINE c == [slot |-> s, at |-> 1]
  <2>1. g = [m EXCEPT !.pc = "search", !.slot = s, !.visited = {}, !.calls = <<c>>]
    BY <1>3 DEF Enter
  <2>2. c \in Calls(ask) /\ c.at = 1
    BY <1>3, AskTypes DEF Calls
  <2> HIDE DEF g, c
  <2>3. <<c>> \in Seq(Calls(ask)) /\ Len(<<c>>) = 1 /\ <<c>>[1] = c
    BY <2>2
  <2>4. /\ g \in Selections(ask) /\ g.pc = "search" /\ g.slot = s
        /\ g.calls = <<c>> /\ g.visited = {}
    BY <2>1, <2>3 DEF Selections
  <2>5. Pending(ask, g) \in SUBSET ((1..1) \X (1..C + 1))
    BY <2>3, <2>4 DEF Pending
  <2>6. IsFiniteSet((1..1) \X (1..C + 1)) /\ Cardinality((1..1) \X (1..C + 1)) = C + 1
    <3>1. C + 1 \in Nat /\ 1 \in Nat
      BY <1>1
    <3>2. /\ IsFiniteSet(1..1) /\ IsFiniteSet(1..C + 1)
          /\ Cardinality(1..1) = 1 /\ Cardinality(1..C + 1) = C + 1
      BY <3>1, UpTo
    <3>3. IsFiniteSet((1..1) \X (1..C + 1)) /\ Cardinality((1..1) \X (1..C + 1)) =
            Cardinality(1..1) * Cardinality(1..C + 1)
      BY <3>2, FS_Product
    <3> HIDE DEF C
    <3> QED
      BY <1>1, <3>2, <3>3
  <2>7. Cardinality(Pending(ask, g)) <= C + 1 /\ Cardinality(Pending(ask, g)) \in Nat
    BY <2>4, <2>5, <2>6, FS_Subset, LeftTypes
  <2>8. Cardinality({}) = 0
    BY FS_EmptySet
  <2>9. ToGo(ask, g) = s * K + ((C - 0) * (C + 2) + Cardinality(Pending(ask, g)))
    BY <2>4, <2>8 DEF ToGo, Left
  <2>10. K = (C + 1) * (C + 2)
    BY DEF StepsPerSlot
  <2> HIDE DEF C, K
  <2>11. K = C * (C + 2) + (C + 2) /\ (s + 1) * K = s * K + K
    BY <1>1, <2>10
  <2>12. C * (C + 2) \in Nat /\ s * K \in Nat
    BY <1>1
  <2> QED
    BY <1>1, <2>7, <2>9, <2>11, <2>12 DEF g, K
<1> QED
  BY <1>2, <1>3

(* A candidate assigned.                                                   *)
LEMMA AssignsEnds ==
  ASSUME NEW R, NEW ask \in Asks(R), NEW m, Sound(ask, m), m.pc = "assign"
  PROVE  ToGo(ask, Assigns(m, Innermost(m).at, Innermost(m).slot)) <= ToGo(ask, m) - 1
<1> DEFINE n == Len(m.calls)
           k == Innermost(m).at
           s == Innermost(m).slot
           c == Assigned(m, k, s)
           p == <<n, Len(ask.candidates) + 1>>
<1>1. /\ m \in Selections(ask) /\ m.calls # <<>> /\ n \in Nat
      /\ c \in Selections(ask) /\ c.pc = m.pc /\ c.slot = m.slot
      /\ c.visited = m.visited /\ Len(c.calls) = n - 1
      /\ \A i \in 1..n - 1 : c.calls[i] = m.calls[i]
      /\ s = m.calls[n].slot /\ s \in DOMAIN ask.slots
  BY AssignedIs
<1>2. p \in Pending(ask, m)
  BY <1>1, LastIsPending
<1> HIDE DEF c, k, s
<1>3. CASE n = 1
  <2>1. s = m.slot
    BY <1>1, <1>3 DEF Sound, Chained
  <2>2. s - 1 \in 0..Len(ask.slots) /\ (s - 1) + 1 = s
    BY <1>1, AskTypes
  <2>3. ToGo(ask, Enter(c, s - 1)) <= s * StepsPerSlot(ask)
    BY <1>1, <2>2, EntersEnds
  <2>4. Enter(c, s - 1) \in Selections(ask)
    <3>1. Assigns(m, k, s) = Enter(c, s - 1)
      BY <1>3 DEF Assigns, c
    <3>2. Sound(ask, Assigns(m, k, s))
      BY AssignsSoundly DEF k, s
    <3> QED
      BY <3>1, <3>2 DEF Sound
  <2>5. s * StepsPerSlot(ask) + 1 <= ToGo(ask, m)
    <3>1. s * StepsPerSlot(ask) \in Nat
      BY <1>1, <2>1, LeftTypes
    <3>2. (Len(ask.candidates) - Cardinality(m.visited)) * (Len(ask.candidates) + 2) \in Nat
      BY <1>1, LeftTypes
    <3>3. Cardinality(Pending(ask, m)) \in Nat \ {0}
      BY <1>1, <1>2, LeftTypes, FS_EmptySet
    <3>4. ToGo(ask, m) = s * StepsPerSlot(ask) +
            ((Len(ask.candidates) - Cardinality(m.visited)) * (Len(ask.candidates) + 2)
               + Cardinality(Pending(ask, m)))
      BY <2>1 DEF ToGo, Left
    <3> QED
      BY <3>1, <3>2, <3>3, <3>4
  <2>6. /\ ToGo(ask, Enter(c, s - 1)) \in Nat /\ ToGo(ask, m) \in Nat
        /\ s * StepsPerSlot(ask) \in Nat
    BY <1>1, <2>1, <2>4, LeftTypes
  <2>7. ToGo(ask, Enter(c, s - 1)) <= ToGo(ask, m) - 1
    BY <2>3, <2>5, <2>6
  <2> QED
    BY <1>3, <2>7 DEF Assigns, c, k, s
<1>4. CASE n # 1
  <2>1. Pending(ask, c) \subseteq Pending(ask, m) \ {p}
    <3> SUFFICES ASSUME NEW i \in 1..n - 1, NEW k1 \in 1..Len(ask.candidates) + 1,
                        k1 >= c.calls[i].at
                 PROVE  i \in 1..n /\ i # n /\ k1 >= m.calls[i].at
      BY <1>1 DEF Pending
    <3> QED
      BY <1>1
  <2>2. ToGo(ask, c) <= ToGo(ask, m) - 1
    BY <1>1, <1>2, <2>1, OnePendingLess
  <2> QED
    BY <1>4, <2>2 DEF Assigns, c, k, s
<1> QED
  BY <1>3, <1>4

(* So every step does, until the selection has ended.                      *)
LEMMA StepEnds ==
  ASSUME NEW R, NEW ask \in Asks(R), NEW m, Sound(ask, m),
         m.pc \notin {"found", "failed"}
  PROVE  ToGo(ask, Step(ask, m)) <= ToGo(ask, m) - 1
BY StepIs, AssignsEnds, GivesUpEnds, GoesOnEnds, TakesEnds, DisplacesEnds

(* And MaxSteps is enough for all of it.                                   *)
LEMMA FirstCallEnds ==
  ASSUME NEW R, NEW ask \in Asks(R)
  PROVE  ToGo(ask, FirstCall(ask)) <= MaxSteps(ask)
<1> DEFINE m == [pc |-> "search", slot |-> 0, calls |-> <<>>, visited |-> {},
                 taker |-> [k \in DOMAIN ask.candidates |-> 0],
                 given |-> [s \in DOMAIN ask.slots |-> 0]]
<1>1. 0 \in 0..Len(ask.slots) /\ 0 \in 0..Len(ask.candidates)
      /\ Len(ask.slots) \in 0..Len(ask.slots) /\ <<>> \in Seq(Calls(ask))
  BY AskTypes, EmptySeq
<1>2. m \in Selections(ask)
  BY <1>1 DEF Selections
<1> QED
  BY <1>1, <1>2, EntersEnds DEF FirstCall, MaxSteps

-----------------------------------------------------------------------------
(* The recursive function After, and the selection as a whole.             *)

(* A set of numbers has a least one: the numbers are well-founded.         *)
LEMMA LeastNumber ==
  ASSUME NEW T \in SUBSET Nat, T # {}
  PROVE  \E n \in T : \A i \in T : n <= i
<1> DEFINE Less == {ss \in Nat \X Nat : ss[1] < ss[2]}
<1>1. IsWellFoundedOn(Less, Nat)
  BY NatLessThanWellFounded DEF OpToRel
<1>2. \E n \in T : \A i \in T : ~(<<i, n>> \in Less)
  BY <1>1, WFMin
<1>3. \A i, n \in Nat : i < n => <<i, n>> \in Less
  OBVIOUS
<1> HIDE DEF Less
<1>4. PICK n \in T : \A i \in T : ~(<<i, n>> \in Less)
  BY <1>2
<1>5. \A i \in T : n <= i
  <2> TAKE i \in T
  <2>1. i \in Nat /\ n \in Nat /\ ~(i < n)
    BY <1>3, <1>4
  <2> QED
    BY <2>1
<1> QED
  BY <1>5

(* Induction over the numbers, said of a set.                              *)
LEMMA Upwards ==
  ASSUME NEW T \in SUBSET Nat, 0 \in T, \A n \in T : n + 1 \in T
  PROVE  T = Nat
<1> DEFINE Rest == Nat \ T
<1> SUFFICES ASSUME Rest # {} PROVE FALSE
  OBVIOUS
<1>1. PICK n \in Rest : \A i \in Rest : n <= i
  <2>1. Rest \in SUBSET Nat
    OBVIOUS
  <2> HIDE DEF Rest
  <2> QED
    BY <2>1, LeastNumber
<1>2. n \in Nat /\ n # 0 /\ n \notin T
  OBVIOUS
<1>3. n - 1 \in Nat /\ (n - 1) + 1 = n /\ ~(n <= n - 1)
  BY <1>2
<1>4. n - 1 \in T
  BY <1>1, <1>3
<1> QED
  BY <1>2, <1>3, <1>4

(* The selections up to the nth step.                                      *)
IsRun(ask, n, h) ==
  h = [i \in 0..n |-> IF i = 0 THEN FirstCall(ask) ELSE Step(ask, h[i - 1])]

(* There are n steps for every n.                                          *)
LEMMA RunsExist ==
  ASSUME NEW ask, NEW n \in Nat
  PROVE  \E h : IsRun(ask, n, h)
<1> DEFINE T == {i \in Nat : \E h : IsRun(ask, i, h)}
<1>1. 0 \in T
  <2> DEFINE h == [i \in 0..0 |-> FirstCall(ask)]
  <2>1. h = [i \in 0..0 |-> IF i = 0 THEN FirstCall(ask) ELSE Step(ask, h[i - 1])]
    <3>1. \A i \in 0..0 : i = 0
      OBVIOUS
    <3> QED
      BY <3>1
  <2> HIDE DEF h
  <2> QED
    BY <2>1 DEF IsRun
<1>2. \A i \in T : i + 1 \in T
  <2> TAKE i \in T
  <2>1. i \in Nat /\ i + 1 \in Nat
    OBVIOUS
  <2>2. PICK h : h = [j \in 0..i |-> IF j = 0 THEN FirstCall(ask) ELSE Step(ask, h[j - 1])]
    BY DEF IsRun
  <2> DEFINE g == [j \in 0..i + 1 |-> IF j = i + 1 THEN Step(ask, h[i]) ELSE h[j]]
  <2>3. \A j \in 0..i + 1 : g[j] = IF j = 0 THEN FirstCall(ask) ELSE Step(ask, g[j - 1])
    <3> TAKE j \in 0..i + 1
    <3>1. CASE j = i + 1
      <4>1. j # 0 /\ j - 1 = i /\ i \in 0..i + 1 /\ i # i + 1
        BY <2>1, <3>1
      <4> QED
        BY <3>1, <4>1
    <3>2. CASE j # i + 1 /\ j # 0
      <4>1. j \in 0..i /\ j - 1 \in 0..i + 1 /\ j - 1 # i + 1
        BY <2>1, <3>2
      <4>2. h[j] = Step(ask, h[j - 1])
        BY <2>2, <3>2, <4>1
      <4> QED
        BY <3>2, <4>1, <4>2
    <3>3. CASE j # i + 1 /\ j = 0
      <4>1. 0 \in 0..i
        BY <2>1
      <4>2. h[0] = FirstCall(ask)
        BY <2>2, <4>1
      <4> QED
        BY <3>3, <4>2
    <3> QED
      BY <3>1, <3>2, <3>3
  <2>4. g = [j \in 0..i + 1 |-> IF j = 0 THEN FirstCall(ask) ELSE Step(ask, g[j - 1])]
    <3>1. g = [j \in 0..i + 1 |-> g[j]]
      OBVIOUS
    <3> HIDE DEF g
    <3> QED
      BY <2>3, <3>1
  <2> HIDE DEF g
  <2> QED
    BY <2>1, <2>4 DEF IsRun
<1> HIDE DEF T
<1>3. T = Nat
  <2>1. T \in SUBSET Nat
    BY DEF T
  <2> QED
    BY <1>1, <1>2, <2>1, Upwards
<1> QED
  BY <1>3 DEF T

(* And no two ways to take them.                                           *)
LEMMA RunsAgree ==
  ASSUME NEW ask, NEW n \in Nat, NEW o \in Nat, NEW g, NEW h,
         IsRun(ask, n, g), IsRun(ask, o, h), NEW i \in Nat, i <= n, i <= o
  PROVE  g[i] = h[i]
<1> DEFINE T == {j \in Nat : j <= n /\ j <= o => g[j] = h[j]}
<1>1. /\ \A j \in 0..n : g[j] = IF j = 0 THEN FirstCall(ask) ELSE Step(ask, g[j - 1])
      /\ \A j \in 0..o : h[j] = IF j = 0 THEN FirstCall(ask) ELSE Step(ask, h[j - 1])
  BY DEF IsRun
<1>2. 0 \in T
  <2>1. 0 \in 0..n /\ 0 \in 0..o
    OBVIOUS
  <2> QED
    BY <1>1, <2>1
<1>3. \A j \in T : j + 1 \in T
  <2> SUFFICES ASSUME NEW j \in T, j + 1 <= n, j + 1 <= o
               PROVE  g[j + 1] = h[j + 1]
    OBVIOUS
  <2>1. /\ j + 1 \in 0..n /\ j + 1 \in 0..o /\ j + 1 # 0 /\ (j + 1) - 1 = j
        /\ j <= n /\ j <= o
    OBVIOUS
  <2>2. g[j] = h[j]
    BY <2>1
  <2> QED
    BY <1>1, <2>1, <2>2
<1>4. T = Nat
  BY <1>2, <1>3, Upwards
<1> QED
  BY <1>4

(* The recursive function is what its definition says.                     *)
LEMMA AfterIs ==
  ASSUME NEW ask
  PROVE  /\ After(ask)[0] = FirstCall(ask)
         /\ \A n \in Nat : After(ask)[n + 1] = Step(ask, After(ask)[n])
<1> DEFINE Run(n) == CHOOSE h : IsRun(ask, n, h)
           g == [n \in Nat |-> Run(n)[n]]
           after == CHOOSE after :
             after = [n \in Nat |->
                        IF n = 0 THEN FirstCall(ask) ELSE Step(ask, after[n - 1])]
<1>1. \A n \in Nat : IsRun(ask, n, Run(n))
  BY RunsExist
<1> HIDE DEF Run
<1>2. \A n \in Nat : g[n] = IF n = 0 THEN FirstCall(ask) ELSE Step(ask, g[n - 1])
  <2> TAKE n \in Nat
  <2>1. Run(n) = [i \in 0..n |->
                    IF i = 0 THEN FirstCall(ask) ELSE Step(ask, Run(n)[i - 1])]
    BY <1>1 DEF IsRun
  <2>2. n \in 0..n
    OBVIOUS
  <2>3. g[n] = IF n = 0 THEN FirstCall(ask) ELSE Step(ask, Run(n)[n - 1])
    BY <2>1, <2>2
  <2>4. CASE n # 0
    <3>1. n - 1 \in Nat /\ n - 1 <= n /\ n - 1 <= n - 1
      BY <2>4
    <3>2. Run(n)[n - 1] = Run(n - 1)[n - 1]
      BY <1>1, <3>1, RunsAgree
    <3> QED
      BY <2>3, <2>4, <3>1, <3>2
  <2> QED
    BY <2>3, <2>4
<1>3. g = [n \in Nat |-> IF n = 0 THEN FirstCall(ask) ELSE Step(ask, g[n - 1])]
  <2>1. g = [n \in Nat |-> g[n]]
    OBVIOUS
  <2> HIDE DEF g
  <2> QED
    BY <1>2, <2>1
<1> HIDE DEF g
<1>4. after = [n \in Nat |-> IF n = 0 THEN FirstCall(ask) ELSE Step(ask, after[n - 1])]
  BY <1>3
<1>5. After(ask) = after
  BY DEF After
<1> HIDE DEF after
<1>6. \A n \in Nat : n + 1 \in Nat /\ n + 1 # 0 /\ (n + 1) - 1 = n
  OBVIOUS
<1> QED
  BY <1>4, <1>5, <1>6

(* The bound is a number.                                                  *)
LEMMA MaxStepsIsANumber ==
  ASSUME NEW R, NEW ask \in Asks(R)
  PROVE  MaxSteps(ask) \in Nat
<1> DEFINE S == Len(ask.slots)
           C == Len(ask.candidates)
<1>1. S \in Nat /\ C \in Nat
  BY AskTypes
<1>2. StepsPerSlot(ask) = (C + 1) * (C + 2) /\ MaxSteps(ask) = (S + 1) * StepsPerSlot(ask)
  BY DEF StepsPerSlot, MaxSteps
<1> HIDE DEF S, C
<1>3. StepsPerSlot(ask) \in Nat
  BY <1>1, <1>2
<1> QED
  BY <1>1, <1>2, <1>3

(* After n steps the invariant holds, and n steps less are left to do.     *)
LEMMA SelectionGoesOnSoundly ==
  ASSUME NEW R, NEW ask \in Asks(R), NEW n \in Nat
  PROVE  /\ Sound(ask, After(ask)[n])
         /\ \/ After(ask)[n].pc \in {"found", "failed"}
            \/ ToGo(ask, After(ask)[n]) + n <= MaxSteps(ask)
<1> DEFINE m(i) == After(ask)[i]
           Good(i) == /\ Sound(ask, m(i))
                      /\ \/ m(i).pc \in {"found", "failed"}
                         \/ ToGo(ask, m(i)) + i <= MaxSteps(ask)
           T == {i \in Nat : Good(i)}
<1>1. MaxSteps(ask) \in Nat
  BY MaxStepsIsANumber
<1>2. 0 \in T
  <2>1. m(0) = FirstCall(ask)
    BY AfterIs
  <2>2. Sound(ask, FirstCall(ask)) /\ ToGo(ask, FirstCall(ask)) <= MaxSteps(ask)
    BY FirstCallSoundly, FirstCallEnds
  <2>3. ToGo(ask, FirstCall(ask)) \in Nat
    BY <2>2, LeftTypes DEF Sound
  <2> QED
    BY <1>1, <2>1, <2>2, <2>3
<1>3. \A i \in T : i + 1 \in T
  <2> TAKE i \in T
  <2>1. i \in Nat /\ Good(i) /\ m(i + 1) = Step(ask, m(i))
    BY AfterIs
  <2> HIDE DEF m
  <2>2. Sound(ask, m(i + 1))
    BY <2>1, StepSoundly
  <2>3. CASE m(i).pc \in {"found", "failed"}
    <3>1. Step(ask, m(i)) = m(i)
      BY <2>3 DEF Step
    <3> QED
      BY <2>1, <2>2, <2>3, <3>1
  <2>4. CASE m(i).pc \notin {"found", "failed"}
    <3>1. ToGo(ask, m(i + 1)) <= ToGo(ask, m(i)) - 1
      BY <2>1, <2>4, StepEnds
    <3>2. ToGo(ask, m(i + 1)) \in Nat /\ ToGo(ask, m(i)) \in Nat
      BY <2>1, <2>2, LeftTypes DEF Sound
    <3>3. ToGo(ask, m(i)) + i <= MaxSteps(ask)
      BY <2>1, <2>4
    <3>4. ToGo(ask, m(i + 1)) + (i + 1) <= MaxSteps(ask)
      BY <1>1, <2>1, <3>1, <3>2, <3>3
    <3> QED
      BY <2>1, <2>2, <3>4
  <2> QED
    BY <2>3, <2>4
<1>4. T = Nat
  <2>1. T \in SUBSET Nat
    OBVIOUS
  <2> HIDE DEF T
  <2> QED
    BY <1>2, <1>3, <2>1, Upwards
<1> QED
  BY <1>4

(* Says what FindsWhatThereIs says, for slots and candidates without a bound.*)
THEOREM SelectionFindsWhatThereIs ==
  \A R : \A ask \in Asks(R) : FindsWhatThereIs(ask)
<1> SUFFICES ASSUME NEW R, NEW ask \in Asks(R)
             PROVE  FindsWhatThereIs(ask)
  OBVIOUS
<1> DEFINE m == Selection(ask)
           M == MaxSteps(ask)
<1>1. M \in Nat
  BY MaxStepsIsANumber
<1>2. Sound(ask, m) /\ (m.pc \in {"found", "failed"} \/ ToGo(ask, m) + M <= M)
  BY <1>1, SelectionGoesOnSoundly DEF Selection
<1> HIDE DEF m, M
<1>3. m \in Selections(ask)
  BY <1>2 DEF Sound
<1>4. m.pc \in {"found", "failed"}
  <2> SUFFICES ASSUME m.pc \notin {"found", "failed"} PROVE FALSE
    OBVIOUS
  <2>1. m.calls # <<>>
    BY <1>2 DEF Sound, Staged
  <2>2. 0 <= ToGo(ask, m) - 1 /\ ToGo(ask, m) \in Nat
    BY <1>3, <2>1, EndsBelow, LeftTypes
  <2> QED
    BY <1>1, <1>2, <2>2
<1>5. m.pc = "found" => Fits(ask, m.given)
  BY <1>2, FoundFits
<1>6. Fits(ask, m.given) => Possible(ask)
  BY DEF Possible, Fits
<1>7. m.pc = "failed" => ~Possible(ask)
  BY <1>2, FailedIsImpossible
<1> QED
  BY <1>4, <1>5, <1>6, <1>7 DEF FindsWhatThereIs, m

-----------------------------------------------------------------------------
(* The selection and the ledger: an assignment is a cast.                  *)

(* An order of the pool lists every account of it once.                    *)
LEMMA OrderIs ==
  ASSUME NEW pool \in SUBSET Accounts, NEW order \in OrdersOf(pool)
  PROVE  /\ Cardinality(pool) \in Nat /\ DOMAIN order = 1..Cardinality(pool)
         /\ \A i \in DOMAIN order : order[i] \in pool
         /\ \A i, j \in DOMAIN order : order[i] = order[j] => i = j
         /\ \A a \in pool : \E i \in DOMAIN order : order[i] = a
<1> DEFINE n == Cardinality(pool)
<1>1. IsFiniteSet(pool) /\ n \in Nat
  BY LedgerAssumption, FS_Subset, FS_CardinalityType
<1> HIDE DEF n
<1>2. /\ order \in [1..n -> pool]
      /\ \A i, j \in DOMAIN order : order[i] = order[j] => i = j
  BY DEF OrdersOf, n
<1>3. order \in Injection(1..n, pool)
  BY <1>2 DEF Injection, IsInjective
<1>4. IsFiniteSet(1..n) /\ Cardinality(1..n) = Cardinality(pool)
  BY <1>1, UpTo DEF n
<1>5. order \in Surjection(1..n, pool)
  BY <1>1, <1>3, <1>4, FS_Injection
<1> QED
  BY <1>1, <1>2, <1>5 DEF Surjection, n

(* What a demand asks of a pool, and its types.                            *)
LEMMA AskIs ==
  ASSUME NEW demand \in Demands, NEW slots \in SlotsOf(demand),
         NEW pool \in SUBSET Accounts, NEW order \in OrdersOf(pool)
  PROVE  /\ AskOf(slots, order) \in Asks(Roles)
         /\ slots \in [DOMAIN slots -> Roles] /\ IsFiniteSet(DOMAIN slots)
         /\ \A ro \in Roles : Cardinality({i \in DOMAIN slots : slots[i] = ro}) = demand[ro]
<1>1. PICK k \in 0..MaxSlots : slots \in [1..k -> Roles]
  BY DEF SlotsOf, SeqsUpTo
<1>2. k \in Nat /\ DOMAIN slots = 1..k
  BY <1>1, LedgerAssumption
<1>3. slots \in Seq(Roles)
  BY <1>1, <1>2, SeqDef
<1>4. [i \in DOMAIN order |-> RolesOf[order[i]]] \in Seq(SUBSET Roles)
  <2>1. [i \in DOMAIN order |-> RolesOf[order[i]]] \in
          [1..Cardinality(pool) -> SUBSET Roles]
    BY OrderIs, LedgerAssumption
  <2> QED
    BY <2>1, OrderIs, SeqDef
<1> QED
  BY <1>1, <1>2, <1>3, <1>4, UpTo DEF AskOf, Asks, SlotsOf

(* An assignment of candidates to slots is a choice of accounts and parts. *)
LEMMA FitsServes ==
  ASSUME NEW demand \in Demands, NEW slots \in SlotsOf(demand),
         NEW pool \in SUBSET Accounts, NEW order \in OrdersOf(pool),
         NEW given, Fits(AskOf(slots, order), given)
  PROVE  \E A \in SUBSET pool : Serves(A, demand)
<1> DEFINE S == DOMAIN slots
           who == [s \in S |-> order[given[s]]]
           A == {who[s] : s \in S}
           part == [a \in A |-> slots[CHOOSE s \in S : who[s] = a]]
<1>1. /\ given \in [S -> DOMAIN order]
      /\ \A s \in S : slots[s] \in RolesOf[order[given[s]]]
      /\ \A s, t \in S : given[s] = given[t] => s = t
  BY DEF Fits, AskOf, Plays
<1>2. /\ \A s \in S : who[s] \in pool /\ slots[s] \in RolesOf[who[s]]
      /\ \A s, t \in S : who[s] = who[t] => s = t
  BY <1>1, OrderIs
<1>3. slots \in [S -> Roles] /\ IsFiniteSet(S)
  BY AskIs
<1> HIDE DEF who
<1>4. \A s \in S : part[who[s]] = slots[s]
  BY <1>2
<1>5. A \in SUBSET pool /\ part \in [A -> Roles] /\ \A a \in A : part[a] \in RolesOf[a]
  BY <1>2, <1>3, <1>4
<1>6. ASSUME NEW ro \in Roles
      PROVE  Cardinality({a \in A : part[a] = ro}) = demand[ro]
  <2> DEFINE From == {s \in S : slots[s] = ro}
             To == {a \in A : part[a] = ro}
             f == [s \in From |-> who[s]]
  <2>1. f \in [From -> To]
    BY <1>4
  <2>2. \A s, t \in From : f[s] = f[t] => s = t
    BY <1>2
  <2>3. \A a \in To : \E s \in From : f[s] = a
    BY <1>4
  <2>4. f \in Bijection(From, To)
    BY <2>1, <2>2, <2>3 DEF Bijection, Injection, Surjection, IsInjective
  <2>5. IsFiniteSet(From)
    BY <1>3, FS_Subset
  <2>6. Cardinality(To) = Cardinality(From)
    BY <2>4, <2>5, FS_Bijection DEF ExistsBijection
  <2> QED
    BY <2>6, AskIs
<1> QED
  BY <1>5, <1>6 DEF Serves

(* And accounts that can serve a demand are an assignment.                 *)
LEMMA ServesFits ==
  ASSUME NEW demand \in Demands, NEW slots \in SlotsOf(demand),
         NEW pool \in SUBSET Accounts, NEW order \in OrdersOf(pool),
         NEW A \in SUBSET pool, Serves(A, demand)
  PROVE  Possible(AskOf(slots, order))
<1> DEFINE S == DOMAIN slots
           SlotsFor(ro) == {s \in S : slots[s] = ro}
<1>1. PICK part \in [A -> Roles] :
        /\ \A a \in A : part[a] \in RolesOf[a]
        /\ \A ro \in Roles : Cardinality({a \in A : part[a] = ro}) = demand[ro]
  BY DEF Serves
<1> DEFINE Cast(ro) == {a \in A : part[a] = ro}
           b(ro) == CHOOSE f : f \in Bijection(SlotsFor(ro), Cast(ro))
           who == [s \in S |-> b(slots[s])[s]]
           given == [s \in S |-> CHOOSE k \in DOMAIN order : order[k] = who[s]]
<1>2. slots \in [S -> Roles] /\ IsFiniteSet(S) /\ IsFiniteSet(A)
  BY AskIs, LedgerAssumption, FS_Subset
<1>3. \A ro \in Roles : b(ro) \in Bijection(SlotsFor(ro), Cast(ro))
  <2> TAKE ro \in Roles
  <2>1. IsFiniteSet(SlotsFor(ro)) /\ IsFiniteSet(Cast(ro))
    BY <1>2, FS_Subset
  <2>2. Cardinality(SlotsFor(ro)) = Cardinality(Cast(ro))
    BY <1>1, AskIs
  <2> HIDE DEF SlotsFor, Cast
  <2>3. \E f : f \in Bijection(SlotsFor(ro), Cast(ro))
    BY <2>1, <2>2, FS_SameCardinalityBij DEF ExistsBijection
  <2> QED
    BY <2>3
<1> HIDE DEF b
<1>4. \A s \in S : who[s] \in A /\ part[who[s]] = slots[s]
  <2> TAKE s \in S
  <2>1. b(slots[s]) \in [SlotsFor(slots[s]) -> Cast(slots[s])]
    BY <1>2, <1>3 DEF Bijection, Injection
  <2> QED
    BY <2>1
<1>5. \A s, t \in S : who[s] = who[t] => s = t
  <2> SUFFICES ASSUME NEW s \in S, NEW t \in S, who[s] = who[t] PROVE s = t
    OBVIOUS
  <2>1. slots[s] = slots[t]
    BY <1>4
  <2>2. b(slots[s]) \in Injection(SlotsFor(slots[s]), Cast(slots[s]))
    BY <1>2, <1>3 DEF Bijection
  <2>3. s \in SlotsFor(slots[s]) /\ t \in SlotsFor(slots[s])
    BY <2>1
  <2>4. b(slots[s])[s] = b(slots[s])[t]
    BY <2>1
  <2> HIDE DEF SlotsFor, Cast
  <2> QED
    BY <2>2, <2>3, <2>4 DEF Injection, IsInjective
<1> HIDE DEF who
<1>6. \A s \in S : given[s] \in DOMAIN order /\ order[given[s]] = who[s]
  BY <1>4, OrderIs
<1> HIDE DEF given
<1>7. given \in [S -> DOMAIN order]
  BY <1>6 DEF given
<1>8. \A s \in S : slots[s] \in RolesOf[order[given[s]]]
  BY <1>1, <1>4, <1>6
<1>9. \A s, t \in S : given[s] = given[t] => s = t
  BY <1>5, <1>6
<1>10. Fits(AskOf(slots, order), given)
  BY <1>7, <1>8, <1>9, OrderIs DEF Fits, AskOf, Plays
<1> QED
  BY <1>10 DEF Possible, Fits

(* Says what SelectionIsComplete says, for every pool.                     *)
THEOREM SelectionIsAlwaysComplete == Spec => []SelectionIsComplete
<1>1. FindsInSmallPools
  <2> SUFFICES ASSUME NEW slots \in SeqsUpTo(1..3, 3),
                      NEW candidates \in SeqsUpTo(SUBSET (1..3), 3)
               PROVE  FindsWhatThereIs([slots |-> slots, candidates |-> candidates])
    BY DEF FindsInSmallPools
  <2>1. slots \in Seq(1..3) /\ candidates \in Seq(SUBSET (1..3))
    <3>1. PICK k \in 0..3, l \in 0..3 :
            slots \in [1..k -> 1..3] /\ candidates \in [1..l -> SUBSET (1..3)]
      BY DEF SeqsUpTo
    <3>2. k \in Nat /\ l \in Nat
      OBVIOUS
    <3> QED
      BY <3>1, <3>2, SeqDef
  <2>2. [slots |-> slots, candidates |-> candidates] \in Asks(1..3)
    BY <2>1 DEF Asks
  <2> QED
    BY <2>2, SelectionFindsWhatThereIs
<1>2. SelectionIsComplete
  <2> SUFFICES ASSUME NEW demand \in Demands, NEW slots \in SlotsOf(demand),
                      NEW candidates \in SUBSET Accounts,
                      NEW order \in OrdersOf(Available(candidates))
               PROVE  Selection(AskOf(slots, order)).pc = "found"
                        <=> \E A \in SUBSET Available(candidates) : Serves(A, demand)
    BY <1>1 DEF SelectionIsComplete
  <2>1. Available(candidates) \in SUBSET Accounts
    BY DEF Available
  <2> DEFINE pool == Available(candidates)
  <2> HIDE DEF pool
  <2>2. AskOf(slots, order) \in Asks(Roles)
    BY <2>1, AskIs
  <2>3. Selection(AskOf(slots, order)).pc = "found" <=> Possible(AskOf(slots, order))
    BY <2>2, SelectionFindsWhatThereIs DEF FindsWhatThereIs
  <2>4. Possible(AskOf(slots, order))
          => \E A \in SUBSET Available(candidates) : Serves(A, demand)
    BY <2>1, FitsServes DEF Possible
  <2>5. (\E A \in SUBSET Available(candidates) : Serves(A, demand))
          => Possible(AskOf(slots, order))
    BY <2>1, ServesFits
  <2> QED
    BY <2>3, <2>4, <2>5
<1> QED
  BY <1>2, PTL DEF Spec
=============================================================================
