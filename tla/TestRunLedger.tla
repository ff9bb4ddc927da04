--------------------------- MODULE TestRunLedger ---------------------------
(***************************************************************************)
(* The ledger of test runs (server/test-run-store.ts) and of the things a  *)
(* run makes in the product under test (server/test-resource-store.ts):    *)
(* who has which account, what was asked of the product, what is known to  *)
(* be there and what is proved to be gone.                                 *)
(*                                                                         *)
(* Every operation is one SQLite transaction, so it is one action here.    *)
(* What makes the ledger hard is outside: its callers are other processes  *)
(* that act on what they read before, stamp a call before they make it and *)
(* repeat it, and the product creates late, answers never and deletes in   *)
(* the background.  The product and the coordinator that talks to it are   *)
(* external (docs/test-lab/resource-ledger.md calls them separate work);   *)
(* they are modelled as far as the ledger's contract reaches.              *)
(*                                                                         *)
(* Left out: the audit events, which each transaction appends to; the      *)
(* kind of a resource, which is part of the identity of its object here;   *)
(* the formats of ids and hashes.                                          *)
(***************************************************************************)
EXTENDS RunAccountSelection

CONSTANTS
  Accounts,      \* mailbox records of the pool
  Runs,          \* run ids (fresh uuids)
  OrisoDevRuns,  \* the runs for project oriso, environment dev
  Roles,         \* roles an account can play
  RolesOf,       \* RolesOf[a]: the roles of account a
  Demands,       \* the role demands runs are created with
  Results,       \* the results runs finish with
  Resources,     \* resource ids
  Keys,          \* operation keys
  Objects,       \* identities (kind and external id) in the product
  MaxClock,      \* bound on the number of instants
  MaxSlots,      \* bound on the accounts a selection is asked for
  NoRun, NoAccount, NoKey, NoObject, NoTime

ASSUME LedgerAssumption ==
  /\ IsFiniteSet(Accounts)
  /\ OrisoDevRuns \subseteq Runs
  /\ RolesOf \in [Accounts -> SUBSET Roles]
  /\ \A d \in Demands : d \in [Roles -> Nat] /\ \E ro \in Roles : d[ro] > 0
  /\ Results \subseteq {"passed", "failed"}
  /\ MaxClock \in Nat /\ MaxSlots \in Nat
  /\ NoRun \notin Runs /\ NoAccount \notin Accounts /\ NoKey \notin Keys
  /\ NoObject \notin Objects /\ NoTime \notin Nat

VARIABLES
  status,             \* test_runs.status; "none" without a row
  cast,               \* cast[r]: the accounts of run r (test_run_accounts)
  lease,              \* account_leases: the run account a is leased to
  state,              \* test_resources.state; "none" without a row
  intent,             \* run, operation key, account and parents of the row
  externalId,         \* test_resources.external_id
  updatedAt,          \* test_resources.updated_at
  deletionStartedAt,  \* test_resources.deletion_started_at
  object,             \* object[x]: what the product made for resource x
  madeAt, goneAt,     \* when it was made and when it was purged
  clock               \* the time

ledger == <<state, intent, externalId, updatedAt, deletionStartedAt>>
runs == <<status, cast, lease>>
product == <<object, madeAt, goneAt>>
vars == <<runs, ledger, product, clock>>

RunStatuses == {"reserved", "running", "passed", "failed", "released"}

RunTransitions ==
  [s \in RunStatuses |->
    CASE s = "reserved" -> {"running", "released"}
      [] s = "running"  -> {"passed", "failed"}
      [] s \in {"passed", "failed"} -> {"released"}
      [] s = "released" -> {}]

ResourceStates ==
  {"planned", "creating", "create-uncertain", "present", "deleting",
   "pending-purge", "delete-uncertain", "deleted", "cancelled"}

AbandonedTransitions ==
  [s \in ResourceStates |->
    CASE s = "planned"          -> {"creating", "cancelled"}
      [] s = "creating"         -> {"create-uncertain"}
      [] s = "create-uncertain" -> {"cancelled"}
      [] s = "present"          -> {"deleting"}
      [] s = "deleting"         -> {"pending-purge", "delete-uncertain"}
      [] s = "pending-purge"    -> {"delete-uncertain"}
      [] s = "delete-uncertain" -> {"pending-purge"}
      [] s \in {"deleted", "cancelled"} -> {}]

(* What the generic transition may do; "present" is reached by binding and *)
(* "deleted" by a proof only.                                              *)
Transitions ==
  [s \in ResourceStates |->
    CASE s = "planned"          -> {"creating", "cancelled"}
      [] s = "creating"         -> {"create-uncertain"}
      [] s = "create-uncertain" -> {}
      [] s = "present"          -> {"deleting"}
      [] s = "deleting"         -> {"pending-purge", "delete-uncertain"}
      [] s = "pending-purge"    -> {"delete-uncertain"}
      [] s = "delete-uncertain" -> {"pending-purge"}
      [] s \in {"deleted", "cancelled"} -> {}]

Terminal == {"deleted", "cancelled"}
Creating == {"creating", "create-uncertain"}
Deleting == {"deleting", "pending-purge", "delete-uncertain"}

Times == 0..MaxClock
IsRow(x) == state[x] # "none"
RowsOf(r) == {x \in Resources : IsRow(x) /\ intent[x].run = r}
ChildrenOf(x) == {c \in Resources : IsRow(c) /\ x \in intent[c].parents}
IsOpen(r) == status[r] \in RunStatuses \ {"released"}

Intents ==
  [run : Runs, key : Keys, account : Accounts \cup {NoAccount}, parents : SUBSET Resources]
NoIntent == [run |-> NoRun, key |-> NoKey, account |-> NoAccount, parents |-> {}]

Init ==
  /\ status = [r \in Runs |-> "none"]
  /\ cast = [r \in Runs |-> {}]
  /\ lease = [a \in Accounts |-> NoRun]
  /\ state = [x \in Resources |-> "none"]
  /\ intent = [x \in Resources |-> NoIntent]
  /\ externalId = [x \in Resources |-> NoObject]
  /\ updatedAt = [x \in Resources |-> NoTime]
  /\ deletionStartedAt = [x \in Resources |-> NoTime]
  /\ object = [x \in Resources |-> NoObject]
  /\ madeAt = [x \in Resources |-> NoTime]
  /\ goneAt = [x \in Resources |-> NoTime]
  /\ clock = 0

-----------------------------------------------------------------------------
(* Runs and leases.                                                        *)

(* The accounts can play the demanded roles, each account one role.        *)
Serves(A, demand) ==
  \E part \in [A -> Roles] :
    /\ \A a \in A : part[a] \in RolesOf[a]
    /\ \A ro \in Roles : Cardinality({a \in A : part[a] = ro}) = demand[ro]

(* What is left of the candidates; read in the transaction that leases.    *)
Available(candidates) == {a \in candidates : lease[a] = NoRun}

(* The candidates come from the registry, listed before the transaction:   *)
(* any set.  Without a complete cast nothing is written.  Which cast of    *)
(* several is taken is left open.                                          *)
Create(r, candidates, demand) ==
  /\ status[r] = "none"
  /\ \E A \in SUBSET Available(candidates) :
       /\ Serves(A, demand)
       /\ cast' = [cast EXCEPT ![r] = A]
       /\ lease' = [a \in Accounts |-> IF a \in A THEN r ELSE lease[a]]
  /\ status' = [status EXCEPT ![r] = "reserved"]
  /\ UNCHANGED <<ledger, product, clock>>

(* POST start and POST finish: expected is the status the route names.     *)
Transition(r, expected, next) ==
  /\ status[r] = expected
  /\ next \in RunTransitions[expected]
  /\ status' = [status EXCEPT ![r] = next]
  /\ UNCHANGED <<cast, lease, ledger, product, clock>>

Start(r) == Transition(r, "reserved", "running")
FinishRun(r) == \E result \in Results : Transition(r, "running", result)

ReleasableUncertain(r) == \A x \in RowsOf(r) : state[x] \in Terminal \cup {"create-uncertain"}
Releasable(r) == \A x \in RowsOf(r) : state[x] \in Terminal

Release(r) ==
  /\ status[r] \in RunStatuses
  /\ "released" \in RunTransitions[status[r]]
  /\ Releasable(r)
  /\ lease' = [a \in Accounts |-> IF lease[a] = r THEN NoRun ELSE lease[a]]
  /\ status' = [status EXCEPT ![r] = "released"]
  /\ UNCHANGED <<cast, ledger, product, clock>>

-----------------------------------------------------------------------------
(* Resources.  now is the instant the caller stamped the call with: the    *)
(* present one or, for a call that was held up, an earlier one.            *)

Instants == 0..clock

RunAcceptsAny(r) == status[r] \in RunStatuses /\ r \in OrisoDevRuns
RunAccepts(r) == IsOpen(r) /\ r \in OrisoDevRuns

LeasedToAny(r, a) == lease[a] # NoRun
LeasedTo(r, a) == lease[a] = r

GoodParent(r, p) ==
  /\ IsRow(p)
  /\ intent[p].run = r
  /\ state[p] \in {"planned", "present"} \cup Creating

(* A call that repeats a run's operation key writes nothing: it returns    *)
(* the row or is refused.                                                  *)
PlanIntent(x, i, now) ==
  /\ ~IsRow(x)
  /\ \A y \in RowsOf(i.run) : intent[y].key # i.key
  /\ RunAccepts(i.run)
  /\ i.account # NoAccount => LeasedTo(i.run, i.account)
  /\ \A p \in i.parents : GoodParent(i.run, p)
  /\ state' = [state EXCEPT ![x] = "planned"]
  /\ intent' = [intent EXCEPT ![x] = i]
  /\ updatedAt' = [updatedAt EXCEPT ![x] = now]
  /\ UNCHANGED <<runs, externalId, deletionStartedAt, product, clock>>

(* A call names the state it expects and is refused when the row is in     *)
(* another: what has an effect was said of the present state[x].  Nor may  *)
(* a call have been stamped before the row changed last.                   *)
CurrentState(x, now) == IsRow(x)
Current(x, now) == IsRow(x) /\ now >= updatedAt[x]

ChildrenIdle(x) == \A c \in ChildrenOf(x) : state[c] \notin {"present"} \cup Deleting
ChildrenTerminal(x) == \A c \in ChildrenOf(x) : state[c] \in Terminal

Update(x, next, now) ==
  /\ state' = [state EXCEPT ![x] = next]
  /\ updatedAt' = [updatedAt EXCEPT ![x] = now]

Move(x, next, now) ==
  /\ Current(x, now)
  /\ next \in Transitions[state[x]]
  /\ next = "creating" => \A p \in intent[x].parents : state[p] = "present"
  /\ next = "deleting" => ChildrenTerminal(x)
  /\ Update(x, next, now)
  /\ deletionStartedAt' =
       IF next = "deleting" THEN [deletionStartedAt EXCEPT ![x] = now] ELSE deletionStartedAt
  /\ UNCHANGED <<runs, intent, externalId, product, clock>>

(* UNIQUE(target_origin, kind, external_id), over all rows there ever were *)
Unclaimed(o) == \A y \in Resources : externalId[y] # o

(* The coordinator binds the object it was told about, after it was told.  *)
BindProduct(x, now) ==
  /\ object[x] # NoObject /\ now >= madeAt[x]
  /\ Current(x, now)
  /\ state[x] \in Creating
  /\ externalId[x] = NoObject
  /\ Unclaimed(object[x])
  /\ externalId' = [externalId EXCEPT ![x] = object[x]]
  /\ Update(x, "present", now)
  /\ deletionStartedAt' = [deletionStartedAt EXCEPT ![x] = NoTime]
  /\ UNCHANGED <<runs, intent, product, clock>>

(* An authoritative look at the product at instant t found no object o.    *)
AbsentAt(o, t) ==
  \A y \in Resources : object[y] = o => t < madeAt[y] \/ (goneAt[y] # NoTime /\ t >= goneAt[y])

ConfirmPhysicalAbsence(x, verifiedAt, now) ==
  /\ Current(x, now)
  /\ state[x] \in Deleting
  /\ externalId[x] # NoObject /\ deletionStartedAt[x] # NoTime
  /\ AbsentAt(externalId[x], verifiedAt)
  /\ verifiedAt >= deletionStartedAt[x]
  /\ verifiedAt <= now
  /\ ChildrenTerminal(x)
  /\ Update(x, "deleted", now)
  /\ UNCHANGED <<runs, intent, externalId, deletionStartedAt, product, clock>>

-----------------------------------------------------------------------------
(* The product and the time.                                               *)

Exists(x) == madeAt[x] # NoTime /\ goneAt[x] = NoTime

(* The product carries out a creation it was sent when the row said        *)
(* creating, now or when its sender has given the answer up.  It may give  *)
(* the object a name that a purged one had.  A creation takes time.        *)
ProductMakes(x, o) ==
  /\ state[x] \in Creating
  /\ object[x] = NoObject
  /\ \A y \in Resources : object[y] = o => ~Exists(y)
  /\ clock < MaxClock
  /\ clock' = clock + 1
  /\ object' = [object EXCEPT ![x] = o]
  /\ madeAt' = [madeAt EXCEPT ![x] = clock + 1]
  /\ UNCHANGED <<runs, ledger, goneAt>>

(* It purges an object any time after its deletion was sent.               *)
ProductPurges(x) ==
  /\ state[x] \in Deleting
  /\ Exists(x)
  /\ goneAt' = [goneAt EXCEPT ![x] = clock]
  /\ UNCHANGED <<runs, ledger, object, madeAt, clock>>

Tick ==
  /\ clock < MaxClock
  /\ clock' = clock + 1
  /\ UNCHANGED <<runs, ledger, product>>

-----------------------------------------------------------------------------
RunStep(r) ==
  \/ \E candidates \in SUBSET Accounts, demand \in Demands : Create(r, candidates, demand)
  \/ Start(r)
  \/ FinishRun(r)
  \/ Release(r)

ResourceStep(x) ==
  \E now \in Instants :
    \/ \E i \in Intents : PlanIntent(x, i, now)
    \/ \E next \in ResourceStates : Move(x, next, now)
    \/ BindProduct(x, now)
    \/ \E verifiedAt \in Instants : ConfirmPhysicalAbsence(x, verifiedAt, now)

ProductStep(x) ==
  \/ \E o \in Objects : ProductMakes(x, o)
  \/ ProductPurges(x)

Next ==
  \/ \E r \in Runs : RunStep(r)
  \/ \E x \in Resources : ResourceStep(x) \/ ProductStep(x)
  \/ Tick

Spec == Init /\ [][Next]_vars

-----------------------------------------------------------------------------
(* Properties.                                                             *)

(* Every variable has its type; a row has an intent and a time of change,  *)
(* and what the product made has a name and a time.                        *)
TypeOK ==
  /\ status \in [Runs -> RunStatuses \cup {"none"}]
  /\ cast \in [Runs -> SUBSET Accounts]
  /\ lease \in [Accounts -> Runs \cup {NoRun}]
  /\ state \in [Resources -> ResourceStates \cup {"none"}]
  /\ intent \in [Resources -> Intents \cup {NoIntent}]
  /\ externalId \in [Resources -> Objects \cup {NoObject}]
  /\ updatedAt \in [Resources -> Times \cup {NoTime}]
  /\ deletionStartedAt \in [Resources -> Times \cup {NoTime}]
  /\ object \in [Resources -> Objects \cup {NoObject}]
  /\ madeAt \in [Resources -> Times \cup {NoTime}]
  /\ goneAt \in [Resources -> Times \cup {NoTime}]
  /\ clock \in Times
  /\ \A x \in Resources :
       /\ IsRow(x) <=> intent[x] # NoIntent
       /\ IsRow(x) <=> updatedAt[x] # NoTime
       /\ object[x] = NoObject <=> madeAt[x] = NoTime

(* The leases are exactly the accounts of the runs not yet released: no    *)
(* account is lost to a run that is over, and no run works with an account *)
(* that another run was given (create reads the leases where it adds to    *)
(* them, release takes back all and only its own).                         *)
LeasesAreCasts ==
  \A r \in Runs, a \in Accounts : lease[a] = r <=> IsOpen(r) /\ a \in cast[r]

(* A released run has left nothing in the product: whatever was created    *)
(* late, answered never or deleted softly kept the run from being released *)
(* (resource-ledger.md: the leases are held "until every tracked resource  *)
(* is either physically verified absent or cancelled before dispatch").    *)
NothingLeftBehind ==
  \A x \in Resources : Exists(x) => IsOpen(intent[x].run)

(* What the ledger calls deleted is gone from the product: an observation  *)
(* made before the object was there, or before its deletion was sent, is   *)
(* never taken for a proof.                                                *)
DeletedIsGone ==
  \A x \in Resources : state[x] = "deleted" => object[x] # NoObject /\ ~Exists(x)

(* While an object made with an account is in the product, its run still   *)
(* has that account.                                                       *)
AccountStaysWithObject ==
  \A x \in Resources :
    Exists(x) /\ intent[x].account # NoAccount => lease[intent[x].account] = intent[x].run

(* In the product a child never outlives its parent: a parent is there     *)
(* before the creation of a child is sent and is not deleted until the     *)
(* child is proved gone, be the child's creation never so late.            *)
ParentsOutliveChildren ==
  \A c \in Resources : Exists(c) => \A p \in intent[c].parents : Exists(p)

(* The slots of a demand and the accounts not leased, each in some order.  *)
SlotsOf(demand) ==
  {slots \in SeqsUpTo(Roles, MaxSlots) :
     \A ro \in Roles : Cardinality({i \in DOMAIN slots : slots[i] = ro}) = demand[ro]}

OrdersOf(pool) ==
  {order \in [1..Cardinality(pool) -> pool] :
     \A i, j \in DOMAIN order : order[i] = order[j] => i = j}

AskOf(slots, order) ==
  [slots |-> slots, candidates |-> [i \in DOMAIN order |-> RolesOf[order[i]]]]

(* The selection finds the accounts of a run whenever there are any: for    *)
(* every small pool, and in every state of the ledger exactly when Create   *)
(* is possible with the accounts that are not leased.  (selectRunAccounts)  *)
SelectionIsComplete ==
  /\ FindsInSmallPools
  /\ \A demand \in Demands : \A slots \in SlotsOf(demand) :
       \A pool \in {Available(candidates) : candidates \in SUBSET Accounts} :
       \A order \in OrdersOf(pool) :
         Selection(AskOf(slots, order)).pc = "found"
           <=> \E A \in SUBSET pool : Serves(A, demand)

(* Once a run is released nothing of it changes, in the ledger or in the   *)
(* product: no call that was on its way adds to it.                        *)
ReleasedIsFinal ==
  [][\A r \in Runs : status[r] = "released" =>
       /\ status'[r] = "released" /\ cast'[r] = cast[r]
       /\ {x \in Resources : IsRow(x)' /\ intent'[x].run = r} = RowsOf(r)
       /\ \A x \in RowsOf(r) : state'[x] = state[x] /\ (Exists(x)' <=> Exists(x))]_vars

(* The ledger implements RunCustody: accounts are taken together and given *)
(* back together, by runs that have cleared all they brought.              *)
phase ==
  [r \in Runs |-> CASE status[r] = "none" -> "new"
                    [] status[r] = "released" -> "closed"
                    [] OTHER -> "open"]

maker == [x \in Resources |-> IF Exists(x) THEN intent[x].run ELSE NoRun]

Custody == INSTANCE RunCustody WITH Things <- Resources, Nobody <- NoRun, holder <- lease

CustodyPromise == Custody!Spec
=============================================================================
