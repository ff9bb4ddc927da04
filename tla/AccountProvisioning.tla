------------------------- MODULE AccountProvisioning -------------------------
(***************************************************************************)
(* One test account of the hub: its record in the registry (Infisical),     *)
(* the account in the product (ORISO) and the requests that change both:    *)
(* provisioning, replacing a stale role, linking a password, completing a   *)
(* required setup, enrolling a second factor by hand, deleting an admin.    *)
(* One action per call to the registry or to the product.  Every such call  *)
(* may take effect and lose its answer, fail without effect, or be given up  *)
(* after its 15 seconds and take effect later, when other requests have had  *)
(* the account; and every request may die between two calls.  Meanwhile the  *)
(* record's link to its mailbox may be cleared away, without the lock the    *)
(* requests hold.  The constants are the requests that can be open at once,  *)
(* in the web process or in the setup operator's.                            *)
(***************************************************************************)
EXTENDS Naturals, FiniteSets

CONSTANTS Calls,       \* requests that change the account
          Roles,       \* roles an account can be given
          Invitees,    \* those whose invitation a person may take up himself
          Passwords,   \* passwords: generated, or typed in by a person
          Seeds,       \* secrets of a second factor
          LateRequests, \* kinds of requests the product may carry out late
          MaxLate,     \* calls given up on that are outstanding at once
          MaxDelayed,  \* registry writes and deletions that come late, in all
          NoSeed, NoRecord, NoAccount, Nobody, Orphan

KnownRoles == {"advice-seeker", "counsellor", "tenant-admin", "platform-admin"}

\* agency-admin, which can be set up and deleted, is left out: a binding names
\* a product id, and without it no account here is replaced under its binding.
ASSUME RolesAreKnown == Roles \subseteq KnownRoles /\ Invitees \subseteq Roles
ASSUME NullsAreDistinct ==
  /\ MaxLate \in Nat /\ MaxDelayed \in Nat /\ NoSeed \notin Seeds /\ Nobody \notin Calls /\ Orphan \notin Calls \cup {Nobody}

VARIABLES lock,      \* whose lock directory is on the volume
          rec,       \* the record in the registry
          adrift,    \* writes to it given up on that may still be carried out
          delayed,   \* writes and deletions carried out after they were given up
          marker,    \* the deletion marker in the hub's database
          account,   \* the account in the product
          erased,    \* whether the hub's own DELETE removed the last account, and when
          late,      \* product requests given up on that may still be carried out
          setups,    \* POST /setup sent for the account's binding
          call,      \* what each request is doing
          unlinked   \* the record's link to its mailbox is cleared and suppressed

record == <<rec, adrift, delayed>>

vars == <<lock, record, marker, account, erased, late, setups, call, unlinked>>

Statuses == {"pending", "ready", "failed"}
Setups   == {"none", "bound", "submitted"}

RecordType ==
  [role: Roles, username: {"mail", "app"}, secret: Passwords,
   totp: Seeds \cup {NoSeed}, status: Statuses, setup: Setups,
   stamp: Calls \cup {"earlier", "adrift"}]

\* A write carries the whole record; a POST creates, and never replaces, one.
WriteType == [record: RecordType, creates: BOOLEAN]

\* ours: the hub set its password or armed its second factor.
AccountType ==
  [role: Roles, password: Passwords, seed: Seeds \cup {NoSeed},
   invite: {"none", "sent", "accepted"}, live: BOOLEAN, ours: BOOLEAN]

ASSUME AbsenceIsDistinct == NoRecord \notin RecordType /\ NoAccount \notin AccountType

\* What the hub asks the product to change.
ProductRequests ==
  [what: {"create"}, role: Roles, password: Passwords]
    \cup [what: {"setup", "reactivate"}, password: Passwords]
    \cup [what: {"activate"}, password: Passwords, seed: Seeds]
    \cup [what: {"erase"}]

Phases == {"idle", "create-record", "replace", "link", "enroll", "bind",
           "stage", "dispatch", "post", "probe", "login", "reactivate", "create",
           "confirm", "seed", "activate", "verify", "verified", "clear",
           "preview", "mark", "erase", "deleted", "fail-record",
           "failing", "done"}

CallType ==
  [kind: {"none", "provision", "replace", "link", "setup", "operator", "enroll",
          "delete"},
   phase: Phases, role: Roles \cup {"none"},
   mine: RecordType \cup {NoRecord}, was: RecordType \cup {NoRecord},
   existing: BOOLEAN, started: BOOLEAN, created: BOOLEAN,
   typed: Passwords \cup {NoRecord}]

Idle == [kind |-> "none", phase |-> "idle", role |-> "none", mine |-> NoRecord,
         was |-> NoRecord, existing |-> FALSE, started |-> FALSE,
         created |-> FALSE, typed |-> NoRecord]

Init ==
  /\ lock = Nobody /\ rec = NoRecord /\ adrift = {} /\ delayed = 0 /\ marker = "none"
  /\ account = NoAccount /\ erased = "no" /\ late = {} /\ setups = 0
  /\ call = [c \in Calls |-> Idle] /\ unlinked = FALSE

-----------------------------------------------------------------------------
(* What the requests ask of the record and of the product. *)

IsAdmin(role)  == role \in {"tenant-admin", "platform-admin"}
CanSetUp(role) == role = "counsellor"

\* The name an application role registers under contains no @.
UsernameFits(r, role) == IsAdmin(role) \/ r.username = "app"

\* ORISO knows an invitation for the address.
Invited == account # NoAccount /\ account.invite # "none"

\* updatedAt of the record is older than the request that starts now; that of
\* a write still adrift is one the request has not read.
Aged == IF rec = NoRecord THEN NoRecord ELSE [rec EXCEPT !.stamp = "earlier"]

AgedWrites == {[w EXCEPT !.record.stamp = "adrift"] : w \in adrift}

\* generateApplicationPassword: one that is in use nowhere.
Fresh ==
  {p \in Passwords :
     /\ rec # NoRecord => rec.secret # p
     /\ account # NoAccount => account.password # p}

\* Password alone, or with a code of the seed: what the product accepts.
AcceptsPassword(r) ==
  /\ account # NoAccount /\ account.live /\ account.invite # "sent"
  /\ account.password = r.secret

LogsIn(r) == AcceptsPassword(r) /\ account.seed = NoSeed

\* Mutant of IsManaged: any active factor will do.
IsManagedByAnyFactor(r) == AcceptsPassword(r) /\ account.seed # NoSeed /\ r.totp # NoSeed

\* managedCredentialToken: the profile shows an active factor as well.
IsManaged(r) == AcceptsPassword(r) /\ account.seed # NoSeed /\ account.seed = r.totp

\* verifyBoundAccountSetupIdentity
BoundIdentityLives(r) ==
  /\ r.setup # "none" /\ r.status # "ready" /\ CanSetUp(r.role)
  /\ account # NoAccount /\ account.live /\ account.role = r.role

\* validateAccountSetupInvite
InviteOpen(r) == r.totp = NoSeed /\ account.invite = "sent"

-----------------------------------------------------------------------------
(* Moves of a request. *)

In(c, phase) == call[c].phase = phase

Go(c, phase) == call' = [call EXCEPT ![c].phase = phase]

\* Where an error takes a request: the web handlers have a catch that looks
\* after the record, the operator's command only releases the lock.
ErrorPhase(c) == IF call[c].kind = "operator" THEN "done" ELSE "failing"

Fail(c) == Go(c, ErrorPhase(c))

\* What has been given up and, carried out late, would pass over what requests
\* have done since: whole records, and the deletion of the account.
GivenUp == adrift \cup {q \in late : q.what = "erase"}

Roomy == Cardinality(late) + Cardinality(adrift) < MaxLate

MayDelay == Roomy /\ delayed + Cardinality(GivenUp) < MaxDelayed

\* A POST that finds a record is refused.
StillWanted(ws) == {w \in ws : ~w.creates}

\* A write to the registry: applied, and known to be or reported as an error;
\* or never applied, or only after the caller has given up.
Saves(c, new, after, onError) ==
  \/ /\ rec' = new /\ adrift' = StillWanted(adrift)
     /\ call' \in {[call EXCEPT ![c] = s] : s \in {after, onError}}
  \/ /\ adrift' \in {adrift} \cup
           (IF MayDelay THEN {adrift \cup {[record |-> new, creates |-> rec = NoRecord]}} ELSE {})
     /\ call' = [call EXCEPT ![c] = onError]
     /\ UNCHANGED rec

\* Mutant of SavesMine: the request goes on with the copy it had.
SavesUnread(c, new, next, onError) ==
  Saves(c, new, [call[c] EXCEPT !.phase = next], [call[c] EXCEPT !.phase = onError])

SavesMine(c, new, next, onError) ==
  Saves(c, new, [call[c] EXCEPT !.phase = next, !.mine = new],
        [call[c] EXCEPT !.phase = onError])

SavesOn(c, new, next, onError) ==
  Saves(c, new, [call[c] EXCEPT !.phase = next], [call[c] EXCEPT !.phase = onError])

\* A write that was given up reaches the registry; no lock holds it off.
WriteLands ==
  \E w \in adrift :
    /\ w.creates => rec = NoRecord
    /\ rec' = w.record /\ adrift' = StillWanted(adrift \ {w}) /\ delayed' = delayed + 1
    /\ UNCHANGED <<lock, marker, account, erased, late, setups, call>>

KeepsRecord   == UNCHANGED <<rec, adrift>>
KeepsProduct  == UNCHANGED <<account, erased, late, setups>>
KeepsRegistry == UNCHANGED <<lock, record, marker>>
OnlyWrites    == UNCHANGED <<lock, delayed, marker>> /\ KeepsProduct
OnlyMoves     == KeepsRegistry /\ KeepsProduct

-----------------------------------------------------------------------------
(* The product carries out a request of the hub. *)

NewAccounts(q) ==
  [role: {q.role}, password: {q.password}, seed: {NoSeed}, live: {TRUE}, ours: {FALSE},
   invite: IF CanSetUp(q.role) THEN {"none", "sent"} ELSE {"none"}]

Creates(q) ==
  /\ q.what = "create" /\ account = NoAccount
  /\ account' \in NewAccounts(q) /\ erased' = "no" /\ setups' = 0

SetsUp(q) ==
  /\ q.what = "setup" /\ account # NoAccount /\ account.invite = "sent"
  /\ account' = [account EXCEPT !.password = q.password, !.invite = "accepted", !.ours = TRUE]
  /\ UNCHANGED <<erased, setups>>

\* Only with a token of this account, which its password was exchanged for.
Activates(q) ==
  /\ q.what = "activate" /\ account # NoAccount /\ account.live
  /\ account.password = q.password
  /\ account' = [account EXCEPT !.seed = q.seed, !.ours = TRUE]
  /\ UNCHANGED <<erased, setups>>

Reactivates(q) ==
  /\ q.what = "reactivate" /\ account # NoAccount /\ ~account.live
  /\ account' = [account EXCEPT !.live = TRUE, !.password = q.password]
  /\ UNCHANGED <<erased, setups>>

Erases(q, when) ==
  /\ q.what = "erase" /\ account # NoAccount
  /\ account' = NoAccount /\ erased' = when /\ UNCHANGED setups

CarriesOut(q, when) ==
  Creates(q) \/ SetsUp(q) \/ Activates(q) \/ Reactivates(q) \/ Erases(q, when)

MayBeLate(q) == q.what \in LateRequests /\ Roomy /\ (q.what = "erase" => MayDelay)

\* Requests but creations name the account they change, and end with it.
StillMeant(qs) == {q \in qs : account' # NoAccount \/ q.what = "create"}

\* Carried out and answered, or the answer lost; or never carried out, or only
\* after the caller has given up.
Sends(c, q, answered, unanswered) ==
  /\ \/ /\ CarriesOut(q, "in time") /\ late' = StillMeant(late)
        /\ call' \in {[call EXCEPT ![c] = s] : s \in {answered, unanswered}}
     \/ /\ late' \in {late} \cup (IF MayBeLate(q) THEN {late \cup {q}} ELSE {})
        /\ call' = [call EXCEPT ![c] = unanswered]
        /\ UNCHANGED <<account, erased, setups>>
  /\ KeepsRegistry

SendsOn(c, q, next, onError) ==
  Sends(c, q, [call[c] EXCEPT !.phase = next], [call[c] EXCEPT !.phase = onError])

CarriedOutLate ==
  /\ \E q \in late :
       /\ CarriesOut(q, "late") /\ late' = StillMeant(late \ {q})
       /\ delayed' = IF q.what = "erase" THEN delayed + 1 ELSE delayed
  /\ UNCHANGED <<lock, rec, adrift, marker, call>>

-----------------------------------------------------------------------------
(* Requests.  Each takes the account's lock, reads the record and decides.  *)
(* Those of the provisioning handler refuse a record that is unlinked.       *)

TakesLock(c) == lock = Nobody /\ lock' = c

Enters(c, request) ==
  /\ In(c, "idle")
  /\ TakesLock(c)
  /\ rec' = Aged /\ adrift' = AgedWrites
  /\ call' = [call EXCEPT ![c] = request]
  /\ UNCHANGED <<delayed, marker>> /\ KeepsProduct

\* A failed record without a second factor is not provisioned again until
\* somebody has linked a password.
NeedsPassword == rec # NoRecord /\ rec.totp = NoSeed /\ rec.status = "failed"

RequestProvision(c, role) ==
  /\ ~NeedsPassword /\ ~unlinked
  /\ IF rec = NoRecord
       THEN ~Invited /\ Enters(c, [Idle EXCEPT !.kind = "provision", !.role = role, !.phase = "create-record"])
       ELSE /\ rec.role = role
            /\ Enters(c, [Idle EXCEPT !.kind = "provision", !.role = role, !.phase = "probe",
                           !.mine = Aged, !.existing = rec.status # "ready"])

RequestReplace(c, role) ==
  /\ rec # NoRecord /\ rec.role # role /\ UsernameFits(rec, role)
  /\ ~Invited /\ ~NeedsPassword /\ ~unlinked
  /\ Enters(c, [Idle EXCEPT !.kind = "replace", !.role = role, !.phase = "replace",
                 !.mine = Aged, !.was = Aged])

RequestLink(c, role, p) ==
  /\ ~unlinked
  /\ IF rec = NoRecord
       THEN Invited /\ account.role = role
       ELSE /\ rec.role = role /\ rec.totp = NoSeed /\ rec.status # "ready"
            /\ IF Invited THEN account.role = role ELSE rec.status = "failed"
  /\ Enters(c, [Idle EXCEPT !.kind = "link", !.role = role, !.phase = "link", !.mine = Aged, !.typed = p])

RequestSetup(c) ==
  /\ rec # NoRecord /\ rec.setup # "none" /\ CanSetUp(rec.role)
  /\ rec.status # "ready" /\ marker = "none" /\ ~unlinked
  /\ Enters(c, [Idle EXCEPT !.kind = "setup", !.role = rec.role, !.phase = "stage",
                 !.mine = Aged, !.existing = TRUE])

\* The operator's command binds the account itself where nobody has.
RequestOperatorSetup(c) ==
  /\ rec # NoRecord /\ rec.status # "ready" /\ CanSetUp(rec.role)
  /\ rec.setup = "none" => rec.totp = NoSeed
  /\ marker # "deleted"
  /\ BoundIdentityLives([rec EXCEPT !.setup = "bound"])
  /\ rec.setup # "submitted" => InviteOpen(rec)
  /\ Enters(c, [Idle EXCEPT !.kind = "operator", !.role = rec.role, !.mine = Aged, !.existing = TRUE,
                 !.phase = IF rec.setup = "none" THEN "bind" ELSE "stage"])

RequestEnroll(c) ==
  /\ rec # NoRecord /\ rec.totp = NoSeed
  /\ Enters(c, [Idle EXCEPT !.kind = "enroll", !.phase = "enroll", !.mine = Aged])

RequestDelete(c) ==
  /\ rec # NoRecord /\ IsAdmin(rec.role)
  /\ Enters(c, [Idle EXCEPT !.kind = "delete", !.phase = "preview", !.mine = Aged])

Request(c) ==
  \/ \E role \in Roles :
       \/ RequestProvision(c, role)
       \/ RequestReplace(c, role)
       \/ \E p \in Passwords : RequestLink(c, role, p)
  \/ RequestSetup(c) \/ RequestOperatorSetup(c)
  \/ RequestEnroll(c) \/ RequestDelete(c)

-----------------------------------------------------------------------------
(* Writes before the product is asked.  Each writer reads the record again    *)
(* and refuses one that is not as it expects; a late write may have changed   *)
(* it since the request read it.                                             *)

NewRecord(c, p) ==
  [role |-> call[c].role, username |-> IF IsAdmin(call[c].role) THEN "mail" ELSE "app",
   secret |-> p, totp |-> NoSeed, status |-> "pending", setup |-> "none", stamp |-> c]

CreateRecord(c) ==
  /\ In(c, "create-record") /\ rec = NoRecord
  /\ \E p \in Fresh : SavesMine(c, NewRecord(c, p), "probe", "done")
  /\ OnlyWrites

\* replaceRecord
InRoleAndStatusOf(r) == rec.role = r.role /\ rec.status = r.status

ReplaceRole(c) ==
  LET Replaced(r) == [r EXCEPT !.role = call[c].role, !.status = "pending", !.stamp = c] IN
  /\ In(c, "replace") /\ InRoleAndStatusOf(call[c].mine)
  /\ Saves(c, Replaced(rec), [call[c] EXCEPT !.phase = "probe", !.mine = Replaced(@)],
           [call[c] EXCEPT !.phase = "done"])
  /\ OnlyWrites

Linked(c) == [rec EXCEPT !.secret = call[c].typed, !.status = "pending", !.stamp = c]

\* Mutant of LinkPassword: a bound account's password is linked over.
LinkPasswordToAny(c) ==
  /\ In(c, "link")
  /\ IF call[c].mine = NoRecord
       THEN rec = NoRecord /\ SavesOn(c, NewRecord(c, call[c].typed), "done", "done")
       ELSE /\ rec.totp = NoSeed /\ rec.status # "ready"
            /\ SavesOn(c, Linked(c), "done", "done")
  /\ OnlyWrites

\* createRecord, or updateApplicationPassword, which spares a bound account.
LinkPassword(c) ==
  /\ In(c, "link")
  /\ IF call[c].mine = NoRecord
       THEN rec = NoRecord /\ SavesOn(c, NewRecord(c, call[c].typed), "done", "done")
       ELSE /\ rec.setup = "none" /\ rec.totp = NoSeed /\ rec.status # "ready"
            /\ SavesOn(c, Linked(c), "done", "done")
  /\ OnlyWrites

\* enrollTotp
Enrolled(c, s) == [rec EXCEPT !.totp = s, !.stamp = c]

EnrollByHand(c) ==
  /\ In(c, "enroll") /\ rec.totp = NoSeed
  /\ \E s \in Seeds : SavesOn(c, Enrolled(c, s), "done", "done")
  /\ OnlyWrites

\* bindAccountSetup
Bindable(r) ==
  /\ rec.setup = "none" /\ rec.totp = NoSeed /\ rec.status # "ready"
  /\ r = [rec EXCEPT !.setup = r.setup]

Bound(c) == [rec EXCEPT !.setup = "bound", !.stamp = c]

OperatorBinds(c) ==
  /\ In(c, "bind") /\ Bindable(call[c].mine)
  /\ SavesMine(c, Bound(c), "stage", "done")
  /\ OnlyWrites

\* The registry cannot be read, or what is read is refused.
WriteRefused(c) ==
  /\ call[c].phase \in {"create-record", "replace", "link", "enroll", "bind", "fail-record"}
  /\ Go(c, "done") /\ OnlyMoves

\* Mutant of SetupPasswordStored: the mark is forgotten.
SetupPasswordUnmarked(c, p) ==
  [rec EXCEPT !.secret = p, !.status = "pending", !.stamp = c]

\* The new password and the mark that it was sent are stored before it is.
SetupPasswordStored(c, p) ==
  [rec EXCEPT !.secret = p, !.setup = "submitted", !.status = "pending", !.stamp = c]

Stage(c) ==
  LET r == call[c].mine IN
  /\ In(c, "stage")
  /\ \/ Fail(c) /\ KeepsRecord
     \/ /\ BoundIdentityLives(r) /\ r.setup = "submitted"
        /\ Go(c, "probe") /\ KeepsRecord
     \/ /\ BoundIdentityLives(r) /\ r.setup = "bound" /\ InviteOpen(r) /\ rec = r
        /\ \E p \in Fresh : SavesMine(c, SetupPasswordStored(c, p), "dispatch", ErrorPhase(c))
  /\ OnlyWrites

\* The dispatch is counted whether or not it reaches the product.
DispatchSetup(c) ==
  /\ In(c, "dispatch")
  /\ setups' = IF setups < MaxDelayed + 2 THEN setups + 1 ELSE setups
  /\ Go(c, "post")
  /\ UNCHANGED <<account, erased, late>> /\ KeepsRegistry

PostSetup(c) ==
  /\ In(c, "post")
  /\ SendsOn(c, [what |-> "setup", password |-> call[c].mine.secret], "probe", ErrorPhase(c))

-----------------------------------------------------------------------------
(* provision(): is there an account, and does it take the stored login?     *)

\* A product that has not caught up rejects a valid login as well.
Probe(c) ==
  LET r == call[c].mine IN
  /\ In(c, "probe") /\ r.totp # NoSeed
  /\ \/ IsManaged(r) /\ Go(c, "verified")
     \/ Fail(c)
     \/ r.status # "ready" /\ Go(c, "login")
     \/ r.status = "ready" /\ Go(c, "create")
     \/ r.status = "ready" /\ call[c].role = "advice-seeker" /\ Go(c, "reactivate")
  /\ OnlyMoves

Login(c) ==
  LET r == call[c].mine IN
  /\ In(c, "login") \/ (In(c, "probe") /\ r.totp = NoSeed)
  /\ \/ LogsIn(r) /\ Go(c, IF call[c].kind = "replace" THEN "verified" ELSE "seed")
     \/ Go(c, "create")
     \/ Fail(c)
  /\ OnlyMoves

Reactivate(c) ==
  /\ In(c, "reactivate")
  /\ SendsOn(c, [what |-> "reactivate", password |-> call[c].mine.secret], "verify", ErrorPhase(c))

\* "A rejected login does not prove that a retained incomplete account is
\* absent": such a record is not sent for creation again.
MaySend(c) == ~call[c].existing

CreateAccount(c) ==
  LET sent == [call[c] EXCEPT !.started = TRUE] IN
  /\ In(c, "create") /\ MaySend(c)
  /\ Sends(c, [what |-> "create", role |-> call[c].role, password |-> call[c].mine.secret],
           [sent EXCEPT !.phase = "confirm", !.created = TRUE],
           [sent EXCEPT !.phase = ErrorPhase(c)])

\* An error before the dispatch, or a conflict: no account was made.
CreateRefused(c) == In(c, "create") /\ Fail(c) /\ OnlyMoves

\* Logging in to the new account, or binding the setup it demands.
Confirm(c) ==
  LET r == call[c].mine IN
  /\ In(c, "confirm")
  /\ \/ /\ AcceptsPassword(r) /\ account.seed \in {NoSeed, r.totp}
        /\ Go(c, "seed") /\ KeepsRecord
     \/ Fail(c) /\ KeepsRecord
     \/ /\ CanSetUp(call[c].role) /\ account # NoAccount /\ account.invite = "sent"
        /\ Bindable(r)
        /\ SavesMine(c, Bound(c), ErrorPhase(c), ErrorPhase(c))
  /\ OnlyWrites

-----------------------------------------------------------------------------
(* provision(): the second factor. *)

\* The seed the product offers is stored before the product is told to use it.
StoreSeed(c) ==
  LET mine(s) == [call[c].mine EXCEPT !.totp = s, !.stamp = c,
                    !.status = IF call[c].kind \in {"setup", "operator"}
                                 THEN @ ELSE "pending"]
  IN
  /\ In(c, "seed") /\ call[c].mine.totp = NoSeed
  /\ \/ Fail(c) /\ KeepsRecord
     \/ /\ rec.totp = NoSeed
        /\ \E s \in Seeds :
             Saves(c, Enrolled(c, s), [call[c] EXCEPT !.phase = "activate", !.mine = mine(s)],
                   [call[c] EXCEPT !.phase = ErrorPhase(c)])
  /\ OnlyWrites

\* A seed stored by an earlier attempt is used again.
KeepSeed(c) ==
  /\ In(c, "seed") /\ call[c].mine.totp # NoSeed
  /\ Go(c, "activate") \/ Fail(c)
  /\ OnlyMoves

Activate(c) ==
  /\ In(c, "activate")
  /\ SendsOn(c, [what |-> "activate", password |-> call[c].mine.secret, seed |-> call[c].mine.totp],
          "verify", ErrorPhase(c))

Verify(c) ==
  /\ In(c, "verify")
  /\ \/ IsManaged(call[c].mine) /\ Go(c, "verified")
     \/ Fail(c)
  /\ OnlyMoves

-----------------------------------------------------------------------------
(* What the handler makes of the outcome. *)

\* replaceRecord puts the former role and status back, and nothing else.
RestoreRole(c) ==
  LET was == call[c].was IN
  IF InRoleAndStatusOf(call[c].mine)
    THEN SavesOn(c, [rec EXCEPT !.role = was.role, !.status = was.status, !.stamp = was.stamp],
                 "done", "done")
    ELSE Go(c, "done") /\ KeepsRecord

\* updateRecord writes the status, and the seed the request knows of.
WithStatus(c, status) ==
  LET seed == call[c].mine.totp IN
  [rec EXCEPT !.status = status, !.stamp = c, !.totp = IF seed = NoSeed THEN @ ELSE seed]

\* The setup handler takes its own copy for ready before it writes, and so
\* does not mark a record failed whose write to ready went wrong.
RecordReady(c) ==
  /\ In(c, "verified") /\ (call[c].kind = "replace" => call[c].created)
  /\ Saves(c, WithStatus(c, "ready"),
           [call[c] EXCEPT !.phase = IF call[c].kind \in {"provision", "replace"}
                                       THEN "clear" ELSE "done"],
           [call[c] EXCEPT !.phase = ErrorPhase(c),
                           !.mine.status = IF call[c].kind = "setup" THEN "ready" ELSE @])
  /\ OnlyWrites

\* Replacing a role found a live account under the old one.
FoundLive(c) ==
  /\ In(c, "verified") /\ call[c].kind = "replace" /\ ~call[c].created
  /\ RestoreRole(c)
  /\ OnlyWrites

TakeBack(c) ==
  /\ In(c, "failing") /\ call[c].kind = "replace" /\ ~call[c].started
  /\ RestoreRole(c)
  /\ OnlyWrites

\* Mutant of Unchanged: the role alone is compared.
UnchangedRole(c) == rec.role = call[c].mine.role

\* markProvisioningFailed compares the record with the one this request knew.
Unchanged(c) ==
  LET r == call[c].mine IN
  InRoleAndStatusOf(r) /\ rec.totp = r.totp /\ rec.stamp = r.stamp

MarkFailed(c) ==
  /\ In(c, "failing") /\ (call[c].kind = "replace" => call[c].started)
  /\ IF call[c].mine.status # "ready" /\ Unchanged(c)
       THEN SavesOn(c, [rec EXCEPT !.status = "failed", !.stamp = c], "done", "done")
       ELSE Go(c, "done") /\ KeepsRecord
  /\ OnlyWrites

ClearMarker(c) ==
  /\ In(c, "clear")
  /\ marker' = "none" /\ Go(c, "done")
  /\ UNCHANGED <<lock, record>> /\ KeepsProduct

-----------------------------------------------------------------------------
(* Deleting an administrator. *)

SeenAdmin(c) == account # NoAccount /\ IsAdmin(account.role)

Preview(c) ==
  /\ In(c, "preview")
  /\ \/ Go(c, "done")
     \/ ~SeenAdmin(c) /\ Go(c, "deleted")
     \/ SeenAdmin(c) /\ account.role = call[c].mine.role /\ Go(c, "mark")
  /\ OnlyMoves

\* Mutant of MarkPending: the marker is left to MarkDeleted.
MarkedLater(c) == In(c, "mark") /\ Go(c, "erase") /\ OnlyMoves

MarkPending(c) ==
  /\ In(c, "mark")
  /\ marker' = "pending" /\ Go(c, "erase")
  /\ UNCHANGED <<lock, record>> /\ KeepsProduct

Erase(c) ==
  In(c, "erase") /\ SendsOn(c, [what |-> "erase"], "deleted", "done")

MarkDeleted(c) ==
  /\ In(c, "deleted")
  /\ marker' = "deleted" /\ Go(c, "fail-record")
  /\ UNCHANGED <<lock, record>> /\ KeepsProduct

RecordDeleted(c) ==
  /\ In(c, "fail-record")
  /\ SavesOn(c, WithStatus(c, "failed"), "done", "done")
  /\ OnlyWrites

-----------------------------------------------------------------------------
(* The end of a request, and what happens around it. *)

Release(c) ==
  /\ In(c, "done")
  /\ lock' = IF lock = c THEN Nobody ELSE lock
  /\ call' = [call EXCEPT ![c] = Idle]
  /\ UNCHANGED <<record, marker>> /\ KeepsProduct

\* The process of a request ends; its lock directory stays.
Crash(c) ==
  /\ ~In(c, "idle")
  /\ lock' = IF lock = c THEN Orphan ELSE lock
  /\ call' = [call EXCEPT ![c] = Idle]
  /\ UNCHANGED <<record, marker>> /\ KeepsProduct

OperatorReview ==
  /\ lock = Orphan /\ lock' = Nobody
  /\ UNCHANGED <<record, marker, call>> /\ KeepsProduct

\* The request is among accountMutations of the web process: the operator's
\* command is another process, and a machine enrols without an entry.
Registered(c) ==
  /\ call[c].kind \in {"provision", "replace", "link", "setup", "delete"}
  /\ ~In(c, "done")

\* Mutant of Clear: a mutation in progress is not looked for.
ClearUnasked == rec # NoRecord /\ ~unlinked /\ marker # "pending"

\* The clean-up of deletion candidates, which takes no lock, may have the
\* record's link.  A single link is reset under the lock as well.
Clear ==
  /\ rec # NoRecord /\ ~unlinked /\ marker # "pending"
  /\ \A c \in Calls : ~Registered(c)

Unlink == Clear /\ unlinked' = TRUE

\* A machine reports the account to the catalogue again.
Relink == unlinked /\ unlinked' = FALSE

\* A person accepts an invitation and chooses password and second factor.
PersonOnboards ==
  /\ account = NoAccount
  /\ account' \in [role: Invitees, password: Fresh, seed: Seeds \cup {NoSeed},
                    invite: {"accepted"}, live: {TRUE}, ours: {FALSE}]
  /\ erased' = "no" /\ UNCHANGED <<late, setups, call>>
  /\ KeepsRegistry

\* The product deletes an advice seeker softly.
ProductSoftDeletes ==
  /\ account # NoAccount /\ account.role = "advice-seeker" /\ account.live
  /\ account' = [account EXCEPT !.live = FALSE]
  /\ UNCHANGED <<erased, late, setups, call>> /\ KeepsRegistry

RegistryStep(c) ==
  \/ CreateRecord(c) \/ ReplaceRole(c) \/ LinkPassword(c) \/ EnrollByHand(c)
  \/ WriteRefused(c) \/ OperatorBinds(c) \/ Stage(c)
  \/ RecordReady(c) \/ FoundLive(c) \/ TakeBack(c) \/ MarkFailed(c) \/ ClearMarker(c)

ProductStep(c) ==
  \/ DispatchSetup(c) \/ PostSetup(c) \/ Probe(c) \/ Login(c) \/ Reactivate(c)
  \/ CreateAccount(c) \/ CreateRefused(c) \/ Confirm(c) \/ StoreSeed(c) \/ KeepSeed(c)
  \/ Activate(c) \/ Verify(c)

DeletionStep(c) ==
  \/ Preview(c) \/ MarkPending(c) \/ Erase(c) \/ MarkDeleted(c) \/ RecordDeleted(c)

AccountStep ==
  \/ \E c \in Calls :
       \/ Request(c) \/ RegistryStep(c) \/ ProductStep(c) \/ DeletionStep(c)
       \/ Release(c) \/ Crash(c)
  \/ WriteLands \/ CarriedOutLate \/ OperatorReview \/ PersonOnboards \/ ProductSoftDeletes

LinkStep ==
  (Unlink \/ Relink) /\ OnlyMoves /\ UNCHANGED call

Next ==
  \/ AccountStep /\ UNCHANGED unlinked
  \/ LinkStep

Spec == Init /\ [][Next]_vars

-----------------------------------------------------------------------------
(* Properties *)

\* Every variable has its type, and a request that has passed the start of
\* its work holds a copy of the record.
TypeOK ==
  /\ lock \in Calls \cup {Nobody, Orphan}
  /\ rec \in RecordType \cup {NoRecord}
  /\ adrift \subseteq WriteType /\ delayed \in Nat
  /\ marker \in {"none", "pending", "deleted"}
  /\ account \in AccountType \cup {NoAccount}
  /\ erased \in {"no", "in time", "late"} /\ late \subseteq ProductRequests
  /\ setups \in Nat
  /\ call \in [Calls -> CallType] /\ unlinked \in BOOLEAN
  /\ \A c \in Calls :
       call[c].phase \notin {"idle", "create-record", "link", "done"} => call[c].mine # NoRecord

\* Whatever a lost answer or a crash cut off, and whatever is still under way:
\* once the hub has set the product account's password or armed its second
\* factor, the registry holds the password and the seed that open it
\* (stageAccountSetup before POST /setup, storeTotp before PUT /users/2fa/app,
\* and every later writer's refusal to touch the two).  It ends where a write
\* that was given up on lands after all, or a late DELETE: nothing in the code
\* guards the two against those.
CredentialsAreKept ==
  delayed = 0 /\ account # NoAccount /\ account.ours =>
    /\ rec # NoRecord /\ rec.secret = account.password
    /\ account.seed # NoSeed => rec.totp = account.seed

\* Over any number of retries and restarts a required setup is sent to the
\* product once for an account, and once more at most for each write that
\* landed late and took back the mark.  ("A lost response must never trigger a
\* second password change, even after restart.")
SetupSentOnce == setups <= 1 + delayed

\* An account the hub erased in answer to its DELETE never shows as ready,
\* whatever record a late write brings back: until another account is verified
\* in its place, its record is not ready or carries the marker, which is set
\* first and cleared last.
ErasedInTimeIsMarked ==
  erased = "in time" /\ rec # NoRecord /\ rec.status = "ready" => marker # "none"

\* What the deletion says of itself: "a timeout or failed verification must
\* never leave retained credentials reporting READY".
ErasedIsMarked ==
  erased # "no" /\ rec # NoRecord /\ rec.status = "ready" => marker # "none"

\* Until a write lands late, a record becomes ready only when the product
\* account accepts exactly its password and second factor, or was softly
\* deleted since it did.  (A role that is put back brings back the status it
\* had.)
ReadyIsVerified ==
  [][ delayed' = 0
        /\ rec' # NoRecord /\ rec'.status = "ready" /\ (rec = NoRecord \/ rec.status # "ready")
        /\ (rec # NoRecord => rec'.role = rec.role)
      => /\ account # NoAccount
         /\ account.password = rec'.secret
         /\ account.seed # NoSeed /\ account.seed = rec'.totp ]_vars

\* A ready record loses that status only to a deletion, for a moment to the
\* replacement of its role, or to a write that lands late: no request marks it
\* failed for an older attempt, not even when the answer that made it ready was
\* lost or what it holds was written late.
ReadyIsNotDowngraded ==
  [][ rec # NoRecord /\ rec.status = "ready" /\ rec'.status # "ready"
      => \/ marker = "deleted"
         \/ rec'.status = "pending" /\ rec'.role # rec.role
         \/ delayed' > delayed ]_vars

\* What an administrator cleared away is not worked on behind his back: while
\* the link is suppressed nothing writes the record but a person's enrolment,
\* a deletion, the setup operator, or a write given up on before, although the
\* clean-up takes no lock and the handler asks for the suppression only once,
\* before its first call.
UnlinkedIsLeftAlone ==
  [][ unlinked =>
        \/ rec' = rec \/ rec' = Aged
        \/ \E c \in Calls : call[c].kind \in {"operator", "enroll", "delete"}
        \/ delayed' > delayed ]_vars

\* What a comment of the handler says of a record's role: a different one
\* "would leave record and ORISO identity in contradiction".
RoleAgreesWhenReady ==
  rec # NoRecord /\ rec.status = "ready" /\ account # NoAccount /\ marker = "none"
    => rec.role = account.role

=============================================================================
