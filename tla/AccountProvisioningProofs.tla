---------------------- MODULE AccountProvisioningProofs ----------------------
(***************************************************************************)
(* Proofs about AccountProvisioning, for any sets of requests, passwords     *)
(* and seeds and any number of late writes and deletions.  ProvisioningInv   *)
(* is inductive; each property of the `provisioning` run follows from it.    *)
(* A part of it holds whatever lands late: how often a setup was sent and    *)
(* how often the mark of it can have been taken back (SentIsNoted), and the  *)
(* marker of an erased account (ErasureIsMarked).  The rest holds until a    *)
(* write or a deletion lands late (OnTime): the copy of a request at work    *)
(* has the record's role, password, seed and setup (Copied), and what the    *)
(* product may still carry out was sent with the password and the seed that  *)
(* the record holds for good (Outstanding).                                  *)
(***************************************************************************)
EXTENDS AccountProvisioning, TLAPS

(* A request by itself: which phases its kind can be in, and what it holds.  *)
GoodCall ==
  {s \in CallType :
    /\ s.phase = "idle" <=> s.kind = "none"
    /\ s.phase \notin {"idle", "create-record", "link", "done"} => s.mine # NoRecord
    /\ s.kind = "replace" => s.was # NoRecord
    /\ s.phase = "link" => s.typed \in Passwords
    /\ s.role = "none" => s.phase \in {"idle", "enroll", "preview", "mark", "erase",
                                       "deleted", "fail-record", "done"}
    /\ s.phase \in {"activate", "reactivate"} => s.mine.totp # NoSeed
    /\ s.phase \in {"dispatch", "post"} => s.mine.setup = "submitted"
    /\ s.phase = "create-record" => s.kind = "provision"
    /\ s.phase \in {"bind", "stage", "dispatch", "post"} => s.kind \in {"setup", "operator"}
    /\ s.phase \in {"preview", "mark", "erase", "deleted", "fail-record"} => s.kind = "delete"
    /\ s.created => s.phase \in {"confirm", "seed", "activate", "verify", "verified",
                                 "clear", "failing", "done"}
    /\ s.kind = "replace" => s.was.role # s.role
    /\ s.phase = "replace" => s.kind = "replace" /\ s.mine.role # s.role
    /\ s.kind = "replace" /\ s.phase \notin {"replace", "done"} =>
         s.mine.role = s.role /\ s.mine.status = "pending"}

Types ==
  /\ lock \in Calls \cup {Nobody, Orphan}
  /\ rec \in RecordType \cup {NoRecord}
  /\ adrift \subseteq WriteType /\ delayed \in Nat
  /\ marker \in {"none", "pending", "deleted"}
  /\ account \in AccountType \cup {NoAccount}
  /\ erased \in {"no", "in time", "late"} /\ late \subseteq ProductRequests
  /\ setups \in Nat
  /\ call \in [Calls -> GoodCall] /\ unlinked \in BOOLEAN

OneAtATime == \A c \in Calls : call[c].phase # "idle" => lock = c

Working(c) == call[c].phase \notin {"idle", "create-record", "link", "failing", "done"}

Agree(r1, r2) ==
  r1.role = r2.role /\ r1.secret = r2.secret /\ r1.totp = r2.totp /\ r1.setup = r2.setup

OnTime == delayed = 0

Copied(c) ==
  /\ call[c].mine # NoRecord => rec # NoRecord
  /\ OnTime /\ Working(c) => Agree(call[c].mine, rec)

(* The product account accepts the password and the seed of the record.      *)
Opens ==
  /\ account # NoAccount /\ account.password = rec.secret
  /\ account.seed # NoSeed /\ account.seed = rec.totp

(* The record says that a setup was sent.                                    *)
Noted == rec # NoRecord /\ rec.setup = "submitted"

(* The request saw an account that its copy of the record opens.             *)
Saw(c) == In(c, "clear") \/ (In(c, "verified") /\ (call[c].kind = "replace" => call[c].created))

(* A request about to send a setup counts as one that was sent.              *)
Dispatches(c) ==
  In(c, "dispatch") => setups <= delayed /\ (Noted \/ setups + 1 <= delayed)

(* What a phase of a request knows of the record, the marker, the account.   *)
Knows(c) ==
  /\ Dispatches(c)
  /\ In(c, "erase") => marker = "pending"
  /\ In(c, "fail-record") => marker = "deleted"
  /\ Saw(c) => erased # "in time"
  /\ OnTime /\ Saw(c) /\ In(c, "verified") => Opens
  /\ unlinked /\ call[c].kind \in {"provision", "replace", "link", "setup"} => In(c, "done")

Fits(q) ==
  /\ q.what = "setup" =>
       rec # NoRecord /\ rec.setup = "submitted" /\ rec.secret = q.password
  /\ q.what = "activate" =>
       rec # NoRecord /\ rec.totp = q.seed /\ rec.secret = q.password
  /\ q.what = "reactivate" =>
       rec # NoRecord /\ rec.totp # NoSeed /\ rec.secret = q.password

Outstanding == OnTime => \A q \in late : Fits(q)

Kept ==
  OnTime /\ account # NoAccount =>
    /\ account.ours =>
         /\ rec # NoRecord /\ rec.secret = account.password
         /\ account.seed # NoSeed => rec.totp = account.seed
         /\ rec.setup = "submitted" \/ rec.totp # NoSeed
    /\ account.invite = "sent" /\ ~account.ours => account.seed = NoSeed

SentIsNoted == setups <= delayed + 1 /\ (~Noted => setups <= delayed)

ErasureIsMarked ==
  /\ account # NoAccount => erased = "no"
  /\ erased = "in time" => marker # "none"

ProvisioningInv ==
  /\ Types /\ OneAtATime
  /\ \A c \in Calls : Copied(c) /\ Knows(c)
  /\ Outstanding /\ Kept /\ SentIsNoted /\ ErasureIsMarked

-----------------------------------------------------------------------------
(* A request that goes on to another phase. *)

LEMMA PhaseMoves ==
  ASSUME NEW s \in GoodCall, NEW p \in Phases,
         s.kind # "none", p # "idle", p # "create-record", p # "link", p # "replace",
         p # "done" => s.mine # NoRecord,
         s.role = "none" => p \in {"enroll", "preview", "mark", "erase", "deleted",
                                    "fail-record", "done"},
         p \in {"activate", "reactivate"} => s.mine.totp # NoSeed,
         p \in {"dispatch", "post"} => s.mine.setup = "submitted",
         p \in {"bind", "stage", "dispatch", "post"} => s.kind \in {"setup", "operator"},
         p \in {"preview", "mark", "erase", "deleted", "fail-record"} => s.kind = "delete",
         s.created => p \in {"confirm", "seed", "activate", "verify", "verified", "clear",
                             "failing", "done"},
         s.kind = "replace" =>
           (p # "done" => s.mine.role = s.role /\ s.mine.status = "pending")
  PROVE  [s EXCEPT !.phase = p] \in GoodCall
BY DEF GoodCall, CallType

LEMMA OnlyThisOne ==
  ASSUME Types, OneAtATime, NEW c \in Calls, ~In(c, "idle"),
         NEW d \in Calls, d # c
  PROVE  In(d, "idle") /\ call[d].kind = "none"
BY DEF Types, OneAtATime, In, GoodCall

(* A request acts: the others are idle, so it is enough to look at it.       *)
LEMMA OthersFollow ==
  ASSUME Types, OneAtATime, \A d \in Calls : Copied(d) /\ Knows(d),
         NEW c \in Calls, ~In(c, "idle"), NEW s \in GoodCall,
         call' = [call EXCEPT ![c] = s], rec # NoRecord => rec' # NoRecord,
         lock' = lock, Copied(c)', Knows(c)'
  PROVE  /\ call' \in [Calls -> GoodCall] /\ OneAtATime'
         /\ \A d \in Calls : Copied(d)' /\ Knows(d)'
<1>1. call \in [Calls -> GoodCall] /\ call' \in [Calls -> GoodCall]
  BY DEF Types
<1>2. OneAtATime'
  BY <1>1 DEF OneAtATime, In
<1>3. ASSUME NEW d \in Calls, d # c PROVE Copied(d)' /\ Knows(d)'
  <2>1. In(d, "idle") /\ call[d].kind = "none" /\ call'[d] = call[d]
    BY <1>1, <1>3, OnlyThisOne
  <2>2. Copied(d)'
    BY <2>1 DEF Copied, Working, In
  <2>3. Knows(d)'
    BY <2>1 DEF Knows, In, Saw, Dispatches
  <2> QED BY <2>2, <2>3
<1> QED
  BY <1>1, <1>2, <1>3

(* What is to be shown of what a request knows after a step.                 *)
LEMMA KnowsAgain ==
  ASSUME ProvisioningInv, NEW c \in Calls, UNCHANGED unlinked,
         call'[c] = call[c] \/ (~In(c, "done") /\ call'[c].kind = call[c].kind),
         In(c, "erase")' => marker' = "pending",
         In(c, "fail-record")' => marker' = "deleted",
         Dispatches(c)', Saw(c)' => erased' # "in time",
         OnTime' /\ Saw(c)' /\ In(c, "verified")' => Opens'
  PROVE  Knows(c)'
<1>1. Knows(c)
  BY DEF ProvisioningInv
<1>2. (unlinked /\ call[c].kind \in {"provision", "replace", "link", "setup"} => In(c, "done"))'
  BY <1>1 DEF Knows, In
<1> QED
  BY <1>2 DEF Knows

(* A call that changes nothing but where its request goes on.                *)
LEMMA Moves ==
  ASSUME ProvisioningInv, NEW c \in Calls, NEW p \in Phases,
         ~In(c, "idle"), ~In(c, "done"),
         [call[c] EXCEPT !.phase = p] \in GoodCall,
         Go(c, p), OnlyMoves, UNCHANGED unlinked,
         p \notin {"failing", "done"} => Working(c),
         p \notin {"create-record", "link", "dispatch", "erase", "fail-record", "clear"},
         p = "verified" /\ (call[c].kind = "replace" => call[c].created) =>
           erased # "in time" /\ (OnTime => Opens)
  PROVE  ProvisioningInv'
<1> DEFINE s == [call[c] EXCEPT !.phase = p]
<1>1. UNCHANGED <<lock, rec, adrift, delayed, marker, account, erased, late, setups, unlinked>>
  BY DEF OnlyMoves, KeepsRegistry, KeepsProduct, record
<1>2. call \in [Calls -> GoodCall] /\ call' = [call EXCEPT ![c] = s]
  BY DEF ProvisioningInv, Types, Go
<1>3. call'[c] = s /\ s.phase = p /\ s.mine = call[c].mine /\ s.kind = call[c].kind
      /\ s.was = call[c].was /\ s.created = call[c].created
  BY <1>2 DEF GoodCall, CallType
<1>4. Copied(c)'
  BY <1>1, <1>3 DEF ProvisioningInv, Copied, Working, OnTime
<1>5. Knows(c)'
  <2>1. Dispatches(c)'
    BY <1>3 DEF Dispatches, In
  <2>2. (OnTime /\ Saw(c) /\ In(c, "verified") => Opens)' /\ (Saw(c) => erased # "in time")'
    BY <1>1, <1>3 DEF In, Opens, Saw, OnTime
  <2> QED
    BY <1>1, <1>3, <2>1, <2>2, KnowsAgain DEF In
<1>6. call' \in [Calls -> GoodCall] /\ OneAtATime' /\ \A d \in Calls : Copied(d)' /\ Knows(d)'
  BY <1>1, <1>2, <1>4, <1>5, OthersFollow DEF ProvisioningInv
<1>7. Types'
  BY <1>1, <1>6 DEF ProvisioningInv, Types
<1>8. Outstanding' /\ Kept' /\ SentIsNoted' /\ ErasureIsMarked'
  BY <1>1 DEF ProvisioningInv, Outstanding, Fits, Kept, SentIsNoted, Noted, ErasureIsMarked, OnTime
<1> QED
  BY <1>6, <1>7, <1>8 DEF ProvisioningInv

-----------------------------------------------------------------------------
(* Writes to the registry. *)

(* What a write may do to a record: a submitted setup stays so; and, while   *)
(* nothing has landed late, once the setup is submitted or the seed stored   *)
(* neither these nor the password change again.                              *)
Extending(new) ==
  rec # NoRecord =>
    /\ new # NoRecord
    /\ rec.setup = "submitted" => new.setup = "submitted"
    /\ OnTime =>
         /\ rec.totp # NoSeed => new.totp = rec.totp
         /\ rec.setup = "submitted" \/ rec.totp # NoSeed => new.secret = rec.secret

Extends == Extending(rec')

LEMMA ExtensionsKeep ==
  ASSUME ProvisioningInv, Extends, UNCHANGED <<delayed, marker, account, erased, late, setups>>
  PROVE  Outstanding' /\ Kept' /\ SentIsNoted' /\ ErasureIsMarked'
<1>1. Outstanding'
  <2>1. ASSUME OnTime, NEW q \in late PROVE Fits(q)'
    <3>1. q \in ProductRequests /\ Fits(q)
      BY <2>1 DEF ProvisioningInv, Types, Outstanding
    <3>2. q.what = "activate" => q.seed # NoSeed
      BY <3>1, NullsAreDistinct DEF ProductRequests
    <3> QED
      BY <2>1, <3>1, <3>2 DEF Fits, Extends, Extending
  <2> QED BY <2>1 DEF Outstanding, OnTime
<1>2. Kept'
  BY DEF ProvisioningInv, Kept, Extends, Extending, OnTime
<1>3. SentIsNoted' /\ ErasureIsMarked'
  BY DEF ProvisioningInv, SentIsNoted, Noted, ErasureIsMarked, Extends, Extending
<1> QED
  BY <1>1, <1>2, <1>3

LEMMA Writes ==
  ASSUME ProvisioningInv, NEW c \in Calls, ~In(c, "idle"), NEW s \in GoodCall,
         call' = [call EXCEPT ![c] = s], OnlyWrites, UNCHANGED unlinked,
         rec' \in RecordType \cup {NoRecord}, adrift' \subseteq WriteType, Extends,
         Copied(c)', Knows(c)'
  PROVE  ProvisioningInv'
<1>1. UNCHANGED <<lock, delayed, marker, account, erased, late, setups, unlinked>>
  BY DEF OnlyWrites, KeepsProduct
<1>2. Outstanding' /\ Kept' /\ SentIsNoted' /\ ErasureIsMarked'
  BY <1>1, ExtensionsKeep
<1>3. call' \in [Calls -> GoodCall] /\ OneAtATime' /\ \A d \in Calls : Copied(d)' /\ Knows(d)'
  BY <1>1, OthersFollow DEF ProvisioningInv, Extends, Extending
<1>4. Types'
  BY <1>1, <1>3 DEF ProvisioningInv, Types
<1> QED
  BY <1>2, <1>3, <1>4 DEF ProvisioningInv

(* What is given up on is a write.                                           *)
LEMMA AdriftAreWrites ==
  ASSUME Types, NEW c \in Calls, NEW new \in RecordType, NEW after, NEW failed,
         Saves(c, new, after, failed)
  PROVE  adrift' \subseteq WriteType
<1> DEFINE w == [record |-> new, creates |-> rec = NoRecord]
<1>1. w \in WriteType
  <2>1. (rec = NoRecord) \in BOOLEAN
    OBVIOUS
  <2> QED BY <2>1 DEF WriteType
<1> HIDE DEF w
<1>2. adrift \subseteq WriteType
  BY DEF Types
<1>3. \/ adrift' = StillWanted(adrift)
      \/ adrift' \in {adrift} \cup (IF MayDelay THEN {adrift \cup {w}} ELSE {})
  BY DEF Saves, w
<1> QED
  BY <1>1, <1>2, <1>3 DEF StillWanted

LEMMA SavesKeep ==
  ASSUME ProvisioningInv, NEW c \in Calls, ~In(c, "idle"), ~In(c, "done"),
         OnlyWrites, UNCHANGED unlinked,
         NEW new \in RecordType, Extending(new),
         NEW after \in GoodCall, NEW failed \in GoodCall, Saves(c, new, after, failed),
         \A s \in {after, failed} : s.kind = call[c].kind,
         failed.phase \in {"failing", "done"}, failed.mine # NoRecord => rec # NoRecord,
         after.phase \in {"probe", "stage", "dispatch", "activate", "clear", "failing", "done"},
         after.phase \notin {"failing", "done"} /\ OnTime => Agree(after.mine, new),
         after.phase = "dispatch" => setups <= delayed /\ new.setup = "submitted",
         after.phase = "clear" => erased # "in time"
  PROVE  ProvisioningInv'
<1>1. UNCHANGED <<lock, delayed, marker, account, erased, late, setups, unlinked>>
  BY DEF OnlyWrites, KeepsProduct
<1>2. rec \in RecordType \cup {NoRecord} /\ call \in [Calls -> GoodCall] /\ Types
  BY DEF ProvisioningInv, Types
<1>3. adrift' \subseteq WriteType
  BY <1>2, AdriftAreWrites
<1>4. CASE rec' = new /\ call' = [call EXCEPT ![c] = after]
  <2>1. call'[c] = after /\ rec' # NoRecord
    BY <1>2, <1>4, AbsenceIsDistinct
  <2>2. Copied(c)'
    BY <1>1, <1>4, <2>1 DEF Copied, Working, OnTime
  <2>3. Knows(c)'
    <3>1. Dispatches(c)'
      BY <1>1, <1>4, <2>1 DEF Dispatches, In, Noted
    <3>2. (OnTime /\ Saw(c) /\ In(c, "verified") => Opens)' /\ (Saw(c) => erased # "in time")'
      BY <1>1, <2>1 DEF In, Saw
    <3> QED
      BY <1>1, <2>1, <3>1, <3>2, KnowsAgain DEF In
  <2> QED
    BY <1>3, <1>4, <2>2, <2>3, Writes DEF Extends
<1>5. CASE rec' \in {rec, new} /\ call' = [call EXCEPT ![c] = failed]
  <2>1. call'[c] = failed /\ (rec # NoRecord => rec' # NoRecord)
    BY <1>2, <1>5, AbsenceIsDistinct
  <2>2. Copied(c)'
    BY <1>5, <2>1 DEF Copied, Working
  <2>3. Knows(c)'
    <3>1. Dispatches(c)' /\ ~Saw(c)'
      BY <2>1 DEF Dispatches, In, Saw
    <3> QED
      BY <1>1, <2>1, <3>1, KnowsAgain DEF In
  <2>4. Extends
    BY <1>5 DEF Extends, Extending
  <2> QED
    BY <1>2, <1>3, <1>5, <2>2, <2>3, <2>4, Writes
<1> QED
  BY <1>4, <1>5 DEF Saves

LEMMA LandingCounts ==
  ASSUME NEW c, Dispatches(c), delayed \in Nat, setups \in Nat, delayed' = delayed + 1,
         UNCHANGED <<setups, call>>
  PROVE  Dispatches(c)'
<1>1. In(c, "dispatch")' => setups' <= delayed
  BY DEF Dispatches, In
<1> QED
  BY <1>1 DEF Dispatches

(* A write that was given up lands.  It may take back the mark of a setup    *)
(* that was sent: that is what `delayed` then allows for.                    *)
LEMMA LandingKeeps ==
  ASSUME ProvisioningInv, WriteLands, UNCHANGED unlinked
  PROVE  ProvisioningInv'
<1>1. PICK w \in adrift : rec' = w.record /\ adrift' = StillWanted(adrift \ {w})
  BY DEF WriteLands
<1>2. /\ delayed' = delayed + 1
      /\ UNCHANGED <<lock, marker, account, erased, late, setups, call, unlinked>>
  BY DEF WriteLands
<1>3. rec' \in RecordType /\ rec' # NoRecord /\ adrift' \subseteq WriteType
  BY <1>1, AbsenceIsDistinct DEF ProvisioningInv, Types, WriteType, StillWanted
<1>4. delayed \in Nat /\ setups \in Nat
  BY DEF ProvisioningInv, Types
<1>5. delayed' \in Nat /\ ~OnTime'
  BY <1>2, <1>4 DEF OnTime
<1>6. Types' /\ OneAtATime'
  BY <1>2, <1>3, <1>5 DEF ProvisioningInv, Types, OneAtATime
<1>7. ASSUME NEW d \in Calls PROVE Copied(d)' /\ Knows(d)'
  <2>1. Copied(d)'
    BY <1>3, <1>5 DEF Copied
  <2>2. Knows(d)
    BY DEF ProvisioningInv
  <2>3. Dispatches(d)'
    BY <1>2, <1>4, <2>2, LandingCounts DEF Knows
  <2>4. Knows(d)'
    BY <1>2, <1>5, <2>2, <2>3, KnowsAgain DEF Knows, In, Saw
  <2> QED BY <2>1, <2>4
<1>8. Outstanding' /\ Kept' /\ ErasureIsMarked'
  BY <1>2, <1>5 DEF ProvisioningInv, Outstanding, Kept, ErasureIsMarked
<1>9. SentIsNoted'
  BY <1>2, <1>4 DEF ProvisioningInv, SentIsNoted
<1> QED
  BY <1>6, <1>7, <1>8, <1>9 DEF ProvisioningInv

-----------------------------------------------------------------------------
(* Requests to the product. *)

LEMMA MoreLand ==
  ASSUME delayed \in Nat, delayed' = delayed \/ delayed' = delayed + 1
  PROVE  delayed' \in Nat /\ delayed' >= delayed /\ (OnTime' => OnTime)
<1>1. CASE delayed' = delayed
  BY <1>1 DEF OnTime
<1>2. CASE delayed' = delayed + 1
  BY <1>2 DEF OnTime
<1> QED BY <1>1, <1>2

LEMMA NoneSent ==
  ASSUME delayed' \in Nat, setups' = 0 PROVE SentIsNoted'
<1>1. \A d \in Nat : 0 <= d /\ 0 <= d + 1
  OBVIOUS
<1> QED
  BY <1>1, Zenon DEF SentIsNoted

LEMMA MoreMayHaveLanded ==
  ASSUME SentIsNoted, delayed \in Nat, delayed' = delayed \/ delayed' = delayed + 1, setups \in Nat,
         setups' = setups, UNCHANGED rec
  PROVE  SentIsNoted'
BY DEF SentIsNoted, Noted

LEMMA ProductAnswers ==
  ASSUME ProvisioningInv, NEW q \in ProductRequests, NEW when \in {"in time", "late"},
         CarriesOut(q, when), UNCHANGED <<rec, marker>>,
         delayed' = delayed \/ delayed' = delayed + 1, OnTime => Fits(q),
         q.what = "erase" /\ when = "in time" => marker = "pending",
         NEW qs \in SUBSET ProductRequests, OnTime => \A x \in qs : Fits(x),
         late' = StillMeant(qs)
  PROVE  /\ account' \in AccountType \cup {NoAccount} /\ erased' \in {"no", "in time", "late"}
         /\ setups' \in Nat /\ late' \subseteq ProductRequests
         /\ Outstanding' /\ Kept' /\ SentIsNoted' /\ ErasureIsMarked'
         /\ OnTime /\ Opens /\ q.what # "erase" => Opens'
         /\ (setups' = 0 \/ setups' = setups) /\ delayed' >= delayed
         /\ erased' = "in time" => q.what = "erase" /\ when = "in time"
<1> USE DEF ProvisioningInv
<1>0. /\ rec \in RecordType \cup {NoRecord} /\ account \in AccountType \cup {NoAccount}
      /\ setups \in Nat /\ erased \in {"no", "in time", "late"} /\ delayed \in Nat
  BY DEF Types
<1>00. delayed' \in Nat /\ delayed' >= delayed /\ (OnTime' => OnTime)
  BY <1>0, MoreLand
<1>1. late' \subseteq qs /\ Outstanding'
  BY <1>00 DEF StillMeant, Outstanding, Fits
<1>2. CASE Creates(q)
  <2>1. account = NoAccount /\ account' \in NewAccounts(q) /\ erased' = "no" /\ setups' = 0
    BY <1>2 DEF Creates
  <2>2. q.role \in Roles /\ q.password \in Passwords
    BY <1>2 DEF Creates, ProductRequests
  <2>3. account' \in AccountType /\ ~account'.ours /\ account'.seed = NoSeed
    BY <2>1, <2>2 DEF NewAccounts, AccountType
  <2>4. Kept' /\ ErasureIsMarked'
    BY <2>1, <2>3 DEF Kept, ErasureIsMarked
  <2>6. SentIsNoted'
    BY <1>0, <1>00, <2>1, NoneSent
  <2>5. ~Opens /\ setups' \in Nat /\ late' \subseteq ProductRequests
    BY <1>1, <2>1, NullsAreDistinct DEF Opens
  <2> QED
    BY <1>0, <1>00, <1>1, <2>1, <2>3, <2>4, <2>5, <2>6
<1>3. CASE SetsUp(q)
  <2>1. /\ account \in AccountType /\ account.invite = "sent" /\ UNCHANGED <<erased, setups>>
        /\ account' = [account EXCEPT !.password = q.password, !.invite = "accepted", !.ours = TRUE]
        /\ account # NoAccount
    BY <1>0, <1>3 DEF SetsUp
  <2>2. /\ q.password \in Passwords /\ q.what # "erase"
        /\ OnTime => rec # NoRecord /\ rec.setup = "submitted" /\ rec.secret = q.password
    BY <1>3 DEF SetsUp, ProductRequests, Fits
  <2>3. account' \in AccountType /\ account'.ours /\ account'.password = q.password
        /\ account'.seed = account.seed
    BY <2>1, <2>2 DEF AccountType
  <2>4. Kept'
    BY <1>00, <2>1, <2>2, <2>3 DEF Kept
  <2>5. ErasureIsMarked' /\ (OnTime /\ Opens => Opens')
    BY <2>1, <2>2, <2>3, AbsenceIsDistinct DEF ErasureIsMarked, Opens
  <2>6. SentIsNoted'
    BY <1>0, <1>00, <2>1, MoreMayHaveLanded
  <2> QED
    BY <1>0, <1>00, <1>1, <2>1, <2>2, <2>3, <2>4, <2>5, <2>6 DEF ErasureIsMarked
<1>4. CASE Activates(q)
  <2>1. /\ account \in AccountType /\ UNCHANGED <<erased, setups>> /\ account # NoAccount
        /\ account.password = q.password
        /\ account' = [account EXCEPT !.seed = q.seed, !.ours = TRUE]
    BY <1>0, <1>4 DEF Activates
  <2>2. /\ q.seed \in Seeds /\ q.seed # NoSeed /\ q.what # "erase"
        /\ OnTime => rec # NoRecord /\ rec.totp = q.seed /\ rec.secret = q.password
    BY <1>4, NullsAreDistinct DEF Activates, ProductRequests, Fits
  <2>3. account' \in AccountType /\ account'.ours /\ account'.password = q.password
        /\ account'.seed = q.seed
    BY <2>1, <2>2 DEF AccountType
  <2>4. Kept'
    BY <1>00, <2>1, <2>2, <2>3 DEF Kept
  <2>5. ErasureIsMarked' /\ (OnTime /\ Opens => Opens')
    BY <2>1, <2>2, <2>3, AbsenceIsDistinct DEF ErasureIsMarked, Opens
  <2>6. SentIsNoted'
    BY <1>0, <1>00, <2>1, MoreMayHaveLanded
  <2> QED
    BY <1>0, <1>00, <1>1, <2>1, <2>2, <2>3, <2>4, <2>5, <2>6 DEF ErasureIsMarked
<1>5. CASE Reactivates(q)
  <2>1. /\ account \in AccountType /\ UNCHANGED <<erased, setups>> /\ account # NoAccount
        /\ account' = [account EXCEPT !.live = TRUE, !.password = q.password]
    BY <1>0, <1>5 DEF Reactivates
  <2>2. /\ q.password \in Passwords /\ q.what # "erase"
        /\ OnTime => rec # NoRecord /\ rec.secret = q.password
    BY <1>5 DEF Reactivates, ProductRequests, Fits
  <2>3. account' \in AccountType /\ account'.ours = account.ours /\ account'.password = q.password
        /\ account'.seed = account.seed /\ account'.invite = account.invite
    BY <2>1, <2>2 DEF AccountType
  <2>4. Kept'
    BY <1>00, <2>1, <2>2, <2>3 DEF Kept
  <2>5. ErasureIsMarked' /\ (OnTime /\ Opens => Opens')
    BY <2>1, <2>2, <2>3, AbsenceIsDistinct DEF ErasureIsMarked, Opens
  <2>6. SentIsNoted'
    BY <1>0, <1>00, <2>1, MoreMayHaveLanded
  <2> QED
    BY <1>0, <1>00, <1>1, <2>1, <2>2, <2>3, <2>4, <2>5, <2>6 DEF ErasureIsMarked
<1>6. CASE Erases(q, when)
  <2>1. account' = NoAccount /\ erased' = when /\ setups' = setups /\ q.what = "erase"
    BY <1>6 DEF Erases
  <2>2. Kept' /\ ErasureIsMarked'
    BY <2>1 DEF Kept, ErasureIsMarked
  <2>3. SentIsNoted'
    BY <1>0, <1>00, <2>1, MoreMayHaveLanded
  <2> QED
    BY <1>0, <1>00, <1>1, <2>1, <2>2, <2>3
<1> QED
  BY <1>2, <1>3, <1>4, <1>5, <1>6 DEF CarriesOut

(* A request is sent to the product, and may be carried out then or later.   *)
LEMMA SendsKeep ==
  ASSUME ProvisioningInv, NEW c \in Calls, Working(c), UNCHANGED unlinked,
         NEW q \in ProductRequests, OnTime => Fits(q),
         q.what = "erase" => marker = "pending",
         NEW s1 \in GoodCall, NEW s2 \in GoodCall, Sends(c, q, s1, s2),
         \A s \in {s1, s2} :
           /\ s.phase \in {"probe", "verify", "confirm", "deleted", "failing", "done"}
           /\ s.kind = call[c].kind /\ s.mine = call[c].mine
  PROVE  ProvisioningInv'
<1>1. UNCHANGED <<lock, rec, adrift, delayed, marker, unlinked>>
  BY DEF Sends, KeepsRegistry, record
<1>2. PICK s \in {s1, s2} : call' = [call EXCEPT ![c] = s]
  BY DEF Sends
<1>3. late \subseteq ProductRequests /\ (OnTime => \A x \in late : Fits(x)) /\ delayed \in Nat
  BY DEF ProvisioningInv, Types, Outstanding
<1>4. /\ account' \in AccountType \cup {NoAccount} /\ erased' \in {"no", "in time", "late"}
      /\ setups' \in Nat /\ late' \subseteq ProductRequests
      /\ Outstanding' /\ Kept' /\ SentIsNoted' /\ ErasureIsMarked'
  <2>1. CASE CarriesOut(q, "in time") /\ late' = StillMeant(late)
    BY <1>1, <1>3, <2>1, ProductAnswers
  <2>2. CASE /\ late' \in {late} \cup (IF MayBeLate(q) THEN {late \cup {q}} ELSE {})
             /\ UNCHANGED <<account, erased, setups>>
    <3>1. late' \subseteq ProductRequests /\ (OnTime => \A x \in late' : Fits(x))
      BY <1>3, <2>2
    <3>2. Outstanding'
      BY <1>1, <3>1 DEF Outstanding, Fits, OnTime
    <3>3. Kept' /\ SentIsNoted' /\ ErasureIsMarked'
      BY <1>1, <2>2 DEF ProvisioningInv, Kept, SentIsNoted, Noted, ErasureIsMarked, OnTime
    <3> QED
      BY <2>2, <3>1, <3>2, <3>3 DEF ProvisioningInv, Types
  <2> QED
    BY <2>1, <2>2 DEF Sends
<1>5. call'[c] = s /\ s \in GoodCall
  BY <1>2 DEF ProvisioningInv, Types
<1>6. Copied(c)'
  BY <1>1, <1>5 DEF ProvisioningInv, Copied, Working, OnTime
<1>7. Knows(c)'
  <2>1. Dispatches(c)' /\ ~Saw(c)'
    BY <1>5 DEF Dispatches, In, Saw
  <2> QED
    BY <1>1, <1>5, <2>1, KnowsAgain DEF In, Working
<1>8. call' \in [Calls -> GoodCall] /\ OneAtATime' /\ \A d \in Calls : Copied(d)' /\ Knows(d)'
  BY <1>1, <1>2, <1>5, <1>6, <1>7, OthersFollow DEF ProvisioningInv, Working, In
<1> QED
  BY <1>1, <1>4, <1>8 DEF ProvisioningInv, Types

LEMMA StillCounts ==
  ASSUME NEW c, Dispatches(c), delayed \in Nat, setups \in Nat,
         delayed' = delayed \/ delayed' = delayed + 1, setups' = 0 \/ setups' = setups,
         UNCHANGED <<rec, call>>
  PROVE  Dispatches(c)'
<1>1. In(c, "dispatch")' => setups <= delayed /\ (Noted \/ setups + 1 <= delayed)
  BY DEF Dispatches, In
<1>2. Noted' <=> Noted
  BY DEF Noted
<1> QED
  BY <1>1, <1>2 DEF Dispatches

LEMMA LateKeeps ==
  ASSUME ProvisioningInv, CarriedOutLate, UNCHANGED unlinked
  PROVE  ProvisioningInv'
<1>1. UNCHANGED <<lock, rec, adrift, marker, unlinked, call>>
  BY DEF CarriedOutLate
<1>2. PICK q \in late :
        /\ CarriesOut(q, "late") /\ late' = StillMeant(late \ {q})
        /\ delayed' = IF q.what = "erase" THEN delayed + 1 ELSE delayed
  BY DEF CarriedOutLate
<1>3. /\ q \in ProductRequests /\ late \subseteq ProductRequests
      /\ delayed \in Nat /\ setups \in Nat
      /\ OnTime => Fits(q) /\ \A x \in late : Fits(x)
  BY DEF ProvisioningInv, Types, Outstanding
<1>4. (delayed' = delayed \/ delayed' = delayed + 1) /\ delayed' \in Nat /\ delayed' >= delayed
      /\ (OnTime' => OnTime /\ q.what # "erase")
  BY <1>2, <1>3 DEF OnTime
<1>5. /\ account' \in AccountType \cup {NoAccount} /\ erased' \in {"no", "in time", "late"}
      /\ setups' \in Nat /\ late' \subseteq ProductRequests
      /\ Outstanding' /\ Kept' /\ SentIsNoted' /\ ErasureIsMarked'
      /\ (OnTime /\ Opens /\ q.what # "erase" => Opens')
      /\ (setups' = 0 \/ setups' = setups) /\ delayed' >= delayed /\ erased' # "in time"
  BY <1>1, <1>2, <1>3, <1>4, ProductAnswers
<1>6. OneAtATime' /\ \A d \in Calls : Copied(d)' /\ Knows(d)'
  <2>1. OneAtATime' /\ \A d \in Calls : Copied(d)'
    BY <1>1, <1>4 DEF ProvisioningInv, OneAtATime, Copied, Working
  <2>2. ASSUME NEW d \in Calls PROVE Knows(d)'
    <3>1. Knows(d)
      BY DEF ProvisioningInv
    <3>2. Dispatches(d)'
      BY <1>1, <1>3, <1>4, <1>5, <3>1, StillCounts DEF Knows
    <3>3. OnTime' /\ Saw(d)' /\ In(d, "verified")' => Opens'
      BY <1>1, <1>4, <1>5, <3>1 DEF Knows, In, Saw
    <3> QED
      BY <1>1, <1>5, <3>1, <3>2, <3>3, KnowsAgain DEF Knows, In
  <2> QED BY <2>1, <2>2
<1> QED
  BY <1>1, <1>4, <1>5, <1>6 DEF ProvisioningInv, Types

-----------------------------------------------------------------------------
(* Requests begin. *)

LEMMA AgedIsAlike ==
  ASSUME Types, rec # NoRecord
  PROVE  /\ Aged \in RecordType /\ Aged # NoRecord /\ Agree(Aged, rec)
         /\ Aged.status = rec.status
BY AbsenceIsDistinct DEF Types, Aged, RecordType, Agree

LEMMA AgedAreWrites ==
  ASSUME Types PROVE AgedWrites \subseteq WriteType
<1>1. ASSUME NEW w \in WriteType PROVE [w EXCEPT !.record.stamp = "adrift"] \in WriteType
  <2>1. [w.record EXCEPT !.stamp = "adrift"] \in RecordType
    BY DEF WriteType, RecordType
  <2> QED BY <2>1 DEF WriteType
<1> QED
  BY <1>1 DEF Types, AgedWrites

LEMMA EntersKeep ==
  ASSUME ProvisioningInv, NEW c \in Calls, NEW s \in GoodCall, Enters(c, s),
         UNCHANGED unlinked,
         s.mine = Aged,
         s.phase \in {"create-record", "replace", "link", "enroll", "bind", "stage", "probe",
                      "preview"},
         s.phase \notin {"create-record", "link"} => rec # NoRecord,
         s.kind \in {"provision", "replace", "link", "setup"} => ~unlinked
  PROVE  ProvisioningInv'
<1>1. /\ UNCHANGED <<delayed, marker, account, erased, late, setups, unlinked>>
      /\ rec' = Aged /\ adrift' = AgedWrites
      /\ lock = Nobody /\ lock' = c /\ call' = [call EXCEPT ![c] = s]
  BY DEF Enters, TakesLock, KeepsProduct
<1>2. \A d \in Calls : In(d, "idle") /\ call[d].kind = "none"
  BY <1>1, NullsAreDistinct DEF ProvisioningInv, OneAtATime, In, Types, GoodCall
<1>3. call \in [Calls -> GoodCall] /\ call' \in [Calls -> GoodCall] /\ call'[c] = s
  BY <1>1 DEF ProvisioningInv, Types
<1>4. /\ rec = NoRecord => rec' = NoRecord
      /\ rec # NoRecord => rec' \in RecordType /\ rec' # NoRecord /\ Agree(rec', rec)
  BY <1>1, AgedIsAlike DEF ProvisioningInv, Aged
<1>5. Outstanding' /\ Kept' /\ SentIsNoted' /\ ErasureIsMarked'
  BY <1>1, <1>4, ExtensionsKeep DEF Extends, Extending, Agree
<1>6. adrift' \subseteq WriteType
  BY <1>1, AgedAreWrites DEF ProvisioningInv
<1>7. Types' /\ OneAtATime'
  BY <1>1, <1>2, <1>3, <1>4, <1>6 DEF ProvisioningInv, Types, OneAtATime, In
<1>8. Copied(c)'
  BY <1>1, <1>3, <1>4 DEF Copied, Working, Agree
<1>9. Knows(c)'
  <2>1. Dispatches(c)' /\ ~Saw(c)' /\ ~In(c, "erase")' /\ ~In(c, "fail-record")'
    BY <1>3 DEF Dispatches, Saw, In
  <2>2. (unlinked /\ call[c].kind \in {"provision", "replace", "link", "setup"} => In(c, "done"))'
    BY <1>1, <1>3
  <2> QED
    BY <2>1, <2>2 DEF Knows
<1>10. ASSUME NEW d \in Calls, d # c PROVE Copied(d)' /\ Knows(d)'
  <2>1. In(d, "idle") /\ call[d].kind = "none" /\ call'[d] = call[d]
    BY <1>1, <1>2, <1>3, <1>10
  <2>2. Copied(d)'
    BY <1>4, <2>1 DEF ProvisioningInv, Copied, Working, In
  <2>3. Knows(d)'
    BY <2>1 DEF Knows, Dispatches, Saw, In
  <2> QED BY <2>2, <2>3
<1> QED
  BY <1>5, <1>7, <1>8, <1>9, <1>10 DEF ProvisioningInv

LEMMA IdleIsGood == Idle \in GoodCall
BY DEF Idle, GoodCall, CallType, Phases

LEMMA RequestKeeps ==
  ASSUME ProvisioningInv, NEW c \in Calls, Request(c), UNCHANGED unlinked
  PROVE  ProvisioningInv'
<1> USE DEF Phases
<1>1. /\ rec \in RecordType \cup {NoRecord}
      /\ rec # NoRecord => /\ Aged \in RecordType /\ Aged # NoRecord
                           /\ Aged.totp = rec.totp /\ Aged.role = rec.role /\ Aged.setup = rec.setup
                           /\ Aged.status = rec.status
      /\ rec = NoRecord => Aged = NoRecord
      /\ "none" \notin Roles
  BY AgedIsAlike, RolesAreKnown DEF ProvisioningInv, Types, Agree, Aged, KnownRoles
<1>2. ASSUME NEW role \in Roles, RequestProvision(c, role) PROVE ProvisioningInv'
  <2>1. CASE rec = NoRecord
    <3> DEFINE s == [Idle EXCEPT !.kind = "provision", !.role = role, !.phase = "create-record"]
    <3>1. s \in GoodCall
      BY <1>1 DEF Idle, GoodCall, CallType
    <3>2. s.mine = Aged /\ s.phase = "create-record" /\ s.kind = "provision"
      BY <1>1, <2>1 DEF Idle
    <3>3. Enters(c, s) /\ ~unlinked
      BY <1>2, <2>1 DEF RequestProvision
    <3> HIDE DEF s
    <3> QED
      BY <2>1, <3>1, <3>2, <3>3, EntersKeep
  <2>2. CASE rec # NoRecord
    <3> DEFINE s == [Idle EXCEPT !.kind = "provision", !.role = role, !.phase = "probe",
                            !.mine = Aged, !.existing = rec.status # "ready"]
    <3>1. s \in GoodCall
      BY <1>1, <2>2 DEF Idle, GoodCall, CallType
    <3>2. s.mine = Aged /\ s.phase = "probe" /\ s.kind = "provision"
      BY DEF Idle
    <3>3. Enters(c, s) /\ ~unlinked
      BY <1>2, <2>2 DEF RequestProvision
    <3> HIDE DEF s
    <3> QED
      BY <2>2, <3>1, <3>2, <3>3, EntersKeep
  <2> QED BY <2>1, <2>2
<1>3. ASSUME NEW role \in Roles, RequestReplace(c, role) PROVE ProvisioningInv'
  <2> DEFINE s == [Idle EXCEPT !.kind = "replace", !.role = role, !.phase = "replace",
                          !.mine = Aged, !.was = Aged]
  <2>1. Enters(c, s) /\ ~unlinked /\ rec # NoRecord /\ rec.role # role
    BY <1>3 DEF RequestReplace
  <2>2. s \in GoodCall
    BY <1>1, <2>1 DEF Idle, GoodCall, CallType
  <2>3. s.mine = Aged /\ s.was = Aged /\ s.phase = "replace" /\ s.kind = "replace"
    BY DEF Idle
  <2> HIDE DEF s
  <2> QED
    BY <2>1, <2>2, <2>3, EntersKeep
<1>4. ASSUME NEW role \in Roles, NEW p \in Passwords, RequestLink(c, role, p)
      PROVE  ProvisioningInv'
  <2> DEFINE s == [Idle EXCEPT !.kind = "link", !.role = role, !.phase = "link",
                          !.mine = Aged, !.typed = p]
  <2>1. Enters(c, s) /\ ~unlinked
    BY <1>4 DEF RequestLink
  <2>2. s \in GoodCall
    BY <1>1, <2>1 DEF Idle, GoodCall, CallType
  <2>3. s.mine = Aged /\ s.phase = "link" /\ s.kind = "link"
    BY DEF Idle
  <2> HIDE DEF s
  <2> QED
    BY <2>1, <2>2, <2>3, EntersKeep
<1>5. CASE RequestSetup(c)
  <2> DEFINE s == [Idle EXCEPT !.kind = "setup", !.role = rec.role, !.phase = "stage",
                          !.mine = Aged, !.existing = TRUE]
  <2>1. Enters(c, s) /\ ~unlinked /\ rec # NoRecord /\ rec.status # "ready"
    BY <1>5 DEF RequestSetup
  <2>2. s \in GoodCall
    BY <1>1, <2>1 DEF Idle, GoodCall, CallType, RecordType
  <2>3. s.mine = Aged /\ s.phase = "stage" /\ s.kind = "setup"
    BY DEF Idle
  <2> HIDE DEF s
  <2> QED
    BY <2>1, <2>2, <2>3, EntersKeep
<1>6. CASE RequestOperatorSetup(c)
  <2> DEFINE p == IF rec.setup = "none" THEN "bind" ELSE "stage"
             s == [Idle EXCEPT !.kind = "operator", !.role = rec.role, !.mine = Aged,
                          !.existing = TRUE, !.phase = p]
  <2>1. Enters(c, s) /\ rec # NoRecord /\ rec.status # "ready"
    BY <1>6 DEF RequestOperatorSetup
  <2>2. p \in {"bind", "stage"} /\ (p = "bind" => rec.setup = "none")
    OBVIOUS
  <2> HIDE DEF p
  <2>3. rec.role \in Roles
    BY <1>1, <2>1 DEF RecordType
  <2>4. s \in GoodCall
    BY <1>1, <2>1, <2>2, <2>3 DEF Idle, GoodCall, CallType
  <2>5. s.mine = Aged /\ s.phase \in {"bind", "stage"} /\ s.kind = "operator"
    BY <2>2 DEF Idle
  <2> HIDE DEF s
  <2> QED
    BY <2>1, <2>4, <2>5, EntersKeep
<1>7. CASE RequestEnroll(c)
  <2> DEFINE s == [Idle EXCEPT !.kind = "enroll", !.phase = "enroll", !.mine = Aged]
  <2>1. Enters(c, s) /\ rec # NoRecord /\ rec.totp = NoSeed
    BY <1>7 DEF RequestEnroll
  <2>2. s \in GoodCall
    BY <1>1, <2>1 DEF Idle, GoodCall, CallType
  <2>3. s.mine = Aged /\ s.phase = "enroll" /\ s.kind = "enroll"
    BY DEF Idle
  <2> HIDE DEF s
  <2> QED
    BY <2>1, <2>2, <2>3, EntersKeep
<1>8. CASE RequestDelete(c)
  <2> DEFINE s == [Idle EXCEPT !.kind = "delete", !.phase = "preview", !.mine = Aged]
  <2>1. Enters(c, s) /\ rec # NoRecord
    BY <1>8 DEF RequestDelete
  <2>2. s \in GoodCall
    BY <1>1, <2>1 DEF Idle, GoodCall, CallType
  <2>3. s.mine = Aged /\ s.phase = "preview" /\ s.kind = "delete"
    BY DEF Idle
  <2> HIDE DEF s
  <2> QED
    BY <2>1, <2>2, <2>3, EntersKeep
<1> QED
  BY <1>2, <1>3, <1>4, <1>5, <1>6, <1>7, <1>8 DEF Request

-----------------------------------------------------------------------------
(* The steps that write to the registry. *)

LEMMA SavesMineKeep ==
  ASSUME ProvisioningInv, NEW c \in Calls, ~In(c, "idle"), ~In(c, "done"),
         OnlyWrites, UNCHANGED unlinked,
         NEW new \in RecordType, Extending(new),
         NEW next \in {"probe", "stage", "dispatch", "failing", "done"},
         NEW onError \in {"failing", "done"},
         SavesMine(c, new, next, onError),
         next # "done" \/ onError # "done" => call[c].role # "none",
         next \in {"probe", "stage", "dispatch"} => ~call[c].created,
         next # "done" /\ call[c].kind = "replace" =>
           new.role = call[c].role /\ new.status = "pending",
         onError = "failing" => Working(c) /\ ~In(c, "replace"),
         next = "dispatch" => setups <= delayed /\ new.setup = "submitted",
         next \in {"stage", "dispatch"} => call[c].kind \in {"setup", "operator"}
  PROVE  ProvisioningInv'
<1> DEFINE after  == [call[c] EXCEPT !.phase = next, !.mine = new]
           failed == [call[c] EXCEPT !.phase = onError]
<1>1. call[c] \in GoodCall /\ new # NoRecord /\ call[c].kind # "none"
  BY AbsenceIsDistinct DEF ProvisioningInv, Types, GoodCall, In
<1>2. after \in GoodCall
  <2>1. call[c] \in CallType /\ next \in Phases /\ new \in RecordType
    BY <1>1 DEF GoodCall, Phases
  <2>2. /\ after \in CallType /\ after.phase = next /\ after.mine = new
        /\ after.kind = call[c].kind /\ after.role = call[c].role /\ after.was = call[c].was
        /\ after.created = call[c].created
    BY <2>1 DEF CallType
  <2> HIDE DEF after
  <2> QED
    BY <1>1, <2>2 DEF GoodCall
<1>3. failed \in GoodCall
  BY <1>1 DEF GoodCall, CallType, Phases, Working, In
<1>4. /\ after.phase = next /\ after.mine = new
      /\ failed.phase = onError /\ failed.mine = call[c].mine
      /\ \A s \in {after, failed} : s.kind = call[c].kind
  BY <1>1 DEF GoodCall, CallType
<1>5. Saves(c, new, after, failed)
  BY DEF SavesMine
<1>6. failed.mine # NoRecord => rec # NoRecord
  BY <1>4 DEF ProvisioningInv, Copied
<1>7. after.phase \notin {"failing", "done"} => Agree(after.mine, new)
  BY <1>4 DEF Agree
<1> HIDE DEF after, failed
<1> QED
  BY <1>2, <1>3, <1>4, <1>5, <1>6, <1>7, SavesKeep

(* The last write of a request.                                              *)
LEMMA LastSaveKeeps ==
  ASSUME ProvisioningInv, NEW c \in Calls, ~In(c, "idle"), ~In(c, "done"),
         OnlyWrites, UNCHANGED unlinked,
         NEW new \in RecordType, Extending(new), SavesOn(c, new, "done", "done")
  PROVE  ProvisioningInv'
<1> DEFINE ended == [call[c] EXCEPT !.phase = "done"]
<1>1. call[c] \in GoodCall /\ new # NoRecord
  BY AbsenceIsDistinct DEF ProvisioningInv, Types
<1>2. ended \in GoodCall /\ ended.phase = "done" /\ ended.mine = call[c].mine
      /\ ended.kind = call[c].kind
  BY <1>1 DEF GoodCall, CallType, Phases, In
<1>3. Saves(c, new, ended, ended)
  BY DEF SavesOn
<1>4. rec \in RecordType \cup {NoRecord} /\ (call[c].mine # NoRecord => rec # NoRecord)
  BY DEF ProvisioningInv, Types, Copied
<1> HIDE DEF ended
<1> QED
  BY <1>2, <1>3, <1>4, SavesKeep

(* What is known of a request at work. *)
LEMMA AtWork ==
  ASSUME ProvisioningInv, NEW c \in Calls
  PROVE  /\ call[c] \in GoodCall /\ rec \in RecordType \cup {NoRecord}
         /\ Working(c) => /\ rec \in RecordType /\ rec # NoRecord
                          /\ call[c].mine \in RecordType /\ call[c].mine # NoRecord
                          /\ OnTime => Agree(call[c].mine, rec)
         /\ Knows(c)
<1>1. call[c] \in GoodCall /\ rec \in RecordType \cup {NoRecord} /\ Copied(c) /\ Knows(c)
  BY DEF ProvisioningInv, Types
<1>2. Working(c) => call[c].mine # NoRecord
  BY <1>1 DEF Working, GoodCall
<1> QED
  BY <1>1, <1>2 DEF Copied, GoodCall, CallType

LEMMA CreateRecordKeeps ==
  ASSUME ProvisioningInv, NEW c \in Calls, CreateRecord(c), UNCHANGED unlinked
  PROVE  ProvisioningInv'
<1>1. PICK p \in Passwords : SavesMine(c, NewRecord(c, p), "probe", "done")
  BY DEF CreateRecord, Fresh
<1>2. OnlyWrites /\ rec = NoRecord /\ In(c, "create-record")
  BY DEF CreateRecord
<1>3. call[c] \in GoodCall /\ call[c].role \in Roles /\ call[c].role # "none"
      /\ call[c].kind = "provision" /\ ~call[c].created
  BY <1>2, AtWork, RolesAreKnown DEF GoodCall, CallType, In, KnownRoles
<1>4. NewRecord(c, p) \in RecordType /\ NewRecord(c, p).status = "pending"
  BY <1>3 DEF NewRecord, RecordType, Statuses, Setups
<1>5. Extending(NewRecord(c, p))
  BY <1>2 DEF Extending
<1> QED
  BY <1>1, <1>2, <1>3, <1>4, <1>5, SavesMineKeep DEF In

LEMMA ReplaceRoleKeeps ==
  ASSUME ProvisioningInv, NEW c \in Calls, ReplaceRole(c), UNCHANGED unlinked
  PROVE  ProvisioningInv'
<1> DEFINE mine   == [call[c].mine EXCEPT !.role = call[c].role, !.status = "pending", !.stamp = c]
           new    == [rec EXCEPT !.role = call[c].role, !.status = "pending", !.stamp = c]
           after  == [call[c] EXCEPT !.phase = "probe", !.mine = mine]
           failed == [call[c] EXCEPT !.phase = "done"]
<1>1. Saves(c, new, after, failed) /\ OnlyWrites /\ In(c, "replace")
  BY DEF ReplaceRole
<1>2. /\ call[c] \in GoodCall /\ call[c].role \in Roles /\ call[c].role # "none"
      /\ ~call[c].created /\ call[c].kind = "replace" /\ call[c].kind # "none"
      /\ call[c].was # NoRecord /\ call[c].was.role # call[c].role
      /\ rec \in RecordType /\ rec # NoRecord /\ call[c].mine \in RecordType
      /\ OnTime => Agree(call[c].mine, rec)
  BY <1>1, AtWork, RolesAreKnown DEF GoodCall, CallType, In, KnownRoles, Working
<1>3. /\ new \in RecordType /\ mine \in RecordType
      /\ mine.role = call[c].role /\ mine.status = "pending"
  BY <1>2 DEF RecordType, Statuses
<1>4. Extending(new)
  BY <1>2, <1>3, AbsenceIsDistinct DEF Extending, RecordType
<1>5. OnTime => Agree(mine, new)
  BY <1>2 DEF Agree, RecordType
<1> HIDE DEF mine, new
<1>6. /\ after \in CallType /\ after.phase = "probe" /\ after.mine = mine
      /\ after.kind = call[c].kind /\ after.role = call[c].role /\ after.was = call[c].was
      /\ after.created = call[c].created
  BY <1>2, <1>3 DEF GoodCall, CallType, Phases
<1>7. failed \in GoodCall /\ failed.phase = "done" /\ failed.kind = call[c].kind
  BY <1>2 DEF GoodCall, CallType, Phases
<1> HIDE DEF after, failed
<1>8. after \in GoodCall
  BY <1>2, <1>3, <1>6, AbsenceIsDistinct DEF GoodCall
<1>9. ~In(c, "idle") /\ ~In(c, "done") /\ rec # NoRecord
  BY <1>1, <1>2 DEF In
<1>10. \A s \in {after, failed} : s.kind = call[c].kind
  BY <1>6, <1>7
<1>11. OnTime => Agree(after.mine, new)
  BY <1>5, <1>6
<1> QED
  BY <1>1, <1>3, <1>4, <1>6, <1>7, <1>8, <1>9, <1>10, <1>11, SavesKeep

LEMMA LinkPasswordKeeps ==
  ASSUME ProvisioningInv, NEW c \in Calls, LinkPassword(c), UNCHANGED unlinked
  PROVE  ProvisioningInv'
<1>1. OnlyWrites /\ In(c, "link")
  BY DEF LinkPassword
<1>2. /\ call[c] \in GoodCall /\ call[c].role \in Roles /\ call[c].typed \in Passwords
      /\ rec \in RecordType \cup {NoRecord} /\ (call[c].mine # NoRecord => rec # NoRecord)
  BY <1>1, AtWork DEF GoodCall, CallType, In, ProvisioningInv, Copied
<1>3. CASE call[c].mine = NoRecord
  <2> DEFINE new == NewRecord(c, call[c].typed)
  <2>1. rec = NoRecord /\ SavesOn(c, new, "done", "done")
    BY <1>3 DEF LinkPassword
  <2>2. new \in RecordType /\ Extending(new)
    BY <1>2, <2>1 DEF NewRecord, RecordType, Statuses, Setups, Extending
  <2> HIDE DEF new
  <2> QED
    BY <1>1, <2>1, <2>2, LastSaveKeeps DEF In
<1>4. CASE call[c].mine # NoRecord
  <2>1. SavesOn(c, Linked(c), "done", "done") /\ rec.setup = "none" /\ rec.totp = NoSeed
    BY <1>4 DEF LinkPassword
  <2>2. Linked(c) \in RecordType
    BY <1>2, <1>4 DEF Linked, RecordType, Statuses
  <2>3. Extending(Linked(c))
    BY <1>2, <1>4, <2>1, <2>2, AbsenceIsDistinct DEF Extending
  <2> QED
    BY <1>1, <2>1, <2>2, <2>3, LastSaveKeeps DEF In
<1> QED
  BY <1>3, <1>4

LEMMA EnrolledExtends ==
  ASSUME NEW c \in Calls, rec \in RecordType, rec.totp = NoSeed, NEW x \in Seeds
  PROVE  /\ Enrolled(c, x) \in RecordType /\ Extending(Enrolled(c, x))
         /\ Enrolled(c, x).role = rec.role /\ Enrolled(c, x).secret = rec.secret
         /\ Enrolled(c, x).setup = rec.setup /\ Enrolled(c, x).totp = x
         /\ Enrolled(c, x).status = rec.status
<1>1. /\ Enrolled(c, x) \in RecordType
      /\ Enrolled(c, x).role = rec.role /\ Enrolled(c, x).secret = rec.secret
      /\ Enrolled(c, x).setup = rec.setup /\ Enrolled(c, x).totp = x
      /\ Enrolled(c, x).status = rec.status
  BY DEF Enrolled, RecordType
<1>2. Enrolled(c, x) # NoRecord
  BY <1>1, AbsenceIsDistinct
<1> QED
  BY <1>1, <1>2 DEF Extending

LEMMA EnrollKeeps ==
  ASSUME ProvisioningInv, NEW c \in Calls, EnrollByHand(c), UNCHANGED unlinked
  PROVE  ProvisioningInv'
<1>1. PICK x \in Seeds : SavesOn(c, Enrolled(c, x), "done", "done")
  BY DEF EnrollByHand
<1>2. OnlyWrites /\ In(c, "enroll") /\ rec.totp = NoSeed
  BY DEF EnrollByHand
<1>3. rec \in RecordType
  BY <1>2, AtWork DEF Working, In
<1>4. Enrolled(c, x) \in RecordType /\ Extending(Enrolled(c, x))
  BY <1>2, <1>3, EnrolledExtends
<1> QED
  BY <1>1, <1>2, <1>4, LastSaveKeeps DEF In

LEMMA BoundExtends ==
  ASSUME NEW c \in Calls, rec \in RecordType, rec.setup = "none", rec.totp = NoSeed
  PROVE  /\ Bound(c) \in RecordType /\ Extending(Bound(c))
         /\ Bound(c).status = rec.status /\ Bound(c).role = rec.role
<1>1. Bound(c) \in RecordType /\ Bound(c).status = rec.status /\ Bound(c).role = rec.role
  BY DEF Bound, RecordType, Setups
<1>2. Bound(c) # NoRecord
  BY <1>1, AbsenceIsDistinct
<1> QED
  BY <1>1, <1>2 DEF Extending

LEMMA OperatorBindsKeeps ==
  ASSUME ProvisioningInv, NEW c \in Calls, OperatorBinds(c), UNCHANGED unlinked
  PROVE  ProvisioningInv'
<1>1. /\ SavesMine(c, Bound(c), "stage", "done") /\ OnlyWrites /\ In(c, "bind")
      /\ rec.setup = "none" /\ rec.totp = NoSeed
  BY DEF OperatorBinds, Bindable
<1>2. /\ rec \in RecordType
      /\ call[c].role # "none" /\ ~call[c].created /\ call[c].kind \in {"setup", "operator"}
      /\ call[c].kind # "replace"
  BY <1>1, AtWork DEF Working, In, GoodCall
<1>3. Bound(c) \in RecordType /\ Extending(Bound(c))
  BY <1>1, <1>2, BoundExtends
<1> QED
  BY <1>1, <1>2, <1>3, SavesMineKeep DEF In

(* A request gives up, or is done. *)
LEMMA Ends ==
  ASSUME ProvisioningInv, NEW c \in Calls, ~In(c, "idle"), ~In(c, "done"),
         Go(c, "done"), OnlyMoves, UNCHANGED unlinked
  PROVE  ProvisioningInv'
<1>1. call[c] \in GoodCall /\ call[c].kind # "none" /\ "done" \in Phases
  BY AtWork DEF GoodCall, In, Phases
<1>2. [call[c] EXCEPT !.phase = "done"] \in GoodCall
  BY <1>1, PhaseMoves
<1> QED
  BY <1>1, <1>2, Moves

LEMMA Fails ==
  ASSUME ProvisioningInv, NEW c \in Calls, Working(c), ~In(c, "replace"),
         call[c].role # "none", Fail(c), OnlyMoves, UNCHANGED unlinked
  PROVE  ProvisioningInv'
<1>1. call[c] \in GoodCall /\ call[c].kind # "none" /\ "failing" \in Phases
      /\ ~In(c, "idle") /\ ~In(c, "done")
  BY AtWork DEF GoodCall, In, Phases, Working
<1>2. CASE Go(c, "failing")
  <2>1. [call[c] EXCEPT !.phase = "failing"] \in GoodCall
    BY <1>1, PhaseMoves DEF GoodCall, Working, In
  <2> QED
    BY <1>1, <1>2, <2>1, Moves
<1>3. CASE Go(c, "done")
  BY <1>1, <1>3, Ends
<1> QED
  BY <1>2, <1>3 DEF Fail, ErrorPhase

LEMMA ErrorPhaseFits ==
  ASSUME NEW c \in Calls PROVE ErrorPhase(c) \in {"failing", "done"}
BY DEF ErrorPhase

LEMMA OnlyGoes ==
  ASSUME OnlyWrites, KeepsRecord PROVE OnlyMoves
BY DEF OnlyWrites, OnlyMoves, KeepsRecord, KeepsRegistry, KeepsProduct, record

LEMMA StageKeeps ==
  ASSUME ProvisioningInv, NEW c \in Calls, Stage(c), UNCHANGED unlinked
  PROVE  ProvisioningInv'
<1>1. OnlyWrites /\ In(c, "stage")
  BY DEF Stage
<1>2. /\ call[c] \in GoodCall /\ Working(c) /\ call[c].role # "none" /\ ~call[c].created
      /\ call[c].kind \in {"setup", "operator"} /\ call[c].kind # "none" /\ rec \in RecordType
      /\ call[c].mine # NoRecord
      /\ ~In(c, "idle") /\ ~In(c, "done") /\ ~In(c, "replace")
  BY <1>1, AtWork DEF Working, In, GoodCall
<1>3. CASE Fail(c) /\ KeepsRecord
  BY <1>1, <1>2, <1>3, OnlyGoes, Fails
<1>4. CASE Go(c, "probe") /\ KeepsRecord
  <2>1. "probe" \in Phases
    BY DEF Phases
  <2>2. [call[c] EXCEPT !.phase = "probe"] \in GoodCall
    BY <1>1, <1>2, <2>1, PhaseMoves DEF In
  <2> QED
    BY <1>1, <1>2, <1>4, <2>1, <2>2, OnlyGoes, Moves
<1>5. ASSUME NEW p \in Passwords, rec = call[c].mine, rec.setup = "bound", rec.totp = NoSeed,
             SavesMine(c, SetupPasswordStored(c, p), "dispatch", ErrorPhase(c))
      PROVE  ProvisioningInv'
  <2> DEFINE new == SetupPasswordStored(c, p)
  <2>1. new \in RecordType /\ new.setup = "submitted"
    BY <1>2 DEF SetupPasswordStored, RecordType, Statuses, Setups
  <2>2. setups <= delayed
    BY <1>5 DEF ProvisioningInv, SentIsNoted, Noted
  <2>3. Extending(new)
    BY <1>5, <2>1, AbsenceIsDistinct DEF Extending
  <2>4. SavesMine(c, new, "dispatch", ErrorPhase(c))
    BY <1>5
  <2> HIDE DEF new
  <2> QED
    BY <1>1, <1>2, <2>1, <2>2, <2>3, <2>4, ErrorPhaseFits, SavesMineKeep
<1>6. \/ Fail(c) /\ KeepsRecord
      \/ Go(c, "probe") /\ KeepsRecord
      \/ /\ call[c].mine.setup = "bound" /\ call[c].mine.totp = NoSeed /\ rec = call[c].mine
         /\ \E p \in Passwords : SavesMine(c, SetupPasswordStored(c, p), "dispatch", ErrorPhase(c))
  BY DEF Stage, InviteOpen, Fresh
<1> QED
  BY <1>3, <1>4, <1>5, <1>6

LEMMA ConfirmKeeps ==
  ASSUME ProvisioningInv, NEW c \in Calls, Confirm(c), UNCHANGED unlinked
  PROVE  ProvisioningInv'
<1>1. OnlyWrites /\ In(c, "confirm")
  BY DEF Confirm
<1>2. /\ call[c] \in GoodCall /\ Working(c) /\ call[c].role # "none" /\ call[c].kind # "none"
      /\ rec \in RecordType /\ call[c].mine # NoRecord
      /\ ~In(c, "idle") /\ ~In(c, "done") /\ ~In(c, "replace")
      /\ call[c].kind = "replace" =>
           call[c].mine.role = call[c].role /\ call[c].mine.status = "pending"
  BY <1>1, AtWork DEF Working, In, GoodCall
<1>3. CASE Fail(c) /\ KeepsRecord
  BY <1>1, <1>2, <1>3, OnlyGoes, Fails
<1>4. CASE Go(c, "seed") /\ KeepsRecord
  <2>1. "seed" \in Phases
    BY DEF Phases
  <2>2. [call[c] EXCEPT !.phase = "seed"] \in GoodCall
    BY <1>1, <1>2, <2>1, PhaseMoves DEF In
  <2> QED
    BY <1>1, <1>2, <1>4, <2>1, <2>2, OnlyGoes, Moves
<1>5. CASE Bindable(call[c].mine) /\ SavesMine(c, Bound(c), ErrorPhase(c), ErrorPhase(c))
  <2>1. /\ rec.setup = "none" /\ rec.totp = NoSeed
        /\ call[c].mine = [rec EXCEPT !.setup = call[c].mine.setup]
    BY <1>5 DEF Bindable
  <2>2. rec.role = call[c].mine.role /\ rec.status = call[c].mine.status
    BY <1>2, <2>1 DEF RecordType
  <2>3. /\ Bound(c) \in RecordType /\ Extending(Bound(c))
        /\ Bound(c).status = rec.status /\ Bound(c).role = rec.role
    BY <1>2, <2>1, BoundExtends
  <2> QED
    BY <1>1, <1>2, <1>5, <2>2, <2>3, ErrorPhaseFits, SavesMineKeep
<1> QED
  BY <1>3, <1>4, <1>5 DEF Confirm

LEMMA StoreSeedKeeps ==
  ASSUME ProvisioningInv, NEW c \in Calls, StoreSeed(c), UNCHANGED unlinked
  PROVE  ProvisioningInv'
<1> DEFINE status == IF call[c].kind \in {"setup", "operator"}
                       THEN call[c].mine.status ELSE "pending"
           mine(x) == [call[c].mine EXCEPT !.totp = x, !.stamp = c, !.status = status]
           after(x) == [call[c] EXCEPT !.phase = "activate", !.mine = mine(x)]
           failed  == [call[c] EXCEPT !.phase = ErrorPhase(c)]
<1>1. OnlyWrites /\ In(c, "seed") /\ call[c].mine.totp = NoSeed
  BY DEF StoreSeed
<1>2. /\ call[c] \in GoodCall /\ Working(c) /\ call[c].role # "none" /\ call[c].kind # "none"
      /\ rec \in RecordType /\ rec # NoRecord
      /\ call[c].mine \in RecordType /\ call[c].mine # NoRecord
      /\ OnTime => Agree(call[c].mine, rec)
      /\ ~In(c, "idle") /\ ~In(c, "done") /\ ~In(c, "replace")
  BY <1>1, AtWork DEF Working, In, GoodCall
<1>3. CASE Fail(c) /\ KeepsRecord
  BY <1>1, <1>2, <1>3, OnlyGoes, Fails
<1>4. ASSUME NEW x \in Seeds, rec.totp = NoSeed, Saves(c, Enrolled(c, x), after(x), failed)
      PROVE  ProvisioningInv'
  <2>1. status \in Statuses /\ (call[c].kind = "replace" => status = "pending")
    BY <1>2 DEF RecordType, Statuses
  <2> HIDE DEF status
  <2>2. /\ mine(x) \in RecordType /\ mine(x).status = status /\ mine(x).totp = x
        /\ mine(x).role = call[c].mine.role /\ mine(x).secret = call[c].mine.secret
        /\ mine(x).setup = call[c].mine.setup
    BY <1>2, <2>1 DEF RecordType
  <2>3. /\ Enrolled(c, x) \in RecordType /\ Extending(Enrolled(c, x))
        /\ OnTime => Agree(mine(x), Enrolled(c, x))
    BY <1>2, <1>4, <2>2, EnrolledExtends DEF Agree
  <2> HIDE DEF mine
  <2>4. mine(x) # NoRecord /\ x # NoSeed
    BY <2>2, AbsenceIsDistinct, NullsAreDistinct
  <2>5. after(x) \in GoodCall /\ after(x).phase = "activate" /\ after(x).mine = mine(x)
        /\ after(x).kind = call[c].kind /\ after(x).was = call[c].was
    <3>1. "activate" \in Phases /\ call[c] \in CallType
      BY <1>2 DEF Phases, GoodCall
    <3>2. /\ after(x) \in CallType /\ after(x).phase = "activate" /\ after(x).mine = mine(x)
          /\ after(x).kind = call[c].kind /\ after(x).was = call[c].was
          /\ after(x).role = call[c].role /\ after(x).created = call[c].created
      BY <2>2, <3>1 DEF CallType
    <3>3. call[c].kind = "replace" =>
            call[c].mine.role = call[c].role /\ call[c].was.role # call[c].role
            /\ call[c].was # NoRecord
      BY <1>1, <1>2 DEF GoodCall, In
    <3> HIDE DEF after
    <3> QED
      BY <1>2, <2>1, <2>2, <2>4, <3>2, <3>3 DEF GoodCall
  <2>6. failed \in GoodCall /\ failed.phase \in {"failing", "done"} /\ failed.mine = call[c].mine
        /\ failed.kind = call[c].kind /\ failed.was = call[c].was
    <3>1. ErrorPhase(c) \in {"failing", "done"} /\ ErrorPhase(c) \in Phases
      BY DEF ErrorPhase, Phases
    <3>2. failed \in GoodCall
      BY <1>1, <1>2, <3>1, PhaseMoves DEF GoodCall, In
    <3> QED
      BY <1>2, <3>1, <3>2 DEF GoodCall, CallType
  <2>7. \A s \in {after(x), failed} : s.kind = call[c].kind
    BY <2>5, <2>6
  <2> HIDE DEF after, failed
  <2> QED
    BY <1>1, <1>2, <1>4, <2>3, <2>5, <2>6, <2>7, SavesKeep
<1>5. ASSUME NEW x \in Seeds,
             Saves(c, Enrolled(c, x),
                   [call[c] EXCEPT !.phase = "activate",
                      !.mine = [call[c].mine EXCEPT !.totp = x, !.stamp = c,
                        !.status = IF call[c].kind \in {"setup", "operator"} THEN @ ELSE "pending"]],
                   [call[c] EXCEPT !.phase = ErrorPhase(c)])
      PROVE  Saves(c, Enrolled(c, x), after(x), failed)
  BY <1>5
<1> QED
  BY <1>1, <1>3, <1>4, <1>5 DEF StoreSeed

LEMMA KeepSeedKeeps ==
  ASSUME ProvisioningInv, NEW c \in Calls, KeepSeed(c), UNCHANGED unlinked
  PROVE  ProvisioningInv'
<1>1. OnlyMoves /\ In(c, "seed") /\ call[c].mine.totp # NoSeed
  BY DEF KeepSeed
<1>2. /\ call[c] \in GoodCall /\ Working(c) /\ call[c].role # "none" /\ call[c].kind # "none"
      /\ ~In(c, "idle") /\ ~In(c, "done") /\ ~In(c, "replace")
      /\ "activate" \in Phases
  BY <1>1, AtWork DEF Working, In, GoodCall, Phases
<1>3. [call[c] EXCEPT !.phase = "activate"] \in GoodCall
  BY <1>1, <1>2, PhaseMoves DEF GoodCall, In, Working
<1>4. CASE Go(c, "activate")
  BY <1>1, <1>2, <1>3, <1>4, Moves
<1>5. CASE Fail(c)
  BY <1>1, <1>2, <1>5, Fails
<1> QED
  BY <1>4, <1>5 DEF KeepSeed

LEMMA WithStatusExtends ==
  ASSUME ProvisioningInv, NEW c \in Calls, Working(c), NEW status \in Statuses
  PROVE  /\ WithStatus(c, status) \in RecordType /\ Extending(WithStatus(c, status))
         /\ WithStatus(c, status).status = status
         /\ OnTime => /\ Agree(WithStatus(c, status), rec)
                      /\ Agree(call[c].mine, WithStatus(c, status))
<1> DEFINE totp == IF call[c].mine.totp = NoSeed THEN rec.totp ELSE call[c].mine.totp
           new  == [rec EXCEPT !.status = status, !.stamp = c, !.totp = totp]
<1>1. /\ rec \in RecordType /\ rec # NoRecord /\ call[c].mine \in RecordType
      /\ OnTime => Agree(call[c].mine, rec)
  BY AtWork
<1>2. totp \in Seeds \cup {NoSeed} /\ (OnTime => totp = rec.totp)
  BY <1>1 DEF Agree, RecordType
<1>3. WithStatus(c, status) = new
  BY <1>1 DEF WithStatus, RecordType
<1> HIDE DEF totp
<1>4. /\ new \in RecordType /\ new.totp = totp /\ new.secret = rec.secret
      /\ new.role = rec.role /\ new.setup = rec.setup /\ new.status = status
  BY <1>1, <1>2 DEF RecordType
<1> HIDE DEF new
<1>5. Extending(new)
  BY <1>1, <1>2, <1>4, AbsenceIsDistinct DEF Extending
<1> QED
  BY <1>1, <1>2, <1>3, <1>4, <1>5 DEF Agree

LEMMA RecordReadyKeeps ==
  ASSUME ProvisioningInv, NEW c \in Calls, RecordReady(c), UNCHANGED unlinked
  PROVE  ProvisioningInv'
<1> DEFINE next  == IF call[c].kind \in {"provision", "replace"} THEN "clear" ELSE "done"
           known == IF call[c].kind = "setup" THEN "ready" ELSE call[c].mine.status
           after == [call[c] EXCEPT !.phase = next]
           failed == [call[c] EXCEPT !.phase = ErrorPhase(c), !.mine.status = known]
           new   == WithStatus(c, "ready")
<1>1. /\ OnlyWrites /\ In(c, "verified") /\ (call[c].kind = "replace" => call[c].created)
      /\ Saves(c, new, after, failed)
  BY DEF RecordReady
<1>2. /\ call[c] \in GoodCall /\ Working(c) /\ call[c].role # "none" /\ call[c].kind # "none"
      /\ rec # NoRecord /\ call[c].mine \in RecordType /\ call[c].mine # NoRecord
      /\ ~In(c, "idle") /\ ~In(c, "done") /\ erased # "in time"
  BY <1>1, AtWork DEF Working, In, GoodCall, Knows, Saw
<1>3. new \in RecordType /\ Extending(new) /\ (OnTime => Agree(call[c].mine, new))
  BY <1>2, WithStatusExtends DEF Statuses
<1>7. next \in {"clear", "done"} /\ next \in Phases
  BY DEF Phases
<1> HIDE DEF next
<1>8. after \in GoodCall
  BY <1>1, <1>2, <1>7, PhaseMoves DEF GoodCall, In
<1>9. /\ after.phase \in {"clear", "done"} /\ after.mine = call[c].mine
      /\ after.kind = call[c].kind
  BY <1>2, <1>7 DEF GoodCall, CallType
<1>10. known \in Statuses /\ (call[c].kind = "replace" => known = call[c].mine.status)
  BY <1>2 DEF RecordType, Statuses
<1> HIDE DEF known
<1>11. failed \in GoodCall /\ failed.phase \in {"failing", "done"} /\ failed.kind = call[c].kind
  <2> DEFINE mine == [call[c].mine EXCEPT !.status = known]
  <2>1. mine \in RecordType /\ mine.status = known /\ mine.role = call[c].mine.role
    BY <1>2, <1>10 DEF RecordType
  <2>2. ErrorPhase(c) \in {"failing", "done"} /\ ErrorPhase(c) \in Phases
    BY DEF ErrorPhase, Phases
  <2>3. failed = [call[c] EXCEPT !.phase = ErrorPhase(c), !.mine = mine]
    BY <1>2 DEF GoodCall, CallType
  <2> HIDE DEF mine, failed
  <2>4. /\ failed \in CallType /\ failed.phase = ErrorPhase(c) /\ failed.mine = mine
        /\ failed.kind = call[c].kind /\ failed.was = call[c].was
        /\ failed.role = call[c].role /\ failed.created = call[c].created
    BY <1>2, <2>1, <2>2, <2>3 DEF GoodCall, CallType
  <2>5. call[c].kind = "replace" =>
          call[c].mine.role = call[c].role /\ call[c].mine.status = "pending"
          /\ call[c].was.role # call[c].role /\ call[c].was # NoRecord
    BY <1>1, <1>2 DEF GoodCall, In
  <2>6. mine # NoRecord /\ failed.phase \in {"failing", "done"}
    BY <2>1, <2>2, <2>4, AbsenceIsDistinct
  <2>7. call[c].role # "none" /\ call[c].kind # "none"
    BY <1>2
  <2>8. failed.kind = "replace" =>
          /\ failed.mine.role = failed.role /\ failed.mine.status = "pending"
          /\ failed.was.role # failed.role /\ failed.was # NoRecord
    BY <1>10, <2>1, <2>4, <2>5
  <2> QED
    BY <2>4, <2>6, <2>7, <2>8 DEF GoodCall
<1>12. \A s \in {after, failed} : s.kind = call[c].kind
  BY <1>9, <1>11
<1> HIDE DEF new, after, failed
<1> QED
  BY <1>1, <1>2, <1>3, <1>8, <1>9, <1>11, <1>12, SavesKeep

LEMMA RestoreRoleKeeps ==
  ASSUME ProvisioningInv, NEW c \in Calls, RestoreRole(c), OnlyWrites, UNCHANGED unlinked,
         In(c, "verified") \/ In(c, "failing"), call[c].kind = "replace"
  PROVE  ProvisioningInv'
<1> DEFINE was == call[c].was
           new == [rec EXCEPT !.role = was.role, !.status = was.status, !.stamp = was.stamp]
<1>1. /\ call[c] \in GoodCall /\ was \in RecordType /\ rec # NoRecord /\ rec \in RecordType
      /\ ~In(c, "idle") /\ ~In(c, "done")
  <2>1. call[c] \in GoodCall /\ rec \in RecordType \cup {NoRecord} /\ Copied(c)
    BY AtWork DEF ProvisioningInv
  <2> QED
    BY <2>1 DEF GoodCall, CallType, In, Copied
<1>2. CASE Go(c, "done") /\ KeepsRecord
  BY <1>1, <1>2, OnlyGoes, Ends
<1>3. CASE SavesOn(c, new, "done", "done")
  <2>1. new \in RecordType
    BY <1>1 DEF RecordType
  <2>2. Extending(new)
    BY <1>1, <2>1, AbsenceIsDistinct DEF Extending, RecordType
  <2> HIDE DEF new
  <2> QED
    BY <1>1, <1>3, <2>1, <2>2, LastSaveKeeps
<1> QED
  BY <1>2, <1>3 DEF RestoreRole

LEMMA MarkFailedKeeps ==
  ASSUME ProvisioningInv, NEW c \in Calls, MarkFailed(c), UNCHANGED unlinked
  PROVE  ProvisioningInv'
<1> DEFINE new == [rec EXCEPT !.status = "failed", !.stamp = c]
<1>1. OnlyWrites /\ In(c, "failing")
  BY DEF MarkFailed
<1>2. rec # NoRecord /\ rec \in RecordType /\ ~In(c, "idle") /\ ~In(c, "done")
  <2>1. call[c] \in GoodCall /\ rec \in RecordType \cup {NoRecord} /\ Copied(c)
    BY AtWork DEF ProvisioningInv
  <2> QED
    BY <1>1, <2>1 DEF GoodCall, In, Copied
<1>3. CASE Go(c, "done") /\ KeepsRecord
  BY <1>1, <1>2, <1>3, OnlyGoes, Ends
<1>4. CASE SavesOn(c, new, "done", "done")
  <2>1. new \in RecordType
    BY <1>2 DEF RecordType, Statuses
  <2>2. Extending(new)
    BY <1>2, <2>1, AbsenceIsDistinct DEF Extending, RecordType
  <2> HIDE DEF new
  <2> QED
    BY <1>1, <1>2, <1>4, <2>1, <2>2, LastSaveKeeps
<1> QED
  BY <1>3, <1>4 DEF MarkFailed

LEMMA RecordDeletedKeeps ==
  ASSUME ProvisioningInv, NEW c \in Calls, RecordDeleted(c), UNCHANGED unlinked
  PROVE  ProvisioningInv'
<1>1. /\ OnlyWrites /\ In(c, "fail-record")
      /\ SavesOn(c, WithStatus(c, "failed"), "done", "done")
  BY DEF RecordDeleted
<1>2. Working(c) /\ ~In(c, "idle") /\ ~In(c, "done")
  BY <1>1 DEF Working, In
<1>3. WithStatus(c, "failed") \in RecordType /\ Extending(WithStatus(c, "failed"))
  BY <1>2, WithStatusExtends DEF Statuses
<1> QED
  BY <1>1, <1>2, <1>3, LastSaveKeeps

LEMMA WriteRefusedKeeps ==
  ASSUME ProvisioningInv, NEW c \in Calls, WriteRefused(c), UNCHANGED unlinked
  PROVE  ProvisioningInv'
<1>1. Go(c, "done") /\ OnlyMoves /\ ~In(c, "idle") /\ ~In(c, "done")
  BY DEF WriteRefused, In
<1> QED
  BY <1>1, Ends

LEMMA RegistryStepKeeps ==
  ASSUME ProvisioningInv, NEW c \in Calls, RegistryStep(c), ~ClearMarker(c), UNCHANGED unlinked
  PROVE  ProvisioningInv'
<1>1. CASE WriteRefused(c)
  BY <1>1, WriteRefusedKeeps
<1>2. CASE FoundLive(c) \/ TakeBack(c)
  BY <1>2, RestoreRoleKeeps DEF FoundLive, TakeBack
<1> QED
  BY <1>1, <1>2, CreateRecordKeeps, ReplaceRoleKeeps, LinkPasswordKeeps, EnrollKeeps,
     OperatorBindsKeeps, StageKeeps, RecordReadyKeeps, MarkFailedKeeps DEF RegistryStep

-----------------------------------------------------------------------------
(* Markers, and the counting of a dispatch. *)

LEMMA MarksKeep ==
  ASSUME ProvisioningInv, NEW c \in Calls, Working(c),
         NEW p \in {"erase", "fail-record", "done"}, Go(c, p),
         marker' \in {"none", "pending", "deleted"},
         UNCHANGED <<lock, record, unlinked>>, KeepsProduct,
         marker' = "none" => erased # "in time",
         p # "done" => call[c].kind = "delete" /\ ~call[c].created,
         p = "erase" => marker' = "pending",
         p = "fail-record" => marker' = "deleted"
  PROVE  ProvisioningInv'
<1> DEFINE s == [call[c] EXCEPT !.phase = p]
<1>1. UNCHANGED <<lock, rec, adrift, delayed, account, erased, late, setups, unlinked>>
  BY DEF KeepsProduct, record
<1>2. /\ call[c] \in GoodCall /\ call \in [Calls -> GoodCall] /\ call[c].kind # "none"
      /\ ~In(c, "idle") /\ ~In(c, "done") /\ call[c].mine # NoRecord
  BY AtWork DEF ProvisioningInv, Types, GoodCall, Working, In
<1>3. s \in GoodCall
  BY <1>2, PhaseMoves DEF Phases
<1>4. call' = [call EXCEPT ![c] = s] /\ call'[c] = s /\ s.phase = p /\ s.mine = call[c].mine
      /\ s.kind = call[c].kind
  BY <1>2 DEF Go, GoodCall, CallType
<1> HIDE DEF s
<1>5. Copied(c)'
  BY <1>1, <1>4 DEF ProvisioningInv, Copied, Working, OnTime
<1>6. Knows(c)'
  <2>1. Dispatches(c)' /\ ~Saw(c)'
    BY <1>4 DEF Dispatches, Saw, In
  <2> QED
    BY <1>1, <1>2, <1>4, <2>1, KnowsAgain DEF In
<1>7. call' \in [Calls -> GoodCall] /\ OneAtATime' /\ \A d \in Calls : Copied(d)' /\ Knows(d)'
  BY <1>1, <1>2, <1>3, <1>4, <1>5, <1>6, OthersFollow DEF ProvisioningInv
<1>8. Types'
  BY <1>1, <1>7 DEF ProvisioningInv, Types
<1>9. Outstanding' /\ Kept' /\ SentIsNoted' /\ ErasureIsMarked'
  BY <1>1 DEF ProvisioningInv, Outstanding, Fits, Kept, SentIsNoted, Noted, ErasureIsMarked, OnTime
<1> QED
  BY <1>7, <1>8, <1>9 DEF ProvisioningInv

LEMMA MarkerStepsKeep ==
  ASSUME ProvisioningInv, NEW c \in Calls, UNCHANGED unlinked,
         ClearMarker(c) \/ MarkPending(c) \/ MarkDeleted(c)
  PROVE  ProvisioningInv'
<1>1. CASE ClearMarker(c)
  <2>1. In(c, "clear") /\ Go(c, "done") /\ marker' = "none" /\ UNCHANGED <<lock, record>> /\ KeepsProduct
    BY <1>1 DEF ClearMarker
  <2>2. Working(c) /\ erased # "in time"
    BY <2>1, AtWork DEF Working, In, Knows, Saw
  <2> QED
    BY <2>1, <2>2, MarksKeep
<1>2. CASE MarkPending(c)
  <2>1. In(c, "mark") /\ Go(c, "erase") /\ marker' = "pending" /\ UNCHANGED <<lock, record>> /\ KeepsProduct
    BY <1>2 DEF MarkPending
  <2>2. Working(c) /\ call[c].kind = "delete" /\ ~call[c].created
    BY <2>1, AtWork DEF Working, In, GoodCall
  <2> QED
    BY <2>1, <2>2, MarksKeep
<1>3. CASE MarkDeleted(c)
  <2>1. In(c, "deleted") /\ Go(c, "fail-record") /\ marker' = "deleted" /\ UNCHANGED <<lock, record>> /\ KeepsProduct
    BY <1>3 DEF MarkDeleted
  <2>2. Working(c) /\ call[c].kind = "delete" /\ ~call[c].created
    BY <2>1, AtWork DEF Working, In, GoodCall
  <2> QED
    BY <2>1, <2>2, MarksKeep
<1> QED
  BY <1>1, <1>2, <1>3

(* A dispatch is counted, and then is no longer about to be.                 *)
LEMMA CountingIsNoted ==
  ASSUME delayed \in Nat, setups \in Nat, setups' = setups \/ setups' = setups + 1,
         setups <= delayed, Noted \/ setups + 1 <= delayed, UNCHANGED <<delayed, rec>>
  PROVE  setups' \in Nat /\ SentIsNoted'
<1>1. Noted' <=> Noted
  BY DEF Noted
<1>2. CASE setups' = setups
  BY <1>1, <1>2 DEF SentIsNoted
<1>3. CASE setups' = setups + 1
  BY <1>1, <1>3 DEF SentIsNoted
<1> QED BY <1>2, <1>3

LEMMA DispatchKeeps ==
  ASSUME ProvisioningInv, NEW c \in Calls, DispatchSetup(c), UNCHANGED unlinked
  PROVE  ProvisioningInv'
<1> DEFINE s == [call[c] EXCEPT !.phase = "post"]
<1>1. /\ In(c, "dispatch") /\ Go(c, "post") /\ (setups' = setups \/ setups' = setups + 1)
      /\ UNCHANGED <<lock, rec, adrift, delayed, marker, account, erased, late>>
  BY DEF DispatchSetup, KeepsRegistry, record
<1>2. /\ call[c] \in GoodCall /\ call \in [Calls -> GoodCall] /\ call[c].kind \in {"setup", "operator"}
      /\ ~In(c, "idle") /\ ~In(c, "done") /\ Working(c) /\ call[c].mine # NoRecord
      /\ call[c].mine.setup = "submitted" /\ rec # NoRecord /\ call[c].kind # "none"
      /\ call[c].role # "none" /\ ~call[c].created
  BY <1>1, AtWork DEF ProvisioningInv, Types, GoodCall, Working, In
<1>3. s \in GoodCall
  BY <1>2, PhaseMoves DEF Phases
<1>4. call' = [call EXCEPT ![c] = s] /\ call'[c] = s /\ s.phase = "post" /\ s.mine = call[c].mine
      /\ s.kind = call[c].kind
  BY <1>1, <1>2 DEF Go, GoodCall, CallType
<1> HIDE DEF s
<1>5. Copied(c)'
  BY <1>1, <1>2, <1>4 DEF ProvisioningInv, Copied, Working, OnTime
<1>6. Knows(c)'
  <2>1. Dispatches(c)' /\ ~Saw(c)'
    BY <1>4 DEF Dispatches, Saw, In
  <2> QED
    BY <1>1, <1>2, <1>4, <2>1, KnowsAgain DEF In
<1>7. call' \in [Calls -> GoodCall] /\ OneAtATime' /\ \A d \in Calls : Copied(d)' /\ Knows(d)'
  BY <1>1, <1>2, <1>3, <1>4, <1>5, <1>6, OthersFollow DEF ProvisioningInv
<1>8. delayed \in Nat /\ setups \in Nat
  BY DEF ProvisioningInv, Types
<1>9. setups <= delayed /\ (Noted \/ setups + 1 <= delayed)
  BY <1>1, AtWork DEF Knows, Dispatches
<1>10. setups' \in Nat /\ SentIsNoted'
  BY <1>1, <1>8, <1>9, CountingIsNoted
<1>11. Types'
  BY <1>1, <1>7, <1>10 DEF ProvisioningInv, Types
<1>12. Outstanding' /\ Kept' /\ ErasureIsMarked'
  BY <1>1 DEF ProvisioningInv, Outstanding, Fits, Kept, ErasureIsMarked, OnTime
<1> QED
  BY <1>7, <1>10, <1>11, <1>12 DEF ProvisioningInv

-----------------------------------------------------------------------------
(* The steps that ask the product. *)

LEMMA ProbesKeep ==
  ASSUME ProvisioningInv, NEW c \in Calls, UNCHANGED unlinked,
         Probe(c) \/ Login(c) \/ Verify(c) \/ CreateRefused(c)
  PROVE  ProvisioningInv'
<1>1. /\ OnlyMoves
      /\ In(c, "probe") \/ In(c, "login") \/ In(c, "verify") \/ In(c, "create")
  BY DEF Probe, Login, Verify, CreateRefused
<1>2. /\ call[c] \in GoodCall /\ Working(c) /\ call[c].role # "none" /\ call[c].kind # "none"
      /\ ~In(c, "idle") /\ ~In(c, "done") /\ ~In(c, "replace")
      /\ call[c].mine # NoRecord /\ (OnTime => Agree(call[c].mine, rec))
      /\ call[c].kind = "replace" =>
           call[c].mine.role = call[c].role /\ call[c].mine.status = "pending"
      /\ call[c].created => In(c, "verify")
  BY <1>1, AtWork DEF Working, In, GoodCall
<1> DEFINE Seen == erased # "in time" /\ (OnTime => Opens)
<1>3. IsManaged(call[c].mine) => Seen
  BY <1>2 DEF ProvisioningInv, ErasureIsMarked, IsManaged, AcceptsPassword, Opens, Agree
<1> HIDE DEF Seen
<1>4. ASSUME NEW p \in {"verified", "login", "create", "seed", "reactivate"}, Go(c, p),
             p \in {"login", "create", "reactivate"} => ~call[c].created,
             p = "reactivate" => call[c].mine.totp # NoSeed,
             p = "verified" => Seen \/ (call[c].kind = "replace" /\ ~call[c].created)
      PROVE  ProvisioningInv'
  <2>1. p \in Phases
    BY DEF Phases
  <2>2. [call[c] EXCEPT !.phase = p] \in GoodCall
    BY <1>2, <1>4, <2>1, PhaseMoves
  <2> QED
    BY <1>1, <1>2, <1>4, <2>1, <2>2, Moves DEF Seen
<1>5. CASE Fail(c)
  BY <1>1, <1>2, <1>5, Fails
<1>6. CASE Probe(c)
  <2>1. ~call[c].created /\ call[c].mine.totp # NoSeed
    BY <1>2, <1>6 DEF Probe, In
  <2> QED
    BY <1>3, <1>4, <1>5, <1>6, <2>1 DEF Probe
<1>7. CASE Login(c)
  <2>1. ~call[c].created
    BY <1>2, <1>7 DEF Login, In
  <2> QED
    BY <1>4, <1>5, <1>7, <2>1 DEF Login
<1>8. CASE Verify(c)
  BY <1>3, <1>4, <1>5, <1>8 DEF Verify
<1> QED
  BY <1>5, <1>6, <1>7, <1>8 DEF CreateRefused

LEMMA SendsOnKeep ==
  ASSUME ProvisioningInv, NEW c \in Calls, UNCHANGED unlinked, Working(c),
         ~In(c, "replace"), ~call[c].created \/ In(c, "activate"),
         NEW q \in ProductRequests, OnTime => Fits(q), q.what = "erase" => marker = "pending",
         NEW next \in {"probe", "verify", "deleted"}, NEW onError \in {"failing", "done"},
         SendsOn(c, q, next, onError),
         call[c].role = "none" => next = "deleted" /\ onError = "done",
         next = "probe" => ~call[c].created,
         next = "deleted" => call[c].kind = "delete" /\ ~call[c].created
  PROVE  ProvisioningInv'
<1>1. /\ call[c] \in GoodCall /\ call[c].kind # "none" /\ call[c].mine # NoRecord
      /\ call[c].kind = "replace" =>
           call[c].mine.role = call[c].role /\ call[c].mine.status = "pending"
  BY AtWork DEF GoodCall, Working, In
<1>2. next \in Phases /\ onError \in Phases
  BY DEF Phases
<1> DEFINE s1 == [call[c] EXCEPT !.phase = next]
           s2 == [call[c] EXCEPT !.phase = onError]
<1>3. s1 \in GoodCall
  BY <1>1, <1>2, PhaseMoves DEF In
<1>4. s2 \in GoodCall
  BY <1>1, <1>2, PhaseMoves DEF In
<1>5. /\ s1.phase = next /\ s2.phase = onError
      /\ \A s \in {s1, s2} : s.kind = call[c].kind /\ s.mine = call[c].mine
  BY <1>1 DEF GoodCall, CallType
<1>6. Sends(c, q, s1, s2)
  BY DEF SendsOn
<1> HIDE DEF s1, s2
<1> QED
  BY <1>3, <1>4, <1>5, <1>6, SendsKeep

LEMMA RequestsKeep ==
  ASSUME ProvisioningInv, NEW c \in Calls, UNCHANGED unlinked,
         PostSetup(c) \/ Reactivate(c) \/ Activate(c) \/ Erase(c)
  PROVE  ProvisioningInv'
<1> DEFINE r == call[c].mine
<1>0. In(c, "post") \/ In(c, "reactivate") \/ In(c, "activate") \/ In(c, "erase")
  BY DEF PostSetup, Reactivate, Activate, Erase
<1>1. /\ call[c] \in GoodCall /\ Working(c) /\ ~In(c, "replace")
      /\ rec # NoRecord /\ r \in RecordType /\ (OnTime => Agree(r, rec))
      /\ ~call[c].created \/ In(c, "activate")
      /\ In(c, "erase") <=> call[c].role = "none" \/ In(c, "erase")
      /\ In(c, "post") => r.setup = "submitted"
      /\ In(c, "erase") => marker = "pending" /\ call[c].kind = "delete"
      /\ In(c, "activate") \/ In(c, "reactivate") => r.totp # NoSeed
  BY <1>0, AtWork DEF Working, In, GoodCall, Knows
<1>2. r.secret \in Passwords /\ r.totp \in Seeds \cup {NoSeed}
      /\ (OnTime => rec.secret = r.secret /\ rec.totp = r.totp /\ rec.setup = r.setup)
  BY <1>1 DEF RecordType, Agree
<1> HIDE DEF r
<1>3. CASE PostSetup(c)
  <2> DEFINE q == [what |-> "setup", password |-> r.secret]
  <2>1. In(c, "post") /\ SendsOn(c, q, "probe", ErrorPhase(c))
    BY <1>3 DEF PostSetup, r
  <2>2. q \in ProductRequests /\ (OnTime => Fits(q)) /\ q.what # "erase"
    BY <1>1, <1>2, <2>1 DEF ProductRequests, Fits
  <2>3. call[c].role # "none" /\ ~call[c].created
    BY <1>1, <2>1 DEF In
  <2> HIDE DEF q
  <2> QED
    BY <1>1, <2>1, <2>2, <2>3, ErrorPhaseFits, SendsOnKeep
<1>4. CASE Reactivate(c)
  <2> DEFINE q == [what |-> "reactivate", password |-> r.secret]
  <2>1. In(c, "reactivate") /\ SendsOn(c, q, "verify", ErrorPhase(c))
    BY <1>4 DEF Reactivate, r
  <2>2. q \in ProductRequests /\ (OnTime => Fits(q)) /\ q.what # "erase"
    BY <1>1, <1>2, <2>1 DEF ProductRequests, Fits
  <2>3. call[c].role # "none"
    BY <1>1, <2>1 DEF In
  <2> HIDE DEF q
  <2> QED
    BY <1>1, <2>1, <2>2, <2>3, ErrorPhaseFits, SendsOnKeep
<1>5. CASE Activate(c)
  <2> DEFINE q == [what |-> "activate", password |-> r.secret, seed |-> r.totp]
  <2>1. In(c, "activate") /\ SendsOn(c, q, "verify", ErrorPhase(c))
    BY <1>5 DEF Activate, r
  <2>2. q \in ProductRequests /\ (OnTime => Fits(q)) /\ q.what # "erase"
    BY <1>1, <1>2, <2>1 DEF ProductRequests, Fits
  <2>3. call[c].role # "none"
    BY <1>1, <2>1 DEF In
  <2> HIDE DEF q
  <2> QED
    BY <1>1, <2>1, <2>2, <2>3, ErrorPhaseFits, SendsOnKeep
<1>6. CASE Erase(c)
  <2> DEFINE q == [what |-> "erase"]
  <2>1. In(c, "erase") /\ SendsOn(c, q, "deleted", "done")
    BY <1>6 DEF Erase
  <2>2. q \in ProductRequests /\ Fits(q)
    BY DEF ProductRequests, Fits
  <2>3. ~call[c].created
    BY <1>1, <2>1 DEF In
  <2> HIDE DEF q
  <2> QED
    BY <1>1, <2>1, <2>2, <2>3, SendsOnKeep
<1> QED
  BY <1>3, <1>4, <1>5, <1>6

LEMMA CreateAccountKeeps ==
  ASSUME ProvisioningInv, NEW c \in Calls, CreateAccount(c), UNCHANGED unlinked
  PROVE  ProvisioningInv'
<1> DEFINE q  == [what |-> "create", role |-> call[c].role, password |-> call[c].mine.secret]
           s1 == [call[c] EXCEPT !.started = TRUE, !.phase = "confirm", !.created = TRUE]
           s2 == [call[c] EXCEPT !.started = TRUE, !.phase = ErrorPhase(c)]
<1>1. In(c, "create")
  BY DEF CreateAccount
<1>2. /\ call[c] \in GoodCall /\ Working(c)
      /\ call[c].role \in Roles /\ call[c].mine \in RecordType /\ call[c].mine # NoRecord
      /\ call[c].role # "none" /\ call[c].kind # "none"
      /\ ~call[c].created
      /\ call[c].kind = "replace" =>
           /\ call[c].mine.role = call[c].role /\ call[c].mine.status = "pending"
           /\ call[c].was # NoRecord /\ call[c].was.role # call[c].role
  BY <1>1, AtWork DEF Working, In, GoodCall, CallType
<1>3. q \in ProductRequests /\ Fits(q) /\ q.what # "erase"
  BY <1>2 DEF ProductRequests, Fits, RecordType
<1>4. ErrorPhase(c) \in {"failing", "done"} /\ ErrorPhase(c) \in Phases /\ "confirm" \in Phases
  BY DEF ErrorPhase, Phases
<1>5. \A s \in {s1, s2} :
        /\ s \in CallType /\ s.phase \in {"confirm", "failing", "done"}
        /\ s.kind = call[c].kind /\ s.mine = call[c].mine /\ s.was = call[c].was
        /\ s.role = call[c].role /\ (s.created => s.phase = "confirm")
  BY <1>2, <1>4 DEF GoodCall, CallType
<1>6. Sends(c, q, s1, s2)
  <2>1. /\ s1 = [[call[c] EXCEPT !.started = TRUE] EXCEPT !.phase = "confirm", !.created = TRUE]
        /\ s2 = [[call[c] EXCEPT !.started = TRUE] EXCEPT !.phase = ErrorPhase(c)]
    BY <1>2 DEF GoodCall, CallType
  <2> QED
    BY <2>1 DEF CreateAccount
<1> HIDE DEF s1, s2, q
<1>7. s1 \in GoodCall /\ s2 \in GoodCall
  BY <1>2, <1>5 DEF GoodCall
<1> QED
  BY <1>2, <1>3, <1>5, <1>6, <1>7, SendsKeep

LEMMA PreviewKeeps ==
  ASSUME ProvisioningInv, NEW c \in Calls, Preview(c), UNCHANGED unlinked
  PROVE  ProvisioningInv'
<1>1. OnlyMoves /\ In(c, "preview")
  BY DEF Preview
<1>2. /\ call[c] \in GoodCall /\ Working(c) /\ call[c].kind = "delete" /\ call[c].mine # NoRecord
      /\ ~In(c, "idle") /\ ~In(c, "done") /\ ~call[c].created
  BY <1>1, AtWork DEF Working, In, GoodCall
<1>3. CASE Go(c, "done")
  BY <1>1, <1>2, <1>3, Ends
<1>4. ASSUME NEW p \in {"deleted", "mark"}, Go(c, p) PROVE ProvisioningInv'
  <2>1. p \in Phases
    BY DEF Phases
  <2>2. [call[c] EXCEPT !.phase = p] \in GoodCall
    BY <1>2, <2>1, PhaseMoves
  <2> QED
    BY <1>1, <1>2, <1>4, <2>1, <2>2, Moves
<1> QED
  BY <1>3, <1>4 DEF Preview

LEMMA StepsOfARequestKeep ==
  ASSUME ProvisioningInv, NEW c \in Calls, UNCHANGED unlinked,
         Request(c) \/ RegistryStep(c) \/ ProductStep(c) \/ DeletionStep(c)
  PROVE  ProvisioningInv'
<1>1. CASE RegistryStep(c)
  BY <1>1, RegistryStepKeeps, MarkerStepsKeep
<1>2. CASE ProductStep(c)
  BY <1>2, DispatchKeeps, RequestsKeep, ProbesKeep, CreateAccountKeeps, ConfirmKeeps,
     StoreSeedKeeps, KeepSeedKeeps DEF ProductStep
<1>3. CASE DeletionStep(c)
  BY <1>3, PreviewKeeps, MarkerStepsKeep, RequestsKeep, RecordDeletedKeeps DEF DeletionStep
<1> QED
  BY <1>1, <1>2, <1>3, RequestKeeps

-----------------------------------------------------------------------------
(* The end of a request, and what happens around it. *)

(* What nobody at work knows more or less of for it.                         *)
LEMMA StandsStill ==
  ASSUME ProvisioningInv, UNCHANGED <<rec, delayed, marker, account, erased, late, setups>>
  PROVE  Outstanding' /\ Kept' /\ SentIsNoted' /\ ErasureIsMarked'
BY DEF ProvisioningInv, Outstanding, Fits, Kept, SentIsNoted, Noted, ErasureIsMarked, OnTime

LEMMA AllStandStill ==
  ASSUME ProvisioningInv, UNCHANGED <<rec, delayed, marker, erased, setups, call, unlinked>>,
         Opens => Opens', NEW d \in Calls
  PROVE  Copied(d)' /\ Knows(d)'
<1>1. Copied(d) /\ Knows(d)
  BY DEF ProvisioningInv
<1>2. Copied(d)'
  BY <1>1 DEF Copied, Working, OnTime
<1>3. Dispatches(d)'
  BY <1>1 DEF Knows, Dispatches, Noted, In
<1>4. (Saw(d) => erased # "in time")' /\ (OnTime /\ Saw(d) /\ In(d, "verified") => Opens)'
  BY <1>1 DEF Knows, Saw, In, OnTime
<1> QED
  BY <1>1, <1>2, <1>3, <1>4, KnowsAgain DEF Knows, In

LEMMA LeavesKeep ==
  ASSUME ProvisioningInv, NEW c \in Calls, UNCHANGED unlinked, Release(c) \/ Crash(c)
  PROVE  ProvisioningInv'
<1>1. /\ UNCHANGED <<rec, adrift, delayed, marker, account, erased, late, setups>>
      /\ call' = [call EXCEPT ![c] = Idle] /\ ~In(c, "idle")
      /\ lock' \in {lock, Nobody, Orphan} /\ (lock # c => lock' = lock)
  BY DEF Release, Crash, KeepsProduct, In, record
<1>2. call \in [Calls -> GoodCall] /\ call' \in [Calls -> GoodCall] /\ call'[c] = Idle
  BY <1>1, IdleIsGood DEF ProvisioningInv, Types
<1>3. ASSUME NEW d \in Calls, d # c
      PROVE  In(d, "idle") /\ call[d].kind = "none" /\ call'[d] = call[d]
  BY <1>1, <1>2, <1>3, OnlyThisOne DEF ProvisioningInv
<1>4. OneAtATime'
  BY <1>2, <1>3 DEF OneAtATime, In, Idle
<1>5. ASSUME NEW d \in Calls PROVE Copied(d)' /\ Knows(d)'
  <2>1. CASE d = c
    <3>1. call'[d].phase = "idle" /\ call'[d].mine = NoRecord /\ call'[d].kind = "none"
      BY <1>2, <2>1 DEF Idle
    <3>2. Copied(d)'
      BY <3>1 DEF Copied, Working, In
    <3>3. Knows(d)'
      BY <3>1 DEF Knows, Dispatches, Saw, In
    <3> QED BY <3>2, <3>3
  <2>2. CASE d # c
    <3>1. Copied(d)'
      BY <1>1, <1>3, <2>2 DEF ProvisioningInv, Copied, Working, In
    <3>2. Knows(d)'
      BY <1>3, <2>2 DEF Knows, Dispatches, Saw, In
    <3> QED BY <3>1, <3>2
  <2> QED BY <2>1, <2>2
<1>6. Types'
  BY <1>1, <1>2 DEF ProvisioningInv, Types
<1>7. Outstanding' /\ Kept' /\ SentIsNoted' /\ ErasureIsMarked'
  BY <1>1, StandsStill
<1> QED
  BY <1>4, <1>5, <1>6, <1>7 DEF ProvisioningInv

LEMMA SurroundingsKeep ==
  ASSUME ProvisioningInv, UNCHANGED unlinked,
         OperatorReview \/ PersonOnboards \/ ProductSoftDeletes
  PROVE  ProvisioningInv'
<1>1. CASE OperatorReview
  <2>1. /\ UNCHANGED <<rec, adrift, delayed, marker, account, erased, late, setups, call>>
        /\ lock = Orphan /\ lock' = Nobody
    BY <1>1 DEF OperatorReview, KeepsProduct, record
  <2>2. Types' /\ OneAtATime'
    BY <2>1, NullsAreDistinct DEF ProvisioningInv, Types, OneAtATime
  <2>3. Opens => Opens'
    BY <2>1 DEF Opens
  <2>4. \A d \in Calls : Copied(d)' /\ Knows(d)'
    BY <2>1, <2>3, AllStandStill
  <2>5. Outstanding' /\ Kept' /\ SentIsNoted' /\ ErasureIsMarked'
    BY <2>1, StandsStill
  <2> QED BY <2>2, <2>4, <2>5 DEF ProvisioningInv
<1>2. CASE PersonOnboards
  <2>1. /\ UNCHANGED <<lock, rec, adrift, delayed, marker, late, setups, call>>
        /\ account = NoAccount /\ erased' = "no"
        /\ account' \in [role: Invitees, password: Fresh, seed: Seeds \cup {NoSeed},
                         invite: {"accepted"}, live: {TRUE}, ours: {FALSE}]
    BY <1>2 DEF PersonOnboards, KeepsRegistry, record
  <2>2. account' \in AccountType /\ account'.ours = FALSE /\ account'.invite = "accepted"
    BY <2>1, RolesAreKnown DEF AccountType, Fresh
  <2>3. Types' /\ OneAtATime'
    BY <2>1, <2>2 DEF ProvisioningInv, Types, OneAtATime
  <2>4. ASSUME NEW d \in Calls PROVE Copied(d)' /\ Knows(d)'
    <3>1. Copied(d) /\ Knows(d)
      BY DEF ProvisioningInv
    <3>2. Copied(d)'
      BY <2>1, <3>1 DEF Copied, Working, OnTime
    <3>3. Dispatches(d)'
      BY <2>1, <3>1 DEF Knows, Dispatches, Noted, In
    <3>4. (Saw(d) => erased # "in time")' /\ (OnTime /\ Saw(d) /\ In(d, "verified") => Opens)'
      BY <2>1, <3>1 DEF Knows, Saw, In, OnTime, Opens
    <3>5. Knows(d)'
      BY <2>1, <3>1, <3>3, <3>4, KnowsAgain DEF Knows, In
    <3> QED BY <3>2, <3>5
  <2>5. Outstanding' /\ Kept' /\ SentIsNoted' /\ ErasureIsMarked'
    BY <2>1, <2>2 DEF ProvisioningInv, Outstanding, Fits, Kept, SentIsNoted, Noted, ErasureIsMarked, OnTime
  <2> QED BY <2>3, <2>4, <2>5 DEF ProvisioningInv
<1>3. CASE ProductSoftDeletes
  <2>1. /\ UNCHANGED <<lock, rec, adrift, delayed, marker, erased, late, setups, call>>
        /\ account \in AccountType
        /\ account # NoAccount /\ account' = [account EXCEPT !.live = FALSE]
    BY <1>3 DEF ProductSoftDeletes, KeepsRegistry, record, ProvisioningInv, Types
  <2>2. /\ account' \in AccountType /\ account' # NoAccount
        /\ account'.ours = account.ours /\ account'.invite = account.invite
        /\ account'.password = account.password /\ account'.seed = account.seed
    BY <2>1, AbsenceIsDistinct DEF AccountType
  <2>3. Types' /\ OneAtATime'
    BY <2>1, <2>2 DEF ProvisioningInv, Types, OneAtATime
  <2>4. Opens => Opens'
    BY <2>1, <2>2 DEF Opens
  <2>5. \A d \in Calls : Copied(d)' /\ Knows(d)'
    BY <2>1, <2>4, AllStandStill
  <2>6. Outstanding' /\ Kept' /\ SentIsNoted' /\ ErasureIsMarked'
    BY <2>1, <2>2 DEF ProvisioningInv, Outstanding, Fits, Kept, SentIsNoted, Noted, ErasureIsMarked, OnTime
  <2> QED BY <2>3, <2>5, <2>6 DEF ProvisioningInv
<1> QED
  BY <1>1, <1>2, <1>3

LEMMA LinkStepsKeep ==
  ASSUME ProvisioningInv, LinkStep PROVE ProvisioningInv'
<1>1. UNCHANGED <<lock, rec, adrift, delayed, marker, account, erased, late, setups, call>>
  BY DEF LinkStep, OnlyMoves, KeepsRegistry, KeepsProduct, record
<1>2. /\ unlinked' \in BOOLEAN
      /\ unlinked' => \A d \in Calls : ~Registered(d)
  BY DEF LinkStep, Unlink, Relink, Clear
<1>3. Types' /\ OneAtATime'
  BY <1>1, <1>2 DEF ProvisioningInv, Types, OneAtATime
<1>4. ASSUME NEW d \in Calls PROVE Copied(d)' /\ Knows(d)'
  <2>1. Copied(d) /\ Knows(d)
    BY DEF ProvisioningInv
  <2>2. Copied(d)'
    BY <1>1, <2>1 DEF Copied, Working, OnTime
  <2>3. Dispatches(d)'
    BY <1>1, <2>1 DEF Knows, Dispatches, Noted, In
  <2>4. (Saw(d) => erased # "in time")' /\ (OnTime /\ Saw(d) /\ In(d, "verified") => Opens)'
    BY <1>1, <2>1 DEF Knows, Saw, In, OnTime, Opens
  <2>5. (unlinked /\ call[d].kind \in {"provision", "replace", "link", "setup"} => In(d, "done"))'
    BY <1>1, <1>2 DEF Registered, In
  <2>6. Knows(d)'
    BY <1>1, <2>1, <2>3, <2>4, <2>5 DEF Knows, In
  <2> QED BY <2>2, <2>6
<1>5. Outstanding' /\ Kept' /\ SentIsNoted' /\ ErasureIsMarked'
  BY <1>1, StandsStill
<1> QED BY <1>3, <1>4, <1>5 DEF ProvisioningInv

LEMMA NothingKeeps ==
  ASSUME ProvisioningInv, UNCHANGED vars PROVE ProvisioningInv'
<1>1. UNCHANGED <<lock, rec, adrift, delayed, marker, account, erased, late, setups, call, unlinked>>
  BY DEF vars, record
<1>2. Opens => Opens'
  BY <1>1 DEF Opens
<1>3. \A d \in Calls : Copied(d)' /\ Knows(d)'
  BY <1>1, <1>2, AllStandStill
<1>4. Types' /\ OneAtATime'
  BY <1>1 DEF ProvisioningInv, Types, OneAtATime
<1> QED
  BY <1>1, <1>3, <1>4, StandsStill DEF ProvisioningInv

(* The invariant holds at first. *)
LEMMA InitHolds == Init => ProvisioningInv
<1> SUFFICES ASSUME Init PROVE ProvisioningInv
  OBVIOUS
<1> USE DEF Init
<1>1. Types
  <2>1. call \in [Calls -> GoodCall]
    BY IdleIsGood
  <2>2. late \subseteq ProductRequests /\ adrift \subseteq WriteType
        /\ setups \in Nat /\ delayed \in Nat
    OBVIOUS
  <2>3. unlinked \in BOOLEAN /\ erased \in {"no", "in time", "late"}
    BY Zenon
  <2>4. rec \in RecordType \cup {NoRecord} /\ account \in AccountType \cup {NoAccount}
    OBVIOUS
  <2>5. lock \in Calls \cup {Nobody, Orphan} /\ marker \in {"none", "pending", "deleted"}
    OBVIOUS
  <2> QED
    BY <2>1, <2>2, <2>3, <2>4, <2>5 DEF Types
<1>2. OneAtATime
  BY DEF OneAtATime, Idle
<1>3. ASSUME NEW d \in Calls PROVE Copied(d) /\ Knows(d)
  BY DEF Copied, Working, Knows, Dispatches, Saw, In, Idle
<1>4. Outstanding /\ Kept /\ ErasureIsMarked
  BY DEF Outstanding, Kept, ErasureIsMarked
<1>5. SentIsNoted
  BY DEF SentIsNoted
<1> QED
  BY <1>1, <1>2, <1>3, <1>4, <1>5 DEF ProvisioningInv

(* Every step keeps it. *)
LEMMA StepsKeep == ProvisioningInv /\ [Next]_vars => ProvisioningInv'
<1> SUFFICES ASSUME ProvisioningInv, [Next]_vars PROVE ProvisioningInv'
  OBVIOUS
<1>1. CASE UNCHANGED vars
  BY <1>1, NothingKeeps
<1>2. CASE AccountStep /\ UNCHANGED unlinked
  BY <1>2, StepsOfARequestKeep, LeavesKeep, LandingKeeps, LateKeeps, SurroundingsKeep DEF AccountStep
<1>3. CASE LinkStep
  BY <1>3, LinkStepsKeep
<1> QED
  BY <1>1, <1>2, <1>3 DEF Next

(* ProvisioningInv holds in every reachable state (app.ts:705, the requests  *)
(* on one account and what goes on around them), its part about copies and   *)
(* outstanding requests until a write or a deletion lands late.              *)
THEOREM ProvisioningInvariant == Spec => []ProvisioningInv
BY InitHolds, StepsKeep, PTL DEF Spec

(* Every variable has its type, and a request at work holds a copy of the    *)
(* record (app.ts:822, linkedRecord).                                        *)
THEOREM ProvisioningTypesCorrect == Spec => []TypeOK
<1>1. ProvisioningInv => TypeOK
  <2> SUFFICES ASSUME ProvisioningInv PROVE TypeOK
    OBVIOUS
  <2>1. Types
    BY DEF ProvisioningInv
  <2>2. call \in [Calls -> CallType]
    BY <2>1 DEF Types, GoodCall
  <2>3. \A c \in Calls :
          call[c].phase \notin {"idle", "create-record", "link", "done"} => call[c].mine # NoRecord
    BY <2>1 DEF Types, GoodCall
  <2> QED
    BY <2>1, <2>2, <2>3 DEF Types, TypeOK
<1> QED
  BY <1>1, ProvisioningInvariant, PTL

(* Whatever was lost or cut off, once the hub has set the account's password *)
(* or armed its second factor, the registry holds what opens it              *)
(* (infisical-writer.ts:255 and 516, stageAccountSetup and enrollTotp), as   *)
(* long as no write and no deletion that was given up has landed.            *)
THEOREM CredentialsNeverLost == Spec => []CredentialsAreKept
<1>1. ProvisioningInv => CredentialsAreKept
  BY DEF ProvisioningInv, Kept, CredentialsAreKept, OnTime
<1> QED
  BY <1>1, ProvisioningInvariant, PTL

(* A required setup is sent to the product once for an account, and once     *)
(* more at most for each write or deletion that landed late                  *)
(* (oriso-account-setup.ts:104, completeBoundAccountSetup).                  *)
THEOREM SetupIsSentOnce == Spec => []SetupSentOnce
<1>1. ProvisioningInv => SetupSentOnce
  <2> SUFFICES ASSUME ProvisioningInv PROVE SetupSentOnce
    OBVIOUS
  <2>1. delayed \in Nat /\ setups <= delayed + 1
    BY DEF ProvisioningInv, Types, SentIsNoted
  <2> QED BY <2>1 DEF SetupSentOnce
<1> QED
  BY <1>1, ProvisioningInvariant, PTL

(* An account the hub's DELETE removed in time never shows as ready, not     *)
(* even when a write to ready lands afterwards (oriso-admin-deletion.ts:99,  *)
(* remove).  Of a DELETE carried out after it was given up nothing is said:  *)
(* the run late_delete refutes that.                                         *)
THEOREM ErasureShows == Spec => []ErasedInTimeIsMarked
<1>1. ProvisioningInv => ErasedInTimeIsMarked
  BY DEF ProvisioningInv, ErasureIsMarked, ErasedInTimeIsMarked
<1> QED
  BY <1>1, ProvisioningInvariant, PTL

-----------------------------------------------------------------------------
(* How a step may change the status of the record. *)

StatusKeeps == rec' # NoRecord /\ rec'.status = rec.status

StatusMoves ==
  \/ rec' = rec
  \/ rec = NoRecord /\ rec'.status = "pending"
  \/ /\ rec # NoRecord
     /\ \/ StatusKeeps
        \/ rec'.role # rec.role /\ (rec.status = "ready" => rec'.status = "pending")
        \/ rec'.status \in {"pending", "failed"} /\ (rec.status = "ready" => marker = "deleted")
        \/ /\ rec'.status = "ready" /\ delayed' = delayed
           /\ OnTime => Opens /\ rec'.secret = rec.secret /\ rec'.totp = rec.totp

\* A write given up on, or a deletion, has just been carried out.
Landing == delayed' = delayed + 1

LEMMA WritesMoveStatus ==
  ASSUME ProvisioningInv, NEW c \in Calls, RegistryStep(c) PROVE StatusMoves
<1>0. /\ call[c] \in GoodCall /\ rec \in RecordType \cup {NoRecord}
      /\ call[c].mine # NoRecord => rec # NoRecord
  BY AtWork DEF ProvisioningInv, Copied
<1> USE DEF RecordType
<1>1. CASE CreateRecord(c)
  BY <1>1 DEF CreateRecord, SavesMine, Saves, NewRecord, StatusMoves
<1>2. CASE ReplaceRole(c)
  <2>1. rec \in RecordType /\ rec # NoRecord /\ call[c].role # rec.role
    BY <1>2, AtWork DEF ReplaceRole, InRoleAndStatusOf, Working, In, GoodCall
  <2>2. rec' \in {rec, [rec EXCEPT !.role = call[c].role, !.status = "pending", !.stamp = c]}
    BY <1>2 DEF ReplaceRole, Saves
  <2> QED
    BY <2>1, <2>2 DEF StatusMoves
<1>3. CASE LinkPassword(c)
  <2>1. CASE call[c].mine = NoRecord
    BY <1>3, <2>1 DEF LinkPassword, SavesOn, Saves, NewRecord, StatusMoves
  <2>2. CASE call[c].mine # NoRecord
    <3>1. rec' \in {rec, Linked(c)} /\ rec.status # "ready"
      BY <1>3, <2>2 DEF LinkPassword, SavesOn, Saves
    <3> QED
      BY <1>0, <2>2, <3>1 DEF StatusMoves, Linked
  <2> QED BY <2>1, <2>2
<1>4. CASE EnrollByHand(c)
  <2>1. rec \in RecordType /\ rec # NoRecord /\ rec.totp = NoSeed
    BY <1>4, AtWork DEF EnrollByHand, Working, In
  <2>2. PICK x \in Seeds : rec' \in {rec, Enrolled(c, x)}
    BY <1>4 DEF EnrollByHand, SavesOn, Saves
  <2>3. Enrolled(c, x) \in RecordType /\ Enrolled(c, x).status = rec.status
    BY <2>1, EnrolledExtends
  <2> QED
    BY <2>1, <2>2, <2>3, AbsenceIsDistinct DEF StatusMoves, StatusKeeps
<1>5. CASE OperatorBinds(c)
  <2>1. rec \in RecordType /\ rec # NoRecord /\ rec.setup = "none" /\ rec.totp = NoSeed
    BY <1>5, AtWork DEF OperatorBinds, Bindable, Working, In
  <2>2. rec' \in {rec, Bound(c)}
    BY <1>5 DEF OperatorBinds, SavesMine, Saves
  <2>3. Bound(c) \in RecordType /\ Bound(c).status = rec.status
    BY <2>1, BoundExtends
  <2> QED
    BY <2>1, <2>2, <2>3, AbsenceIsDistinct DEF StatusMoves, StatusKeeps
<1>6. CASE Stage(c)
  <2>1. rec \in RecordType /\ rec # NoRecord
    BY <1>6, AtWork DEF Stage, Working, In
  <2>2. \/ rec' = rec
        \/ rec.status # "ready" /\ \E p \in Passwords : rec' \in {rec, SetupPasswordStored(c, p)}
    BY <1>6 DEF Stage, BoundIdentityLives, KeepsRecord, Fresh, SavesMine, Saves
  <2> QED
    BY <2>1, <2>2 DEF SetupPasswordStored, StatusMoves
<1>7. CASE RecordReady(c)
  <2>1. /\ rec \in RecordType /\ rec # NoRecord /\ Working(c) /\ delayed' = delayed
        /\ OnTime => Opens
    BY <1>7, AtWork DEF RecordReady, OnlyWrites, Working, In, Knows, Saw
  <2>2. /\ WithStatus(c, "ready").status = "ready"
        /\ OnTime => Agree(WithStatus(c, "ready"), rec)
    BY <2>1, WithStatusExtends DEF Statuses
  <2>3. rec' = rec \/ rec' = WithStatus(c, "ready")
    BY <1>7 DEF RecordReady, Saves
  <2> QED
    BY <2>1, <2>2, <2>3 DEF StatusMoves, Agree
<1>8. CASE FoundLive(c) \/ TakeBack(c)
  <2>1. /\ call[c].kind = "replace" /\ RestoreRole(c)
        /\ call[c].was.role # call[c].mine.role /\ call[c].mine.status = "pending"
        /\ rec \in RecordType /\ rec # NoRecord
    BY <1>0, <1>8 DEF FoundLive, TakeBack, In, GoodCall
  <2>2. \/ rec' = rec
        \/ /\ rec.role = call[c].mine.role /\ rec.status = "pending"
           /\ rec' = [rec EXCEPT !.role = call[c].was.role, !.status = call[c].was.status,
                                 !.stamp = call[c].was.stamp]
    BY <2>1 DEF RestoreRole, InRoleAndStatusOf, KeepsRecord, SavesOn, Saves
  <2> QED
    BY <2>1, <2>2 DEF StatusMoves
<1>9. CASE MarkFailed(c)
  <2>1. rec \in RecordType /\ rec # NoRecord
    BY <1>0, <1>9 DEF MarkFailed, In, GoodCall
  <2>2. rec' = rec \/ (rec' = [rec EXCEPT !.status = "failed", !.stamp = c] /\ rec.status # "ready")
    BY <1>9 DEF MarkFailed, Unchanged, InRoleAndStatusOf, KeepsRecord, SavesOn, Saves
  <2> QED
    BY <2>1, <2>2 DEF StatusMoves
<1>10. CASE WriteRefused(c) \/ ClearMarker(c)
  BY <1>10 DEF WriteRefused, OnlyMoves, KeepsRegistry, record, ClearMarker, StatusMoves
<1> QED
  BY <1>1, <1>2, <1>3, <1>4, <1>5, <1>6, <1>7, <1>8, <1>9, <1>10 DEF RegistryStep

LEMMA RequestsAge ==
  ASSUME NEW c \in Calls, Request(c) PROVE rec' = Aged
BY DEF Request, RequestProvision, RequestReplace, RequestLink, RequestSetup,
   RequestOperatorSetup, RequestEnroll, RequestDelete, Enters

LEMMA ProductStepsMoveStatus ==
  ASSUME ProvisioningInv, NEW c \in Calls, ProductStep(c) PROVE StatusMoves
<1>1. CASE Confirm(c)
  <2>1. rec \in RecordType /\ rec # NoRecord
    BY <1>1, AtWork DEF Confirm, Working, In
  <2>2. rec' = rec \/ (rec' = Bound(c) /\ rec.setup = "none" /\ rec.totp = NoSeed)
    BY <1>1 DEF Confirm, Bindable, KeepsRecord, SavesMine, Saves
  <2> QED
    BY <2>1, <2>2, BoundExtends, AbsenceIsDistinct DEF StatusMoves, StatusKeeps
<1>2. CASE StoreSeed(c)
  <2>1. rec \in RecordType /\ rec # NoRecord
    BY <1>2, AtWork DEF StoreSeed, Working, In
  <2>2. rec' = rec \/ (rec.totp = NoSeed /\ \E x \in Seeds : rec' = Enrolled(c, x))
    BY <1>2 DEF StoreSeed, KeepsRecord, Saves
  <2> QED
    BY <2>1, <2>2, EnrolledExtends, AbsenceIsDistinct DEF StatusMoves, StatusKeeps
<1>3. CASE PostSetup(c) \/ Reactivate(c) \/ CreateAccount(c) \/ Activate(c)
  BY <1>3 DEF PostSetup, Reactivate, CreateAccount, Activate, SendsOn, Sends, KeepsRegistry,
     record, StatusMoves
<1>4. CASE DispatchSetup(c) \/ Probe(c) \/ Login(c) \/ CreateRefused(c) \/ KeepSeed(c) \/ Verify(c)
  BY <1>4 DEF DispatchSetup, Probe, Login, CreateRefused, KeepSeed, Verify, OnlyMoves,
     KeepsRegistry, record, StatusMoves
<1> QED
  BY <1>1, <1>2, <1>3, <1>4 DEF ProductStep

LEMMA DeletionStepsMoveStatus ==
  ASSUME ProvisioningInv, NEW c \in Calls, DeletionStep(c) PROVE StatusMoves
<1>1. CASE RecordDeleted(c)
  <2>1. rec \in RecordType /\ rec # NoRecord /\ marker = "deleted" /\ Working(c)
    BY <1>1, AtWork DEF RecordDeleted, Working, In, Knows
  <2>2. rec' \in {rec, WithStatus(c, "failed")}
    BY <1>1 DEF RecordDeleted, SavesOn, Saves
  <2>3. WithStatus(c, "failed").status = "failed"
    BY <2>1, WithStatusExtends DEF Statuses
  <2> QED
    BY <2>1, <2>2, <2>3 DEF StatusMoves
<1>2. CASE Preview(c) \/ MarkPending(c) \/ Erase(c) \/ MarkDeleted(c)
  BY <1>2 DEF Preview, MarkPending, Erase, MarkDeleted, SendsOn, Sends, OnlyMoves,
     KeepsRegistry, record, StatusMoves
<1> QED
  BY <1>1, <1>2 DEF DeletionStep

LEMMA StepsMoveStatus == ProvisioningInv /\ [Next]_vars => StatusMoves \/ Landing
<1> SUFFICES ASSUME ProvisioningInv, [Next]_vars PROVE StatusMoves \/ Landing
  OBVIOUS
<1>1. ASSUME NEW c \in Calls, Request(c) PROVE StatusMoves
  <2>1. rec' = Aged /\ Types
    BY <1>1, RequestsAge DEF ProvisioningInv
  <2>2. rec = NoRecord => rec' = rec
    BY <2>1 DEF Aged
  <2>3. rec # NoRecord => StatusKeeps
    BY <2>1, AgedIsAlike DEF StatusKeeps
  <2> QED
    BY <2>2, <2>3 DEF StatusMoves
<1>2. ASSUME NEW c \in Calls, RegistryStep(c) \/ ProductStep(c) \/ DeletionStep(c)
      PROVE  StatusMoves
  BY <1>2, WritesMoveStatus, ProductStepsMoveStatus, DeletionStepsMoveStatus
<1>3. ASSUME NEW c \in Calls, Release(c) \/ Crash(c) PROVE StatusMoves
  BY <1>3 DEF Release, Crash, record, StatusMoves
<1>4. CASE CarriedOutLate \/ OperatorReview \/ PersonOnboards \/ ProductSoftDeletes \/ LinkStep
  BY <1>4 DEF CarriedOutLate, OperatorReview, PersonOnboards, ProductSoftDeletes,
     LinkStep, OnlyMoves, KeepsRegistry, record, StatusMoves
<1>5. CASE WriteLands
  BY <1>5 DEF WriteLands, Landing
<1>6. CASE UNCHANGED vars
  BY <1>6 DEF vars, record, StatusMoves
<1> QED
  BY <1>1, <1>2, <1>3, <1>4, <1>5, <1>6 DEF Next, AccountStep

LEMMA LandingIsLate ==
  ASSUME ProvisioningInv, Landing PROVE delayed' > delayed /\ delayed' # 0
<1>1. delayed \in Nat
  BY DEF ProvisioningInv, Types
<1> QED
  BY <1>1 DEF Landing

(* Until a write lands late, a record becomes ready only when the product    *)
(* account accepts exactly its password and second factor                    *)
(* (oriso-provisioning.ts, managedCredentialToken, and app.ts:1036, the      *)
(* write of the ready status).                                               *)
THEOREM ReadyMeansVerified == Spec => ReadyIsVerified
<1>1. ProvisioningInv /\ [Next]_vars =>
        [ delayed' = 0
            /\ rec' # NoRecord /\ rec'.status = "ready" /\ (rec = NoRecord \/ rec.status # "ready")
            /\ (rec # NoRecord => rec'.role = rec.role)
          => /\ account # NoAccount
             /\ account.password = rec'.secret
             /\ account.seed # NoSeed /\ account.seed = rec'.totp ]_vars
  <2> SUFFICES ASSUME ProvisioningInv, [Next]_vars, delayed' = 0,
                      rec' # NoRecord, rec'.status = "ready", rec = NoRecord \/ rec.status # "ready",
                      rec # NoRecord => rec'.role = rec.role
               PROVE  /\ account # NoAccount
                      /\ account.password = rec'.secret
                      /\ account.seed # NoSeed /\ account.seed = rec'.totp
    OBVIOUS
  <2>1. StatusMoves
    BY StepsMoveStatus, LandingIsLate
  <2> QED
    BY <2>1 DEF StatusMoves, StatusKeeps, Opens, OnTime
<1> QED
  BY <1>1, ProvisioningInvariant, PTL DEF Spec, ReadyIsVerified

(* A ready record loses that status only to a deletion, for a moment to the  *)
(* replacement of its role, or to a write that lands late                    *)
(* (infisical-writer.ts:382, markProvisioningFailed).                        *)
THEOREM ReadyStays == Spec => ReadyIsNotDowngraded
<1>1. ProvisioningInv /\ [Next]_vars =>
        [ rec # NoRecord /\ rec.status = "ready" /\ rec'.status # "ready"
          => \/ marker = "deleted"
             \/ rec'.status = "pending" /\ rec'.role # rec.role
             \/ delayed' > delayed ]_vars
  <2> SUFFICES ASSUME ProvisioningInv, [Next]_vars,
                      rec # NoRecord, rec.status = "ready", rec'.status # "ready"
               PROVE  \/ marker = "deleted"
                      \/ rec'.status = "pending" /\ rec'.role # rec.role
                      \/ delayed' > delayed
    OBVIOUS
  <2>1. CASE StatusMoves
    BY <2>1 DEF StatusMoves, StatusKeeps
  <2>2. CASE Landing
    BY <2>2, LandingIsLate
  <2> QED
    BY <2>1, <2>2, StepsMoveStatus
<1> QED
  BY <1>1, ProvisioningInvariant, PTL DEF Spec, ReadyIsNotDowngraded

-----------------------------------------------------------------------------
(* What a request may do to a record whose link is cleared away. *)

LEMMA RequestsAtWork ==
  ASSUME ProvisioningInv, NEW c \in Calls, unlinked,
         RegistryStep(c) \/ ProductStep(c) \/ DeletionStep(c)
  PROVE  call[c].kind \in {"operator", "enroll", "delete"}
<1>1. ~In(c, "idle") /\ ~In(c, "done")
  <2>1. CASE RegistryStep(c)
    BY <2>1 DEF RegistryStep, CreateRecord, ReplaceRole, LinkPassword, WriteRefused, EnrollByHand,
       OperatorBinds, Stage, RecordReady, FoundLive, TakeBack, MarkFailed, ClearMarker, In
  <2>2. CASE ProductStep(c)
    BY <2>2 DEF ProductStep, DispatchSetup, PostSetup, Probe, Login, Reactivate, CreateAccount,
       CreateRefused, Confirm, StoreSeed, KeepSeed, Activate, Verify, In
  <2>3. CASE DeletionStep(c)
    BY <2>3 DEF DeletionStep, Preview, MarkPending, Erase, MarkDeleted, RecordDeleted, In
  <2> QED
    BY <2>1, <2>2, <2>3
<1>2. call[c] \in GoodCall /\ Knows(c)
  BY DEF ProvisioningInv, Types
<1> QED
  BY <1>1, <1>2 DEF GoodCall, CallType, Knows, In

LEMMA StepsLeaveTheUnlinked ==
  ASSUME ProvisioningInv, [Next]_vars, unlinked
  PROVE  \/ rec' = rec \/ rec' = Aged
         \/ \E c \in Calls : call[c].kind \in {"operator", "enroll", "delete"}
         \/ delayed' > delayed
<1>1. CASE \E c \in Calls : Request(c)
  BY <1>1, RequestsAge
<1>2. CASE \E c \in Calls : RegistryStep(c) \/ ProductStep(c) \/ DeletionStep(c)
  BY <1>2, RequestsAtWork
<1>3. ASSUME NEW c \in Calls, Release(c) \/ Crash(c) PROVE rec' = rec
  BY <1>3 DEF Release, Crash, record
<1>4. CASE CarriedOutLate \/ OperatorReview \/ PersonOnboards \/ ProductSoftDeletes \/ LinkStep
  BY <1>4 DEF CarriedOutLate, OperatorReview, PersonOnboards, ProductSoftDeletes,
     LinkStep, OnlyMoves, KeepsRegistry, record
<1>5. CASE WriteLands
  <2>1. Landing
    BY <1>5 DEF WriteLands, Landing
  <2> QED BY <2>1, LandingIsLate
<1>6. CASE UNCHANGED vars
  BY <1>6 DEF vars, record
<1> QED
  BY <1>1, <1>2, <1>3, <1>4, <1>5, <1>6 DEF Next, AccountStep

(* While the link is suppressed nothing writes the record but a person's     *)
(* enrolment, a deletion, the setup operator, or a write that was given up   *)
(* and lands late (app.ts:1168, the clearing that asks for the mutations in  *)
(* progress).                                                                *)
THEOREM ClearedIsLeftAlone == Spec => UnlinkedIsLeftAlone
<1>1. ProvisioningInv /\ [Next]_vars =>
        [ unlinked =>
            \/ rec' = rec \/ rec' = Aged
            \/ \E c \in Calls : call[c].kind \in {"operator", "enroll", "delete"}
            \/ delayed' > delayed ]_vars
  BY StepsLeaveTheUnlinked
<1> QED
  BY <1>1, ProvisioningInvariant, PTL DEF Spec, UnlinkedIsLeftAlone

=============================================================================
