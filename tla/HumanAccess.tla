----------------------------- MODULE HumanAccess -----------------------------
(***************************************************************************)
(* What an employee may see: the grants the hub derives from the            *)
(* memberships in Infisical, and the e-mailed codes whose sign-in depends   *)
(* on them.  All synchronizations of the process go through one queue with  *)
(* deadlines and share one cached read.  A membership is represented by the *)
(* instant it was read at, so that a later value is a newer one.  Whether   *)
(* the grants of an employee, local ones included, amount to any access is  *)
(* left open.  Timers fire on time and the event loop is not held up.       *)
(***************************************************************************)
EXTENDS Naturals, Sequences, FiniteSets

CONSTANTS Users,       \* active employees who are not administrators
          Timeout,     \* humanAccessTimeoutMs
          Ttl,         \* cacheTtlMs of the provider
          Cooldown,    \* between two codes for one employee
          CodeTtl,     \* how long a code is valid
          Attempts,    \* guesses at a code
          CodeUsers,   \* those of them who sign in with e-mailed codes
          Everybody,   \* whom the employee list is about
          MaxQueue, MaxCodes, MaxClock

ASSUME BoundsAreNumbers ==
  /\ Everybody \notin Users /\ CodeUsers \subseteq Users
  /\ {Timeout, Ttl, Cooldown, CodeTtl, Attempts, MaxClock} \subseteq Nat \ {0}
  /\ {MaxQueue, MaxCodes} \subseteq Nat

VARIABLES clock,
          cache,      \* the last membership list: when it was taken, its end
          read,       \* the read in flight
          queue,      \* callers in line; the first one is being served
          syncs,      \* how far the synchronizations of the first one are
          before,     \* what the employee list found when it began
          stored,     \* stored[u]: the Infisical grants in human_project_grants
          answered,   \* answered[u]: those the hub last told a caller
          mailing,    \* users whose request for a code is being worked on
          sending,    \* codes handed to the mail server
          challenge,  \* challenge[u]: the code that is not consumed yet
          lastCode,   \* lastCode[u]: requested_at of the newest code
          mailed,     \* mailed[u]: codes sent so far
          opened      \* opened[u][k]: sessions opened with code k

access == <<cache, read, syncs, before, stored, answered>>
codes  == <<mailing, sending, challenge, lastCode, mailed, opened>>
vars   == <<clock, queue, access, codes>>

Times == 0..MaxClock
Never == 0
None  == [code |-> 0]

Calls == [kind: {"list", "me", "mail", "verify"}, user: Users \cup {Everybody}, code: 0..MaxCodes,
          at: Times, deadline: 0..(MaxClock + Timeout)]

Idle == [u \in Users |-> "idle"]

Init ==
  /\ clock = 1 /\ queue = <<>>
  /\ cache = [asOf |-> Never, until |-> Never]
  /\ read = [state |-> "none", asOf |-> Never]
  /\ syncs = Idle
  /\ before = [u \in Users |-> Never]
  /\ stored = [u \in Users |-> Never] /\ answered = stored
  /\ mailing = {} /\ sending = {}
  /\ challenge = [u \in Users |-> None]
  /\ lastCode = [u \in Users |-> Never]
  /\ mailed = [u \in Users |-> 0]
  /\ opened = [u \in Users |-> [k \in 1..MaxCodes |-> 0]]

-----------------------------------------------------------------------------
(* createDeadlineQueue *)

Serving   == syncs # Idle
First     == queue[1]
Is(status) == {u \in Users : syncs[u] = status}

\* The deadline counts from the moment a caller joins the queue.
Joins(kind, u, code) ==
  /\ Len(queue) < MaxQueue
  /\ queue' = Append(queue, [kind |-> kind, user |-> u, code |-> code,
                              at |-> clock, deadline |-> clock + Timeout])

\* Mutant of DeadlineAtStart: the time in line is not counted.
DeadlineAfresh(d) == clock + Timeout

\* What is left of the time when it is a caller's turn.
DeadlineAtStart(d) == d

\* GET /auth/users takes a snapshot and synchronizes everybody.
Begin ==
  /\ queue # <<>> /\ ~Serving /\ clock < DeadlineAtStart(First.deadline)
  /\ queue' = [queue EXCEPT ![1].deadline = DeadlineAtStart(@)]
  /\ IF First.kind = "list"
       THEN syncs' = [u \in Users |-> "starting"] /\ before' = stored
       ELSE syncs' = [syncs EXCEPT ![First.user] = "starting"] /\ UNCHANGED before
  /\ UNCHANGED <<clock, cache, read, stored, answered, codes>>

\* A caller whose time has run out in the queue is refused at once.
Expire ==
  /\ queue # <<>> /\ ~Serving /\ clock >= DeadlineAtStart(First.deadline)
  /\ queue' = Tail(queue)
  /\ mailing' = IF First.kind = "mail" THEN mailing \ {First.user} ELSE mailing
  /\ UNCHANGED <<clock, access, sending, challenge, lastCode, mailed, opened>>

-----------------------------------------------------------------------------
(* syncHumanUserUnsafe, and the provider's shared read *)

\* Mutant of CacheValid: the list is kept for good.
CacheKept == cache.until # Never

CacheValid == cache.until > clock

\* The synchronizations of a list begin one after the other, and a cached
\* list of members may run out between two of them.
StartSync(u) ==
  /\ syncs[u] = "starting"
  /\ \/ /\ clock >= First.deadline
        /\ syncs' = [syncs EXCEPT ![u] = "failed"]
        /\ UNCHANGED <<read, stored>>
     \/ /\ clock < First.deadline /\ CacheValid
        /\ syncs' = [syncs EXCEPT ![u] = "done"]
        /\ stored' = [stored EXCEPT ![u] = cache.asOf]
        /\ UNCHANGED read
     \/ /\ clock < First.deadline /\ ~CacheValid
        /\ syncs' = [syncs EXCEPT ![u] = "waiting"]
        /\ read' = IF read.state = "none" THEN [state |-> "started", asOf |-> Never] ELSE read
        /\ UNCHANGED stored
  /\ UNCHANGED <<clock, queue, cache, before, answered, codes>>

\* Infisical looks the members up ...
ReadTaken ==
  /\ read.state = "started"
  /\ read' = [state |-> "taken", asOf |-> clock]
  /\ UNCHANGED <<clock, queue, cache, syncs, before, stored, answered, codes>>

\* ... and its answer reaches everybody who waits for it.
ReadAnswered ==
  /\ read.state = "taken" /\ Is("starting") = {}
  /\ read' = [state |-> "none", asOf |-> Never]
  /\ cache' = [asOf |-> read.asOf, until |-> clock + Ttl]
  /\ IF clock < First.deadline
       THEN /\ stored' = [u \in Users |-> IF u \in Is("waiting") THEN read.asOf ELSE stored[u]]
            /\ syncs' = [u \in Users |-> IF u \in Is("waiting") THEN "done" ELSE syncs[u]]
       ELSE /\ syncs' = [u \in Users |-> IF u \in Is("waiting") THEN "failed" ELSE syncs[u]]
            /\ UNCHANGED stored
  /\ UNCHANGED <<clock, queue, before, answered, codes>>

ReadFails ==
  /\ read.state # "none" /\ Is("starting") = {}
  /\ read' = [state |-> "none", asOf |-> Never]
  /\ syncs' = [u \in Users |-> IF u \in Is("waiting") THEN "failed" ELSE syncs[u]]
  /\ UNCHANGED <<clock, queue, cache, before, stored, answered, codes>>

\* The timer of one synchronization; the last to leave aborts the read.
TimesOut(u) ==
  /\ syncs[u] = "waiting" /\ clock >= First.deadline /\ Is("starting") = {}
  /\ syncs' = [syncs EXCEPT ![u] = "failed"]
  /\ read' = IF Is("waiting") = {u} THEN [state |-> "none", asOf |-> Never] ELSE read
  /\ UNCHANGED <<clock, queue, cache, before, stored, answered, codes>>

-----------------------------------------------------------------------------
(* What a caller does with the outcome. *)

Settled == Serving /\ Is("starting") = {} /\ Is("waiting") = {}
Failed  == Is("failed") # {}

Leaves ==
  /\ queue' = Tail(queue) /\ syncs' = Idle
  /\ before' = [u \in Users |-> Never]
  /\ UNCHANGED <<clock, cache, read>>

\* Mutant of RolledBack: only those are restored whose synchronization failed.
RolledBackIfFailed(u) == IF syncs[u] = "failed" THEN before[u] ELSE stored[u]

RolledBack(u) == before[u]

\* One failure degrades the whole employee list, and everybody's grants are
\* put back to what they were.
Listed ==
  /\ Settled /\ First.kind = "list" /\ Leaves
  /\ IF Failed
       THEN stored' = [u \in Users |-> RolledBack(u)] /\ UNCHANGED answered
       ELSE answered' = stored /\ UNCHANGED stored
  /\ UNCHANGED codes

\* The answer of one synchronization, an error if it failed.
Told(u) ==
  /\ answered' = IF Failed THEN answered ELSE [answered EXCEPT ![u] = stored[u]]
  /\ UNCHANGED stored

\* GET /auth/me, and every request of requireActiveHumanSession
Served ==
  /\ Settled /\ First.kind = "me" /\ Leaves /\ Told(First.user)
  /\ UNCHANGED codes

-----------------------------------------------------------------------------
(* E-mailed codes *)

\* Mutant of MayAsk: a request does not wait for another of the employee.
MayAskAlways(u) == TRUE

MayAsk(u) == u \notin mailing

AskForCode(u) ==
  /\ MayAsk(u) /\ Joins("mail", u, 0)
  /\ mailing' = mailing \cup {u}
  /\ UNCHANGED <<clock, access, sending, challenge, lastCode, mailed, opened>>

Rested(u) == lastCode[u] = Never \/ First.at - lastCode[u] >= Cooldown

\* Without access, or too soon after the last code, none is sent.
CodeMailed ==
  LET u == First.user IN
  /\ Settled /\ First.kind = "mail" /\ Leaves /\ Told(u)
  /\ \/ /\ ~Failed /\ Rested(u) /\ mailed[u] < MaxCodes
        /\ mailed' = [mailed EXCEPT ![u] = @ + 1]
        /\ sending' = sending \cup {[user |-> u, code |-> mailed[u] + 1, at |-> First.at]}
        /\ UNCHANGED mailing
     \/ /\ mailing' = mailing \ {u} /\ UNCHANGED <<mailed, sending>>
  /\ UNCHANGED <<challenge, lastCode, opened>>

\* Once the mail server has the message the code is stored, and the one
\* before it no longer counts.
MailAccepted(m) ==
  /\ m \in sending
  /\ sending' = sending \ {m} /\ mailing' = mailing \ {m.user}
  /\ challenge' = [challenge EXCEPT ![m.user] =
                     [code |-> m.code, left |-> Attempts, until |-> m.at + CodeTtl]]
  /\ lastCode' = [lastCode EXCEPT ![m.user] = m.at]
  /\ UNCHANGED <<clock, queue, access, mailed, opened>>

MailRefused(m) ==
  /\ m \in sending
  /\ sending' = sending \ {m} /\ mailing' = mailing \ {m.user}
  /\ UNCHANGED <<clock, queue, access, challenge, lastCode, mailed, opened>>

\* Mutant of Consumed: the code is left until the session is there.
ConsumedLater(u) == UNCHANGED challenge

Consumed(u) == challenge' = [challenge EXCEPT ![u] = None]

\* verifyEmailOtpChallenge: the code is used up before anything is awaited.
TryCode(u, code) ==
  LET c == challenge[u] IN
  /\ c # None
  /\ \/ c.until <= clock /\ Consumed(u) /\ UNCHANGED queue
     \/ /\ c.until > clock /\ c.code # code
        /\ IF c.left = 1 THEN Consumed(u)
                         ELSE challenge' = [challenge EXCEPT ![u].left = @ - 1]
        /\ UNCHANGED queue
     \/ c.until > clock /\ c.code = code /\ Consumed(u) /\ Joins("verify", u, code)
  /\ UNCHANGED <<clock, access, mailing, sending, lastCode, mailed, opened>>

SignedIn ==
  LET u == First.user IN
  /\ Settled /\ First.kind = "verify" /\ Leaves /\ Told(u)
  /\ \/ ~Failed /\ opened' = [opened EXCEPT ![u][First.code] = @ + 1]
     \/ UNCHANGED opened
  /\ UNCHANGED <<mailing, sending, challenge, lastCode, mailed>>

-----------------------------------------------------------------------------
AskForAccess(u) ==
  /\ Joins("me", u, 0) /\ UNCHANGED <<clock, access, codes>>

AskForList ==
  /\ Joins("list", Everybody, 0) /\ UNCHANGED <<clock, access, codes>>

\* A restart forgets the queue, the cache and the requests being worked on.
Restart ==
  /\ queue' = <<>> /\ syncs' = Idle /\ mailing' = {} /\ sending' = {}
  /\ cache' = [asOf |-> Never, until |-> Never]
  /\ read' = [state |-> "none", asOf |-> Never]
  /\ answered' = stored /\ before' = [u \in Users |-> Never]
  /\ UNCHANGED <<clock, stored, challenge, lastCode, mailed, opened>>

\* Time passes while somebody is waited for, or nobody is in line.
Tick ==
  /\ clock < MaxClock
  /\ queue = <<>> \/ (Serving /\ ~Settled /\ clock < First.deadline)
  /\ clock' = clock + 1
  /\ UNCHANGED <<queue, access, codes>>

Next ==
  \/ \E u \in Users :
       AskForAccess(u) \/ StartSync(u) \/ TimesOut(u)
  \/ \E u \in CodeUsers :
       AskForCode(u) \/ \E code \in 0..MaxCodes : TryCode(u, code)
  \/ \E m \in sending : MailAccepted(m) \/ MailRefused(m)
  \/ AskForList \/ Begin \/ Expire \/ ReadTaken \/ ReadAnswered \/ ReadFails
  \/ Listed \/ Served \/ CodeMailed \/ SignedIn
  \/ Restart \/ Tick

Spec == Init /\ [][Next]_vars

-----------------------------------------------------------------------------
(* Properties *)

\* Between two callers the stored grants are the ones the hub last told
\* somebody: a degraded employee list leaves nothing of itself behind and
\* takes nobody else's result back.  ("the employee-list snapshot and rollback
\* must be mutually exclusive with every grants.replaceInfisical writer")
SettledGrantsWereTold == ~Serving => stored = answered

\* Nobody who waits, in line or served, waits past the time-out counted from
\* joining: "a caller therefore never receives a fresh timeout merely because
\* earlier work occupied the queue".  (createDeadlineQueue)
AnsweredInTime ==
  \A i \in 1..Len(queue) : clock - queue[i].at <= Timeout

\* Grants are written from memberships that held at most a cache's life and a
\* timeout ago, and never from older ones than before, save for the roll-back
\* of a degraded list.  (projectsFor, the abort of abandoned reads)
GrantsAreFresh ==
  [][ \A u \in Users :
        stored'[u] # stored[u] /\ ~(Settled /\ Failed)
          => stored'[u] > stored[u] /\ clock - stored'[u] < Ttl + Timeout ]_vars

\* A code opens at most one session, also when it is sent in several times
\* while the first is still being synchronized.  (verifyEmailOtpChallenge)
CodeOpensOneSession ==
  \A u \in Users : \A k \in 1..MaxCodes : opened[u][k] <= 1

\* The requests for two codes of one employee are a cooldown apart, however
\* many of them are in line and however slow the mail server is.
CodesAreApart ==
  [][ \A u \in Users :
        challenge'[u] # None /\ challenge'[u].code # challenge[u].code /\ lastCode[u] # Never
          => lastCode'[u] - lastCode[u] >= Cooldown ]_vars
=============================================================================
