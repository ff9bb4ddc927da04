-------------------------- MODULE HumanAccessProofs --------------------------
(***************************************************************************)
(* Proofs about HumanAccess for every value of its constants.              *)
(*                                                                         *)
(* 1. Types, and how a step changes the queue.                             *)
(***************************************************************************)
EXTENDS HumanAccess, TLAPS

SyncStates == {"idle", "starting", "waiting", "done", "failed"}

\* The challenges there can be.
Challenges == [code: 1..MaxCodes, left: 1..Attempts, until: Nat]

\* The values that only the code part of the state has.
CodeTypes ==
  /\ mailing \subseteq Users
  /\ sending \subseteq [user: Users, code: 1..MaxCodes, at: Times]
  /\ challenge \in [Users -> {None} \cup Challenges]
  /\ lastCode \in [Users -> Times]
  /\ mailed \in [Users -> 0..MaxCodes]
  /\ opened \in [Users -> [1..MaxCodes -> Nat]]

\* The values of the synchronizations and of what they read and write.
AccessTypes ==
  /\ cache \in [asOf: Times, until: Nat]
  /\ read \in [state: {"none", "started", "taken"}, asOf: Times]
  /\ syncs \in [Users -> SyncStates]
  /\ before \in [Users -> Times] /\ stored \in [Users -> Times] /\ answered \in [Users -> Times]

\* Those of the line.
QueueTypes ==
  /\ queue \in Seq(Calls)
  /\ \A i \in 1..Len(queue) : queue[i].kind = "list" \/ queue[i].user \in Users

\* Every variable has its type; the caller who is served is in line.
Types ==
  /\ clock \in 1..MaxClock
  /\ QueueTypes /\ AccessTypes /\ CodeTypes
  /\ Serving => queue # <<>>

\* The bounds are numbers, one by one.
LEMMA Numbers ==
  /\ Timeout \in Nat /\ Timeout >= 1 /\ Ttl \in Nat /\ Ttl >= 1
  /\ Cooldown \in Nat /\ Cooldown >= 1 /\ CodeTtl \in Nat
  /\ Attempts \in Nat /\ Attempts >= 1 /\ MaxClock \in Nat /\ MaxClock >= 1
  /\ MaxCodes \in Nat
<1>1. \A n \in Nat \ {0} : n \in Nat /\ n >= 1
  OBVIOUS
<1>2. {Timeout, Ttl, Cooldown, CodeTtl, Attempts, MaxClock} \subseteq Nat \ {0} /\ MaxCodes \in Nat
  BY BoundsAreNumbers
<1> QED BY <1>1, <1>2

\* What is appended is a call.
LEMMA JoinedQueue ==
  ASSUME Types, NEW kind \in {"list", "me", "mail", "verify"},
         NEW u \in Users \cup {Everybody}, NEW code \in 0..MaxCodes,
         kind = "list" \/ u \in Users,
         Joins(kind, u, code)
  PROVE  /\ queue' \in Seq(Calls)
         /\ Len(queue') = Len(queue) + 1
         /\ \A i \in 1..Len(queue) : queue'[i] = queue[i]
         /\ queue'[Len(queue) + 1] = [kind |-> kind, user |-> u, code |-> code,
                                      at |-> clock, deadline |-> clock + Timeout]
<1> DEFINE c == [kind |-> kind, user |-> u, code |-> code, at |-> clock, deadline |-> clock + Timeout]
<1>1. c \in Calls
  <2>1. clock \in Times /\ clock + Timeout \in 0..(MaxClock + Timeout)
    BY Numbers DEF Types, Times
  <2> QED BY <2>1 DEF Calls
<1> HIDE DEF c
<1>2. queue' = Append(queue, c) /\ queue \in Seq(Calls)
  BY DEF Joins, Types, QueueTypes, c
<1>3. /\ queue' \in Seq(Calls) /\ Len(queue') = Len(queue) + 1
      /\ \A i \in 1..Len(queue) : queue'[i] = queue[i]
      /\ queue'[Len(queue) + 1] = c
  BY <1>1, <1>2
<1> QED BY <1>3 DEF c

\* What is left when the first one leaves.
LEMMA LeftQueue ==
  ASSUME Types, queue # <<>>, queue' = Tail(queue)
  PROVE  /\ queue' \in Seq(Calls)
         /\ Len(queue') = Len(queue) - 1 /\ Len(queue) \in Nat /\ Len(queue) >= 1
         /\ \A i \in 1..Len(queue') : queue'[i] = queue[i + 1] /\ i + 1 \in 1..Len(queue)
<1>1. queue \in Seq(Calls) /\ queue # <<>>
  BY DEF Types, QueueTypes
<1> QED BY <1>1

\* Beginning with a caller does not change the queue.
LEMMA BegunQueue ==
  ASSUME Types, Begin
  PROVE  queue' = queue
<1>1. queue \in Seq(Calls) /\ queue # <<>> /\ 1 \in DOMAIN queue /\ queue[1] \in Calls
  BY DEF Types, QueueTypes, Begin
<1>2. [queue[1] EXCEPT !.deadline = queue[1].deadline] = queue[1]
  BY <1>1 DEF Calls
<1>3. queue' = [queue EXCEPT ![1] = [queue[1] EXCEPT !.deadline = queue[1].deadline]]
  BY DEF Begin, DeadlineAtStart
<1> QED BY <1>1, <1>2, <1>3

\* The first state is typed.
LEMMA InitTypes == Init => Types
<1> SUFFICES ASSUME Init PROVE Types
  OBVIOUS
<1>1. Never \in Times /\ 1 \in 1..MaxClock /\ Never \in Nat
  BY Numbers DEF Times, Never
<1>2. AccessTypes
  BY <1>1 DEF Init, AccessTypes, Idle, SyncStates
<1>3. CodeTypes
  <2>1. 0 \in 0..MaxCodes
    BY Numbers
  <2> QED BY <1>1, <2>1 DEF Init, CodeTypes
<1>4. QueueTypes /\ clock \in 1..MaxClock /\ ~Serving
  BY <1>1 DEF Init, QueueTypes, Serving
<1> QED BY <1>2, <1>3, <1>4 DEF Types

\* Joining and leaving keep the line typed.
LEMMA JoinedTypes ==
  ASSUME Types, NEW kind \in {"list", "me", "mail", "verify"},
         NEW u \in Users \cup {Everybody}, NEW code \in 0..MaxCodes,
         kind = "list" \/ u \in Users,
         Joins(kind, u, code)
  PROVE  QueueTypes' /\ queue' # <<>>
<1>1. /\ queue' \in Seq(Calls) /\ Len(queue') = Len(queue) + 1 /\ Len(queue) \in Nat
      /\ \A i \in 1..Len(queue) : queue'[i] = queue[i]
      /\ queue'[Len(queue) + 1].kind = kind /\ queue'[Len(queue) + 1].user = u
  <2>1. Len(queue) \in Nat
    BY DEF Types, QueueTypes
  <2>2. /\ queue' \in Seq(Calls) /\ Len(queue') = Len(queue) + 1
        /\ \A i \in 1..Len(queue) : queue'[i] = queue[i]
        /\ queue'[Len(queue) + 1] = [kind |-> kind, user |-> u, code |-> code,
                                     at |-> clock, deadline |-> clock + Timeout]
    BY JoinedQueue
  <2> QED BY <2>1, <2>2
<1>2. ASSUME NEW i \in 1..Len(queue')
      PROVE  queue'[i].kind = "list" \/ queue'[i].user \in Users
  <2>1. CASE i = Len(queue) + 1
    BY <1>1, <2>1
  <2>2. CASE i # Len(queue) + 1
    <3>1. i \in 1..Len(queue)
      BY <1>1, <2>2
    <3> QED BY <1>1, <3>1 DEF Types, QueueTypes
  <2> QED BY <2>1, <2>2
<1>3. queue' # <<>>
  BY <1>1
<1> QED BY <1>1, <1>2, <1>3 DEF QueueTypes

LEMMA LeftTypes ==
  ASSUME Types, queue # <<>>, queue' = Tail(queue)
  PROVE  QueueTypes'
<1>1. /\ queue' \in Seq(Calls)
      /\ \A i \in 1..Len(queue') : queue'[i] = queue[i + 1] /\ i + 1 \in 1..Len(queue)
  BY LeftQueue
<1> QED BY <1>1 DEF QueueTypes, Types

\* So is the caller who is first.
LEMMA FirstType ==
  ASSUME Types, queue # <<>>
  PROVE  /\ First \in Calls /\ 1 \in 1..Len(queue)
         /\ First.kind = "list" \/ First.user \in Users
<1>1. queue \in Seq(Calls) /\ queue # <<>>
  BY DEF Types, QueueTypes
<1>2. queue[1] \in Calls /\ 1 \in 1..Len(queue)
  BY <1>1
<1> QED BY <1>2 DEF Types, QueueTypes, First

\* The line and what is in it when nobody joins or leaves.
LEMMA SameQueue ==
  ASSUME Types, queue' = queue
  PROVE  QueueTypes'
  BY DEF Types, QueueTypes

\* The access part of a caller who leaves.
LEMMA LeavesTypes ==
  ASSUME Types, Serving, Leaves, answered' \in [Users -> Times], stored' \in [Users -> Times]
  PROVE  QueueTypes' /\ AccessTypes' /\ ~Serving' /\ clock' \in 1..MaxClock
<1>1. QueueTypes'
  BY LeftTypes DEF Types, Leaves
<1>2. Never \in Times
  BY Numbers DEF Never, Times
<1>3. AccessTypes'
  BY <1>2 DEF Types, AccessTypes, Leaves, Idle, SyncStates
<1> QED BY <1>1, <1>3 DEF Leaves, Serving, Types

LEMMA ToldTypes ==
  ASSUME Types, NEW u \in Users, Told(u)
  PROVE  answered' \in [Users -> Times] /\ stored' \in [Users -> Times]
  BY DEF Types, AccessTypes, Told

\* Serving and its callers
LEMMA ServiceTypes ==
  ASSUME Types, Begin \/ Expire \/ Listed \/ Served
  PROVE  Types'
<1>1. CASE Begin
  <2>1. queue' = queue /\ queue # <<>> /\ QueueTypes'
    BY <1>1, BegunQueue, SameQueue DEF Begin
  <2>2. First.kind = "list" \/ First.user \in Users
    BY <1>1, FirstType DEF Begin
  <2>3. AccessTypes'
    BY <1>1, <2>2 DEF Begin, Types, AccessTypes, SyncStates
  <2> QED BY <1>1, <2>1, <2>3 DEF Begin, Types, CodeTypes, codes
<1>2. CASE Expire
  <2>1. QueueTypes'
    BY <1>2, LeftTypes DEF Expire
  <2>2. AccessTypes' /\ CodeTypes' /\ ~Serving' /\ clock' \in 1..MaxClock
    BY <1>2 DEF Expire, Types, AccessTypes, CodeTypes, access, Serving, Idle
  <2> QED BY <2>1, <2>2 DEF Types
<1>3. CASE Listed
  <2>1. answered' \in [Users -> Times] /\ stored' \in [Users -> Times]
    BY <1>3 DEF Listed, Types, AccessTypes, RolledBack
  <2>2. QueueTypes' /\ AccessTypes' /\ ~Serving' /\ clock' \in 1..MaxClock
    BY <1>3, <2>1, LeavesTypes DEF Listed, Settled
  <2> QED BY <1>3, <2>2 DEF Listed, Types, CodeTypes, codes
<1>4. CASE Served
  <2>1. First.user \in Users
    BY <1>4, FirstType DEF Served, Settled, Types
  <2>2. QueueTypes' /\ AccessTypes' /\ ~Serving' /\ clock' \in 1..MaxClock
    BY <1>4, <2>1, ToldTypes, LeavesTypes DEF Served, Settled
  <2> QED BY <1>4, <2>2 DEF Served, Types, CodeTypes, codes
<1> QED BY <1>1, <1>2, <1>3, <1>4

\* the synchronizations and their read
LEMMA SyncTypes ==
  ASSUME Types,
         \/ \E u \in Users : StartSync(u) \/ TimesOut(u)
         \/ ReadTaken \/ ReadAnswered \/ ReadFails
  PROVE  Types'
<1>1. /\ QueueTypes' /\ CodeTypes' /\ clock' \in 1..MaxClock
      /\ queue' = queue /\ clock \in Times /\ Never \in Times /\ Ttl \in Nat
  <2>1. queue' = queue /\ UNCHANGED <<clock, codes>>
    BY DEF StartSync, TimesOut, ReadTaken, ReadAnswered, ReadFails
  <2>2. QueueTypes' /\ CodeTypes' /\ clock' \in 1..MaxClock
    BY <2>1, SameQueue DEF Types, CodeTypes, codes
  <2>3. clock \in Times /\ Never \in Times /\ Ttl \in Nat
    BY Numbers DEF Types, Times, Never
  <2> QED BY <2>1, <2>2, <2>3
<1>2. AccessTypes'
  <2>1. ASSUME NEW u \in Users, StartSync(u) PROVE AccessTypes'
    BY <1>1, <2>1 DEF StartSync, Types, AccessTypes, SyncStates
  <2>2. ASSUME NEW u \in Users, TimesOut(u) PROVE AccessTypes'
    BY <1>1, <2>2 DEF TimesOut, Types, AccessTypes, SyncStates
  <2>3. CASE ReadTaken
    BY <1>1, <2>3 DEF ReadTaken, Types, AccessTypes
  <2>4. CASE ReadAnswered
    <3>1. cache' \in [asOf: Times, until: Nat] /\ read' \in [state: {"none", "started", "taken"}, asOf: Times]
      BY <1>1, <2>4, Numbers DEF ReadAnswered, Types, AccessTypes, Times
    <3>2. /\ syncs' \in [Users -> SyncStates] /\ stored' \in [Users -> Times]
      BY <2>4 DEF ReadAnswered, Types, AccessTypes, SyncStates
    <3> QED BY <2>4, <3>1, <3>2 DEF ReadAnswered, Types, AccessTypes
  <2>5. CASE ReadFails
    BY <1>1, <2>5 DEF ReadFails, Types, AccessTypes, SyncStates
  <2> QED BY <2>1, <2>2, <2>3, <2>4, <2>5
<1>3. Serving' => Serving
  <2> SUFFICES ASSUME syncs = Idle PROVE syncs' = Idle
    BY DEF Serving
  <2>1. \A u \in Users : syncs[u] = "idle"
    BY DEF Idle
  <2>2. ReadTaken \/ ReadAnswered \/ ReadFails
    BY <2>1 DEF StartSync, TimesOut
  <2>3. CASE ReadTaken
    BY <2>3 DEF ReadTaken
  <2>4. CASE ReadAnswered
    BY <2>1, <2>4 DEF ReadAnswered, Idle, Is
  <2>5. CASE ReadFails
    BY <2>1, <2>5 DEF ReadFails, Idle, Is
  <2> QED BY <2>2, <2>3, <2>4, <2>5
<1> QED BY <1>1, <1>2, <1>3 DEF Types

\* the codes
LEMMA MailTypes ==
  ASSUME Types,
         \/ CodeMailed \/ SignedIn
         \/ \E m \in sending : MailAccepted(m) \/ MailRefused(m)
  PROVE  Types'
<1>1. CASE CodeMailed
  <2>1. First \in Calls /\ First.user \in Users
    BY <1>1, FirstType DEF CodeMailed, Settled, Types
  <2>2. QueueTypes' /\ AccessTypes' /\ ~Serving' /\ clock' \in 1..MaxClock
    BY <1>1, <2>1, ToldTypes, LeavesTypes DEF CodeMailed, Settled
  <2>3. CodeTypes'
    <3>1. CASE UNCHANGED <<mailed, sending>> /\ mailing' = mailing \ {First.user}
      BY <1>1, <3>1 DEF CodeMailed, Types, CodeTypes
    <3>2. CASE /\ mailed[First.user] < MaxCodes
               /\ mailed' = [mailed EXCEPT ![First.user] = @ + 1]
               /\ sending' = sending \cup {[user |-> First.user, code |-> mailed[First.user] + 1,
                                            at |-> First.at]}
               /\ UNCHANGED mailing
      <4>1. mailed[First.user] + 1 \in 1..MaxCodes /\ mailed[First.user] + 1 \in 0..MaxCodes
        BY <2>1, <3>2, Numbers DEF Types, CodeTypes
      <4>2. First.at \in Times
        BY <2>1 DEF Calls
      <4>3. sending' \subseteq [user: Users, code: 1..MaxCodes, at: Times]
        BY <2>1, <3>2, <4>1, <4>2 DEF Types, CodeTypes
      <4>4. mailed' \in [Users -> 0..MaxCodes]
        BY <3>2, <4>1 DEF Types, CodeTypes
      <4> QED BY <1>1, <3>2, <4>3, <4>4 DEF CodeMailed, Types, CodeTypes
    <3> QED BY <1>1, <3>1, <3>2 DEF CodeMailed
  <2> QED BY <2>2, <2>3 DEF Types
<1>2. CASE SignedIn
  <2>1. First.user \in Users
    BY <1>2, FirstType DEF SignedIn, Settled, Types
  <2>2. QueueTypes' /\ AccessTypes' /\ ~Serving' /\ clock' \in 1..MaxClock
    BY <1>2, <2>1, ToldTypes, LeavesTypes DEF SignedIn, Settled
  <2>3. opened' \in [Users -> [1..MaxCodes -> Nat]]
    <3>1. ASSUME NEW f \in [1..MaxCodes -> Nat], NEW k
          PROVE  [f EXCEPT ![k] = @ + 1] \in [1..MaxCodes -> Nat]
      <4>1. CASE k \in 1..MaxCodes
        <5>1. f[k] + 1 \in Nat
          BY <4>1
        <5> QED BY <5>1
      <4>2. CASE k \notin 1..MaxCodes
        <5>1. [f EXCEPT ![k] = @ + 1] = f
          BY <4>2
        <5> QED BY <5>1
      <4> QED BY <4>1, <4>2
    <3>2. opened[First.user] \in [1..MaxCodes -> Nat]
      BY <2>1 DEF Types, CodeTypes
    <3>3. [opened[First.user] EXCEPT ![First.code] = @ + 1] \in [1..MaxCodes -> Nat]
      BY <3>1, <3>2
    <3> QED BY <1>2, <3>3 DEF SignedIn, Types, CodeTypes
  <2> QED BY <1>2, <2>2, <2>3 DEF SignedIn, Types, CodeTypes
<1>3. ASSUME NEW m \in sending, MailAccepted(m) \/ MailRefused(m)
      PROVE  Types'
  <2>1. /\ QueueTypes' /\ AccessTypes' /\ clock' \in 1..MaxClock
        /\ Serving' => queue' # <<>>
    BY <1>3, SameQueue DEF MailAccepted, MailRefused, Types, AccessTypes, access, Serving, Idle
  <2>2. m.user \in Users /\ m.code \in 1..MaxCodes /\ m.at \in Times
    BY DEF Types, CodeTypes
  <2>3. [code |-> m.code, left |-> Attempts, until |-> m.at + CodeTtl] \in Challenges
    BY <2>2, Numbers DEF Challenges, Times
  <2>4. CodeTypes'
    <3>1. mailing' \subseteq Users /\ sending' \subseteq [user: Users, code: 1..MaxCodes, at: Times]
      BY <1>3 DEF MailAccepted, MailRefused, Types, CodeTypes
    <3>2. challenge' \in [Users -> {None} \cup Challenges]
      BY <1>3, <2>3 DEF MailAccepted, MailRefused, Types, CodeTypes
    <3>3. lastCode' \in [Users -> Times]
      BY <1>3, <2>2 DEF MailAccepted, MailRefused, Types, CodeTypes
    <3> QED BY <1>3, <3>1, <3>2, <3>3 DEF MailAccepted, MailRefused, Types, CodeTypes
  <2> QED BY <2>1, <2>4 DEF Types
<1> QED BY <1>1, <1>2, <1>3

LEMMA TryTypes ==
  ASSUME Types, NEW u \in Users, NEW code \in 0..MaxCodes, TryCode(u, code)
  PROVE  Types'
<1>1. challenge[u] \in Challenges
  BY DEF TryCode, Types, CodeTypes
<1>2. challenge' \in [Users -> {None} \cup Challenges]
  <2>1. CASE Consumed(u)
    BY <2>1 DEF Consumed, Types, CodeTypes
  <2>2. CASE challenge[u].left # 1 /\ challenge' = [challenge EXCEPT ![u].left = @ - 1]
    <3>1. [challenge[u] EXCEPT !.left = @ - 1] \in Challenges
      BY <1>1, <2>2, Numbers DEF Challenges
    <3> QED BY <2>2, <3>1 DEF Types, CodeTypes
  <2> QED BY <2>1, <2>2 DEF TryCode
<1>3. QueueTypes' /\ (queue # <<>> => queue' # <<>>)
  <2>1. CASE UNCHANGED queue
    BY <2>1, SameQueue
  <2>2. CASE Joins("verify", u, code)
    BY <2>2, JoinedTypes
  <2> QED BY <2>1, <2>2 DEF TryCode
<1>4. CodeTypes'
  BY <1>2 DEF TryCode, Types, CodeTypes
<1>5. AccessTypes' /\ clock' \in 1..MaxClock /\ (Serving' => Serving)
  BY DEF TryCode, Types, AccessTypes, access, Serving, Idle
<1> QED BY <1>3, <1>4, <1>5 DEF Types

\* those who join, and the rest.
LEMMA OtherTypes ==
  ASSUME Types,
         \/ \E u \in Users : AskForAccess(u)
         \/ \E u \in CodeUsers : AskForCode(u)
         \/ AskForList \/ Restart \/ Tick
  PROVE  Types'
<1> 0 \in 0..MaxCodes /\ CodeUsers \subseteq Users
  BY Numbers, BoundsAreNumbers
<1>1. ASSUME NEW u \in Users, AskForAccess(u) PROVE Types'
  <2>1. QueueTypes' /\ queue' # <<>>
    BY <1>1, JoinedTypes DEF AskForAccess
  <2> QED BY <1>1, <2>1 DEF AskForAccess, Types, AccessTypes, CodeTypes, access, codes
<1>2. ASSUME NEW u \in CodeUsers, AskForCode(u) PROVE Types'
  <2>1. QueueTypes' /\ queue' # <<>>
    BY <1>2, JoinedTypes DEF AskForCode
  <2> QED BY <1>2, <2>1 DEF AskForCode, Types, AccessTypes, CodeTypes, access
<1>3. CASE AskForList
  <2>1. QueueTypes' /\ queue' # <<>>
    BY <1>3, JoinedTypes DEF AskForList
  <2> QED BY <1>3, <2>1 DEF AskForList, Types, AccessTypes, CodeTypes, access, codes
<1>4. CASE Restart
  <2>1. Never \in Times /\ Never \in Nat
    BY Numbers DEF Never, Times
  <2>2. AccessTypes'
    BY <1>4, <2>1 DEF Restart, Types, AccessTypes, Idle, SyncStates
  <2>3. QueueTypes' /\ ~Serving'
    BY <1>4 DEF Restart, QueueTypes, Serving
  <2> QED BY <1>4, <2>2, <2>3 DEF Restart, Types, CodeTypes
<1>5. CASE Tick
  <2>1. clock' \in 1..MaxClock
    BY <1>5, Numbers DEF Tick, Types
  <2>2. QueueTypes'
    BY <1>5, SameQueue DEF Tick
  <2> QED BY <1>5, <2>1, <2>2 DEF Tick, Types, AccessTypes, CodeTypes, access, codes, Serving, Idle
<1> QED BY <1>1, <1>2, <1>3, <1>4, <1>5

\* Types are kept by every step.
LEMMA StepTypes == Types /\ [Next]_vars => Types'
<1> SUFFICES ASSUME Types, [Next]_vars PROVE Types'
  OBVIOUS
<1>1. CASE UNCHANGED vars
  <2>1. QueueTypes'
    BY <1>1, SameQueue DEF vars
  <2> QED BY <1>1, <2>1 DEF vars, Types, AccessTypes, CodeTypes, access, codes, Serving, Idle
<1>2. CASE Next
  BY <1>2, ServiceTypes, SyncTypes, MailTypes, TryTypes, OtherTypes, BoundsAreNumbers DEF Next
<1> QED BY <1>1, <1>2

\* Every variable has its type.
THEOREM AccessTypesCorrect == Spec => []Types
<1> QED BY InitTypes, StepTypes, PTL DEF Spec

(***************************************************************************)
(* 2. Nobody waits past the time-out.  Deadlines are a time-out after       *)
(* joining, and callers join in the order of time: while the first one's    *)
(* deadline is ahead, so are all the others'.                               *)
(***************************************************************************)
Punctual ==
  /\ \A i \in 1..Len(queue) :
       /\ queue[i].deadline = queue[i].at + Timeout
       /\ queue[i].at <= clock /\ clock <= queue[i].deadline
  /\ \A i, j \in 1..Len(queue) : i <= j => queue[i].at <= queue[j].at

\* Somebody joins.
Joining ==
  \E kind \in {"list", "me", "mail", "verify"}, u \in Users \cup {Everybody}, code \in 0..MaxCodes :
    /\ kind = "list" \/ u \in Users
    /\ Joins(kind, u, code)

\* What a step can do to the queue and the clock.
LEMMA QueueMoves ==
  ASSUME Types, [Next]_vars
  PROVE  \/ queue' = queue /\ UNCHANGED clock
         \/ Joining /\ UNCHANGED clock
         \/ queue # <<>> /\ queue' = Tail(queue) /\ UNCHANGED clock
         \/ queue' = <<>> /\ UNCHANGED clock
         \/ Tick
<1> DEFINE Goal == \/ queue' = queue /\ UNCHANGED clock
                   \/ Joining /\ UNCHANGED clock
                   \/ queue # <<>> /\ queue' = Tail(queue) /\ UNCHANGED clock
                   \/ queue' = <<>> /\ UNCHANGED clock
                   \/ Tick
<1> 0 \in 0..MaxCodes /\ CodeUsers \subseteq Users
  BY Numbers, BoundsAreNumbers
<1>1. CASE UNCHANGED vars
  BY <1>1 DEF vars
<1>2. ASSUME NEW u \in Users, AskForAccess(u) \/ StartSync(u) \/ TimesOut(u) PROVE Goal
  BY <1>2 DEF AskForAccess, StartSync, TimesOut, Joining
<1>3. ASSUME NEW u \in CodeUsers, AskForCode(u) PROVE Goal
  BY <1>3 DEF AskForCode, Joining
<1>4. ASSUME NEW u \in CodeUsers, NEW code \in 0..MaxCodes, TryCode(u, code) PROVE Goal
  BY <1>4 DEF TryCode, Joining
<1>5. ASSUME NEW m \in sending, MailAccepted(m) \/ MailRefused(m) PROVE Goal
  BY <1>5 DEF MailAccepted, MailRefused
<1>6. CASE AskForList
  BY <1>6 DEF AskForList, Joining
<1>7. CASE Begin
  BY <1>7, BegunQueue DEF Begin
<1>8. CASE Expire \/ ReadTaken \/ ReadAnswered \/ ReadFails \/ Restart \/ Tick
  BY <1>8 DEF Expire, ReadTaken, ReadAnswered, ReadFails, Restart
<1>9. CASE Listed \/ Served \/ CodeMailed \/ SignedIn
  BY <1>9 DEF Listed, Served, CodeMailed, SignedIn, Leaves, Settled, Types
<1> QED BY <1>1, <1>2, <1>3, <1>4, <1>5, <1>6, <1>7, <1>8, <1>9 DEF Next

\* The queue is punctual at the start and stays so.
LEMMA InitPunctual == Init => Punctual
  BY DEF Init, Punctual

LEMMA StepPunctual == Types /\ Punctual /\ [Next]_vars => Punctual'
<1> SUFFICES ASSUME Types, Punctual, [Next]_vars PROVE Punctual'
  OBVIOUS
<1>0. Len(queue) \in Nat /\ clock \in Nat /\ Timeout \in Nat
      /\ \A i \in 1..Len(queue) : queue[i].at \in Nat
  <2>1. queue \in Seq(Calls)
    BY DEF Types, QueueTypes
  <2>2. \A c \in Calls : c.at \in Nat
    BY Numbers DEF Calls, Times
  <2>3. \A i \in 1..Len(queue) : queue[i] \in Calls
    BY <2>1
  <2> QED BY <2>1, <2>2, <2>3, Numbers DEF Types
<1>1. CASE queue' = queue /\ UNCHANGED clock
  BY <1>1 DEF Punctual
<1>2. CASE Joining /\ UNCHANGED clock
  <2>1. /\ Len(queue') = Len(queue) + 1
        /\ \A i \in 1..Len(queue) : queue'[i] = queue[i]
        /\ queue'[Len(queue) + 1].at = clock
        /\ queue'[Len(queue) + 1].deadline = clock + Timeout
    <3>1. PICK kind \in {"list", "me", "mail", "verify"}, u \in Users \cup {Everybody}, code \in 0..MaxCodes :
            (kind = "list" \/ u \in Users) /\ Joins(kind, u, code)
      BY <1>2 DEF Joining
    <3>2. /\ Len(queue') = Len(queue) + 1
          /\ \A i \in 1..Len(queue) : queue'[i] = queue[i]
          /\ queue'[Len(queue) + 1] = [kind |-> kind, user |-> u, code |-> code,
                                       at |-> clock, deadline |-> clock + Timeout]
      BY <3>1, JoinedQueue
    <3> QED BY <3>2
  <2>2. \A i \in 1..Len(queue') : i = Len(queue) + 1 \/ i \in 1..Len(queue)
    BY <1>0, <2>1
  <2>3. ASSUME NEW i \in 1..Len(queue')
        PROVE  /\ queue'[i].deadline = queue'[i].at + Timeout
               /\ queue'[i].at <= clock /\ clock <= queue'[i].deadline
    BY <1>0, <2>1, <2>2 DEF Punctual
  <2>4. ASSUME NEW i \in 1..Len(queue'), NEW j \in 1..Len(queue'), i <= j
        PROVE  queue'[i].at <= queue'[j].at
    <3>1. CASE j = Len(queue) + 1
      BY <1>0, <2>1, <2>3, <3>1
    <3>2. CASE j \in 1..Len(queue)
      <4>1. i \in 1..Len(queue)
        BY <1>0, <2>4, <3>2
      <4> QED BY <2>1, <2>4, <3>2, <4>1 DEF Punctual
    <3> QED BY <2>2, <3>1, <3>2
  <2> QED BY <1>2, <2>3, <2>4 DEF Punctual
<1>3. CASE queue # <<>> /\ queue' = Tail(queue) /\ UNCHANGED clock
  <2>1. \A i \in 1..Len(queue') : queue'[i] = queue[i + 1] /\ i + 1 \in 1..Len(queue)
    BY <1>3, LeftQueue
  <2>2. \A i, j \in 1..Len(queue') : i <= j => i + 1 <= j + 1
    OBVIOUS
  <2> QED BY <1>3, <2>1, <2>2 DEF Punctual
<1>4. CASE queue' = <<>>
  BY <1>4 DEF Punctual
<1>5. CASE Tick
  <2>1. queue' = queue /\ clock' = clock + 1 /\ (queue = <<>> \/ clock < First.deadline)
    BY <1>5 DEF Tick
  <2>2. CASE queue = <<>>
    BY <2>1, <2>2 DEF Punctual
  <2>3. CASE queue # <<>> /\ clock < First.deadline
    <3>1. 1 \in 1..Len(queue)
      BY <2>3, FirstType
    <3>2. \A i \in 1..Len(queue) : queue[1].at <= queue[i].at
      BY <3>1 DEF Punctual
    <3>3. ASSUME NEW i \in 1..Len(queue)
          PROVE  queue[i].at <= clock + 1 /\ clock + 1 <= queue[i].deadline
      <4>1. clock < queue[1].at + Timeout /\ queue[1].at <= queue[i].at /\ queue[i].at <= clock
            /\ queue[i].deadline = queue[i].at + Timeout
        BY <2>3, <3>1, <3>2 DEF Punctual, First
      <4> QED BY <1>0, <3>1, <4>1
    <3> QED BY <2>1, <3>3 DEF Punctual
  <2> QED BY <2>1, <2>2, <2>3
<1> QED BY <1>1, <1>2, <1>3, <1>4, <1>5, QueueMoves

\* Nobody in line or served waits past the time-out counted from joining, for
\* any time-out, any number of callers and whatever the read does.
THEOREM CallersAreAnsweredInTime == Spec => []AnsweredInTime
<1>1. Spec => []Punctual
  BY AccessTypesCorrect, InitPunctual, StepPunctual, PTL DEF Spec
<1>2. Types /\ Punctual => AnsweredInTime
  <2> SUFFICES ASSUME Types, Punctual, NEW i \in 1..Len(queue)
               PROVE  clock - queue[i].at <= Timeout
    BY DEF AnsweredInTime
  <2>1. queue[i] \in Calls /\ clock \in Nat /\ Timeout \in Nat
    BY Numbers DEF Types, QueueTypes
  <2>2. queue[i].at \in Nat
    BY <2>1, Numbers DEF Calls, Times
  <2>3. clock <= queue[i].at + Timeout
    BY DEF Punctual
  <2> QED BY <2>1, <2>2, <2>3
<1> QED BY <1>1, <1>2, AccessTypesCorrect, PTL

(***************************************************************************)
(* 3. Grants are fresh.  A read in flight has somebody who waits for it, so *)
(* it belongs to the caller who is served and is younger than that caller;  *)
(* what it finds is newer than the list that is cached, and that is newer   *)
(* than everything that is stored.                                          *)
(***************************************************************************)
ReadIsAwaited == read.state # "none" => Is("waiting") # {}

CacheIsNewest ==
  cache.until # Never =>
    /\ cache.until <= cache.asOf + Timeout + Ttl
    /\ \A u \in Users : stored[u] <= cache.asOf /\ before[u] <= cache.asOf

ReadIsNewer ==
  read.state = "taken" =>
    /\ First.at <= read.asOf
    /\ cache.asOf <= read.asOf
    /\ \A u \in Users : stored[u] <= read.asOf /\ before[u] <= read.asOf

Past ==
  /\ cache.asOf <= clock /\ read.asOf <= clock
  /\ \A u \in Users : stored[u] <= clock /\ before[u] <= clock

Fresh == ReadIsAwaited /\ CacheIsNewest /\ ReadIsNewer /\ Past

\* All of them are instants.
LEMMA Instants ==
  ASSUME Types
  PROVE  /\ clock \in Nat /\ cache.asOf \in Nat /\ cache.until \in Nat /\ read.asOf \in Nat
         /\ \A u \in Users : stored[u] \in Nat /\ before[u] \in Nat /\ answered[u] \in Nat
         /\ Never \in Nat /\ Timeout \in Nat /\ Ttl \in Nat /\ Timeout >= 1 /\ Ttl >= 1
<1>1. Times \subseteq Nat
  BY Numbers DEF Times
<1>2. clock \in Nat /\ cache.asOf \in Times /\ cache.until \in Nat /\ read.asOf \in Times
  BY DEF Types, AccessTypes
<1>3. \A u \in Users : stored[u] \in Times /\ before[u] \in Times /\ answered[u] \in Times
  BY DEF Types, AccessTypes
<1>4. /\ Never \in Nat /\ Timeout \in Nat /\ Ttl \in Nat /\ Timeout >= 1 /\ Ttl >= 1
  BY Numbers DEF Never
<1> QED BY <1>1, <1>2, <1>3, <1>4

\* Nobody waits when nobody is served.
LEMMA WaitingIsServing ==
  ASSUME Types, NEW status \in SyncStates \ {"idle"}, Is(status) # {}
  PROVE  Serving
  BY DEF Types, AccessTypes, Is, Serving, Idle

\* Who joins does so behind the first one.
LEMMA FirstStays ==
  ASSUME Types, queue # <<>>, queue' = queue \/ Joining
  PROVE  First' = First
<1>1. CASE queue' = queue
  BY <1>1 DEF First
<1>2. CASE Joining
  <2>1. PICK kind \in {"list", "me", "mail", "verify"}, u \in Users \cup {Everybody}, code \in 0..MaxCodes :
          (kind = "list" \/ u \in Users) /\ Joins(kind, u, code)
    BY <1>2 DEF Joining
  <2>2. \A i \in 1..Len(queue) : queue'[i] = queue[i]
    BY <2>1, JoinedQueue
  <2>3. 1 \in 1..Len(queue)
    BY FirstType
  <2> QED BY <2>2, <2>3 DEF First
<1> QED BY <1>1, <1>2

LEMMA InitFresh == Init => Fresh
<1> SUFFICES ASSUME Init PROVE Fresh
  OBVIOUS
<1> QED BY DEF Init, Fresh, ReadIsAwaited, CacheIsNewest, ReadIsNewer, Past, Never

\* What does not touch the grants leaves them fresh.
LEMMA AsideFresh ==
  ASSUME Types, Fresh, UNCHANGED access,
         clock' = clock \/ clock' = clock + 1,
         queue' = queue \/ Joining \/ ~Serving
  PROVE  Fresh'
<1>1. ReadIsAwaited' /\ CacheIsNewest'
  BY DEF Fresh, ReadIsAwaited, CacheIsNewest, access, Is
<1>2. Past'
  <2>1. clock <= clock'
    BY Instants
  <2>2. cache'.asOf <= clock' /\ read'.asOf <= clock' /\ \A u \in Users : stored'[u] <= clock' /\ before'[u] <= clock'
    BY <2>1, Instants DEF Fresh, Past, access
  <2> QED BY <2>2 DEF Past
<1>3. ReadIsNewer'
  <2>1. CASE ~Serving
    <3>1. read.state = "none"
      BY <2>1, WaitingIsServing DEF Fresh, ReadIsAwaited, SyncStates
    <3> QED BY <3>1 DEF ReadIsNewer, access
  <2>2. CASE Serving /\ (queue' = queue \/ Joining)
    <3>1. First' = First
      BY <2>2, FirstStays DEF Types
    <3> QED BY <3>1 DEF Fresh, ReadIsNewer, access
  <2> QED BY <2>1, <2>2
<1> QED BY <1>1, <1>2, <1>3 DEF Fresh

\* One who leaves stores nothing but what was there before.
LEMMA LeavesFresh ==
  ASSUME Types, Fresh, Settled, Leaves,
         \A u \in Users : stored'[u] \in {stored[u], before[u]}
  PROVE  Fresh'
<1>1. read.state = "none" /\ UNCHANGED <<clock, cache, read>>
  BY DEF Fresh, ReadIsAwaited, Settled, Leaves
<1>2. \A u \in Users : before'[u] = Never
  BY DEF Leaves
<1>3. CacheIsNewest' /\ Past'
  BY <1>1, <1>2, Instants DEF Fresh, CacheIsNewest, Past, Never
<1> QED BY <1>1, <1>3 DEF Fresh, ReadIsAwaited, ReadIsNewer

LEMMA ServiceFresh ==
  ASSUME Types, Fresh,
         Begin \/ Listed \/ Served \/ CodeMailed \/ SignedIn
  PROVE  Fresh'
<1>1. CASE Begin
  <2>1. read.state = "none" /\ UNCHANGED <<clock, cache, read, stored>>
    BY <1>1, WaitingIsServing DEF Fresh, ReadIsAwaited, Begin, SyncStates
  <2>2. before' = stored \/ before' = before
    BY <1>1 DEF Begin
  <2>3. CacheIsNewest' /\ Past'
    BY <2>1, <2>2 DEF Fresh, CacheIsNewest, Past
  <2> QED BY <2>1, <2>3 DEF Fresh, ReadIsAwaited, ReadIsNewer
<1>2. CASE Listed
  <2>1. \A u \in Users : stored'[u] \in {stored[u], before[u]}
    BY <1>2 DEF Listed, RolledBack
  <2> QED BY <1>2, <2>1, LeavesFresh DEF Listed
<1>3. CASE Served \/ CodeMailed \/ SignedIn
  <2>1. Settled /\ Leaves /\ stored' = stored
    BY <1>3 DEF Served, CodeMailed, SignedIn, Told
  <2> QED BY <2>1, LeavesFresh
<1> QED BY <1>1, <1>2, <1>3

\* The synchronizations of the one who is served.
LEMMA StartSyncFresh ==
  ASSUME Types, Fresh, NEW u \in Users, StartSync(u)
  PROVE  Fresh'
<1>1. UNCHANGED <<clock, queue, cache, before>> /\ First' = First
  BY DEF StartSync, First
<1>2. CASE CacheValid /\ stored' = [stored EXCEPT ![u] = cache.asOf] /\ syncs' = [syncs EXCEPT ![u] = "done"]
           /\ UNCHANGED read
  <2>1. cache.until # Never
    BY <1>2, Instants DEF CacheValid, Never
  <2>2. \A v \in Users : stored'[v] = stored[v] \/ stored'[v] = cache.asOf
    BY <1>2 DEF Types, AccessTypes
  <2>3. ReadIsAwaited'
    <3>1. Is("waiting")' = Is("waiting")
      BY <1>2 DEF Is, StartSync, Types, AccessTypes
    <3> QED BY <1>2, <3>1 DEF Fresh, ReadIsAwaited
  <2>4. CacheIsNewest'
    BY <1>1, <2>1, <2>2, Instants DEF Fresh, CacheIsNewest
  <2>5. ReadIsNewer'
    BY <1>1, <1>2, <2>2 DEF Fresh, ReadIsNewer
  <2>6. Past'
    BY <1>1, <1>2, <2>2 DEF Fresh, Past
  <2> QED BY <2>3, <2>4, <2>5, <2>6 DEF Fresh
<1>3. CASE UNCHANGED stored
  <2>1. ReadIsAwaited'
    <3>1. CASE UNCHANGED read
      <4>1. Is("waiting") \subseteq Is("waiting")'
        BY DEF Is, StartSync, Types, AccessTypes
      <4> QED BY <3>1, <4>1 DEF Fresh, ReadIsAwaited
    <3>2. CASE syncs' = [syncs EXCEPT ![u] = "waiting"]
      <4>1. u \in Is("waiting")'
        BY <3>2 DEF Is, Types, AccessTypes
      <4> QED BY <4>1 DEF ReadIsAwaited
    <3> QED BY <3>1, <3>2 DEF StartSync
  <2>2. CacheIsNewest' /\ Past'
    <3>1. read' = read \/ read'.asOf = Never
      BY DEF StartSync
    <3> QED BY <1>1, <1>3, <3>1, Instants DEF Fresh, CacheIsNewest, Past, Never
  <2>3. ReadIsNewer'
    <3>1. read' = read \/ read'.state = "started"
      BY DEF StartSync
    <3> QED BY <1>1, <1>3, <3>1 DEF Fresh, ReadIsNewer
  <2> QED BY <2>1, <2>2, <2>3 DEF Fresh
<1> QED BY <1>2, <1>3 DEF StartSync

\* The read is taken of the present,
LEMMA ReadTakenFresh ==
  ASSUME Types, Punctual, Fresh, ReadTaken
  PROVE  Fresh'
<1>1. /\ read' = [state |-> "taken", asOf |-> clock]
      /\ UNCHANGED <<clock, queue, cache, syncs, before, stored>>
  BY DEF ReadTaken
<1>2. ReadIsAwaited'
  BY <1>1 DEF ReadTaken, Fresh, ReadIsAwaited, Is
<1>3. First.at <= clock
  <2>1. Serving
    BY WaitingIsServing DEF ReadTaken, Fresh, ReadIsAwaited, SyncStates
  <2>2. 1 \in 1..Len(queue)
    BY <2>1, FirstType DEF Types
  <2> QED BY <2>2 DEF Punctual, First
<1>4. ReadIsNewer'
  BY <1>1, <1>3 DEF Fresh, Past, ReadIsNewer, First
<1> QED BY <1>1, <1>2, <1>4, Instants DEF Fresh, CacheIsNewest, Past

\* and no older than the time-out when it is answered,
LEMMA ReadIsTimely ==
  ASSUME Types, Punctual, Fresh, read.state = "taken"
  PROVE  clock <= read.asOf + Timeout
<1>1. Serving
  BY WaitingIsServing DEF Fresh, ReadIsAwaited, SyncStates
<1>2. First \in Calls /\ 1 \in 1..Len(queue)
  BY <1>1, FirstType DEF Types
<1>3. First.at \in Nat
  BY <1>2, Numbers DEF Calls, Times
<1>4. clock <= First.at + Timeout
  BY <1>2 DEF Punctual, First
<1>5. First.at <= read.asOf
  BY DEF Fresh, ReadIsNewer
<1> QED BY <1>3, <1>4, <1>5, Instants

LEMMA ReadAnsweredFresh ==
  ASSUME Types, Punctual, Fresh, ReadAnswered
  PROVE  Fresh'
<1>1. /\ cache' = [asOf |-> read.asOf, until |-> clock + Ttl]
      /\ read' = [state |-> "none", asOf |-> Never] /\ UNCHANGED <<clock, before>>
      /\ read.state = "taken"
  BY DEF ReadAnswered
<1>2. \A u \in Users : stored'[u] = stored[u] \/ stored'[u] = read.asOf
  BY DEF ReadAnswered
<1>3. clock <= read.asOf + Timeout
  BY <1>1, ReadIsTimely
<1>4. \A u \in Users : stored'[u] <= read.asOf /\ before'[u] <= read.asOf
  BY <1>1, <1>2, Instants DEF Fresh, ReadIsNewer
<1>5. read.asOf <= clock
  BY DEF Fresh, Past
<1>6. cache'.asOf = read.asOf /\ cache'.until = clock + Ttl
  BY <1>1
<1>7. CacheIsNewest'
  BY <1>3, <1>4, <1>6, Instants DEF CacheIsNewest
<1>8. Past'
  <2>1. \A u \in Users : stored'[u] \in Nat
    BY <1>2, Instants
  <2>2. \A u \in Users : stored'[u] <= clock /\ before'[u] <= clock
    BY <1>1, <1>4, <1>5, <2>1, Instants
  <2> QED BY <1>1, <1>5, <1>6, <2>2, Instants DEF Past, Never
<1> QED BY <1>1, <1>7, <1>8 DEF Fresh, ReadIsAwaited, ReadIsNewer

\* or given up.
LEMMA ReadLostFresh ==
  ASSUME Types, Fresh,
         ReadFails \/ Restart \/ \E u \in Users : TimesOut(u)
  PROVE  Fresh'
<1>1. CASE ReadFails
  <2>1. /\ read' = [state |-> "none", asOf |-> Never]
        /\ UNCHANGED <<clock, cache, before, stored>>
    BY <1>1 DEF ReadFails
  <2> QED BY <2>1, Instants DEF Fresh, ReadIsAwaited, CacheIsNewest, ReadIsNewer, Past, Never
<1>2. CASE Restart
  <2>1. /\ read' = [state |-> "none", asOf |-> Never] /\ cache' = [asOf |-> Never, until |-> Never]
        /\ UNCHANGED <<clock, stored>> /\ \A u \in Users : before'[u] = Never
    BY <1>2 DEF Restart
  <2>2. Past'
    BY <2>1, Instants DEF Fresh, Past, Never
  <2> QED BY <2>1, <2>2 DEF Fresh, ReadIsAwaited, CacheIsNewest, ReadIsNewer, Never
<1>3. ASSUME NEW u \in Users, TimesOut(u) PROVE Fresh'
  <2>1. UNCHANGED <<clock, cache, before, stored>> /\ First' = First
    BY <1>3 DEF TimesOut, First
  <2>2. CASE Is("waiting") = {u}
    <3>1. read' = [state |-> "none", asOf |-> Never]
      BY <1>3, <2>2 DEF TimesOut
    <3> QED BY <2>1, <3>1, Instants DEF Fresh, ReadIsAwaited, CacheIsNewest, ReadIsNewer, Past, Never
  <2>3. CASE Is("waiting") # {u}
    <3>1. read' = read /\ u \in Is("waiting")
      BY <1>3, <2>3 DEF TimesOut, Is
    <3>2. PICK v \in Is("waiting") : v # u
      BY <2>3, <3>1
    <3>3. v \in Is("waiting")'
      BY <1>3, <3>2 DEF TimesOut, Is, Types, AccessTypes
    <3>4. ReadIsAwaited'
      BY <3>3 DEF ReadIsAwaited
    <3> QED BY <2>1, <3>1, <3>4 DEF Fresh, CacheIsNewest, ReadIsNewer, Past
  <2> QED BY <2>2, <2>3
<1> QED BY <1>1, <1>2, <1>3

\* The steps that have nothing to do with grants.
LEMMA AsideMoves ==
  ASSUME \/ UNCHANGED vars
         \/ \E u \in Users : AskForAccess(u)
         \/ \E u \in CodeUsers : AskForCode(u) \/ \E code \in 0..MaxCodes : TryCode(u, code)
         \/ \E m \in sending : MailAccepted(m) \/ MailRefused(m)
         \/ AskForList \/ Expire \/ Tick
  PROVE  /\ UNCHANGED access
         /\ clock' = clock \/ clock' = clock + 1
         /\ queue' = queue \/ Joining \/ ~Serving
<1> 0 \in 0..MaxCodes /\ CodeUsers \subseteq Users
  BY Numbers, BoundsAreNumbers
<1>1. UNCHANGED access
  BY DEF vars, access, AskForAccess, AskForCode, TryCode, MailAccepted, MailRefused,
         AskForList, Expire, Tick
<1>2. clock' = clock \/ clock' = clock + 1
  BY DEF vars, AskForAccess, AskForCode, TryCode, MailAccepted, MailRefused,
         AskForList, Expire, Tick
<1>3. queue' = queue \/ Joining \/ ~Serving
  BY DEF vars, Joining, AskForAccess, AskForCode, TryCode, MailAccepted, MailRefused,
         AskForList, Expire, Tick
<1> QED BY <1>1, <1>2, <1>3

\* Grants stay fresh in every step.
LEMMA StepFresh == Types /\ Punctual /\ Fresh /\ [Next]_vars => Fresh'
<1> SUFFICES ASSUME Types, Punctual, Fresh, [Next]_vars PROVE Fresh'
  OBVIOUS
<1>1. CASE \/ UNCHANGED vars
           \/ \E u \in Users : AskForAccess(u)
           \/ \E u \in CodeUsers : AskForCode(u) \/ \E code \in 0..MaxCodes : TryCode(u, code)
           \/ \E m \in sending : MailAccepted(m) \/ MailRefused(m)
           \/ AskForList \/ Expire \/ Tick
  BY <1>1, AsideMoves, AsideFresh
<1>2. CASE Next
  BY <1>1, <1>2, ServiceFresh, StartSyncFresh, ReadTakenFresh, ReadAnsweredFresh, ReadLostFresh DEF Next
<1> QED BY <1>1, <1>2

\* A step that stores grants stores newer ones, and of a read recent enough.
LEMMA StepGrants ==
  ASSUME Types, Punctual, Fresh, Next, NEW u \in Users,
         stored'[u] # stored[u], ~(Settled /\ Failed)
  PROVE  stored'[u] > stored[u] /\ clock - stored'[u] < Ttl + Timeout
<1>1. ASSUME NEW v \in Users, StartSync(v)
      PROVE  stored'[u] > stored[u] /\ clock - stored'[u] < Ttl + Timeout
  <2>1. CacheValid /\ stored'[u] = cache.asOf
    BY <1>1 DEF StartSync, Types, AccessTypes
  <2>2. stored[u] <= cache.asOf /\ cache.until <= cache.asOf + Timeout + Ttl /\ clock < cache.until
    BY <2>1, Instants DEF CacheValid, Fresh, CacheIsNewest, Never
  <2> QED BY <2>1, <2>2, Instants
<1>2. CASE ReadAnswered
  <2>1. stored'[u] = read.asOf /\ read.state = "taken"
    BY <1>2 DEF ReadAnswered
  <2>2. stored[u] <= read.asOf /\ clock <= read.asOf + Timeout
    BY <2>1, ReadIsTimely DEF Fresh, ReadIsNewer
  <2> QED BY <2>1, <2>2, Instants
<1>3. ASSUME ~ReadAnswered, \A v \in Users : ~StartSync(v) PROVE FALSE
  <2>1. CASE Listed
    BY <2>1 DEF Listed
  <2>2. CASE ~Listed
    <3>1. \/ \E v \in Users : AskForAccess(v) \/ TimesOut(v)
          \/ \E v \in CodeUsers : AskForCode(v) \/ \E code \in 0..MaxCodes : TryCode(v, code)
          \/ \E m \in sending : MailAccepted(m) \/ MailRefused(m)
          \/ AskForList \/ Begin \/ Expire \/ ReadTaken \/ ReadFails
          \/ Served \/ CodeMailed \/ SignedIn \/ Restart \/ Tick
      BY <1>3, <2>2 DEF Next
    <3>2. stored' = stored
      BY <3>1 DEF access, Told, AskForAccess, TimesOut, AskForCode, TryCode, MailAccepted,
                  MailRefused, AskForList, Begin, Expire, ReadTaken, ReadFails, Served,
                  CodeMailed, SignedIn, Restart, Tick
    <3> QED BY <3>2
  <2> QED BY <2>1, <2>2
<1> QED BY <1>1, <1>2, <1>3

\* Grants are written from memberships that are newer than those they replace
\* and held at most a cache's life and a time-out ago, save for a roll-back.
THEOREM GrantsStayFresh == Spec => GrantsAreFresh
<1>1. Spec => []Punctual
  BY AccessTypesCorrect, InitPunctual, StepPunctual, PTL DEF Spec
<1>2. Spec => []Fresh
  BY AccessTypesCorrect, <1>1, InitFresh, StepFresh, PTL DEF Spec
<1>3. Types /\ Punctual /\ Fresh /\ [Next]_vars
        => [\A u \in Users : stored'[u] # stored[u] /\ ~(Settled /\ Failed)
              => stored'[u] > stored[u] /\ clock - stored'[u] < Ttl + Timeout]_vars
  BY StepGrants
<1> QED BY AccessTypesCorrect, <1>1, <1>2, <1>3, PTL DEF Spec, GrantsAreFresh

(***************************************************************************)
(* 4. What is stored between two callers was told.  While one is served,    *)
(* the stored grants differ from the told ones only where it has finished a *)
(* synchronization, and for the employee list the snapshot is what was told.*)
(***************************************************************************)
OthersIdle ==
  Serving /\ First.kind # "list" => \A u \in Users : u # First.user => syncs[u] = "idle"

TellsAll ==
  /\ ~Serving => stored = answered
  /\ Serving /\ First.kind = "list" => before = answered
  /\ Serving /\ First.kind # "list" =>
       \A u \in Users : u # First.user \/ syncs[u] # "done" => stored[u] = answered[u]

Truthful == OthersIdle /\ TellsAll

LEMMA InitTruthful == Init => Truthful
  BY DEF Init, Truthful, OthersIdle, TellsAll, Serving

\* What does not touch the grants leaves them told.
LEMMA AsideTruthful ==
  ASSUME Types, Truthful, UNCHANGED access,
         queue' = queue \/ Joining \/ ~Serving
  PROVE  Truthful'
<1>1. Serving' = Serving /\ UNCHANGED <<syncs, before, stored, answered>>
  BY DEF access, Serving, Idle
<1>2. CASE ~Serving
  BY <1>1, <1>2 DEF Truthful, OthersIdle, TellsAll
<1>3. CASE Serving
  <2>1. First' = First
    BY <1>3, FirstStays DEF Types
  <2> QED BY <1>1, <2>1 DEF Truthful, OthersIdle, TellsAll
<1> QED BY <1>2, <1>3

LEMMA BeginTruthful ==
  ASSUME Types, Truthful, Begin
  PROVE  Truthful'
<1>1. First' = First /\ stored = answered /\ UNCHANGED <<stored, answered>>
  BY BegunQueue DEF Begin, First, Truthful, TellsAll
<1>2. CASE First.kind = "list"
  BY <1>1, <1>2 DEF Begin, Truthful, OthersIdle, TellsAll
<1>3. CASE First.kind # "list"
  <2>1. \A u \in Users : u # First.user => syncs'[u] = "idle"
    BY <1>3 DEF Begin, Serving, Idle, Types, AccessTypes
  <2> QED BY <1>1, <1>3, <2>1 DEF Truthful, OthersIdle, TellsAll
<1> QED BY <1>2, <1>3

\* A synchronization touches the grants of those alone whose turn it is.
LEMMA SyncTruthful ==
  ASSUME Types, Fresh, Truthful,
         \/ \E u \in Users : StartSync(u) \/ TimesOut(u)
         \/ ReadTaken \/ ReadAnswered \/ ReadFails
  PROVE  Truthful'
<1>1. First' = First /\ UNCHANGED <<before, answered>>
  BY DEF StartSync, TimesOut, ReadTaken, ReadAnswered, ReadFails, First
<1>2. Serving
  <2>1. ASSUME NEW u \in Users, StartSync(u) \/ TimesOut(u) PROVE Serving
    BY <2>1 DEF StartSync, TimesOut, Serving, Idle
  <2>2. CASE ReadTaken \/ ReadAnswered \/ ReadFails
    BY <2>2, WaitingIsServing DEF ReadTaken, ReadAnswered, ReadFails, Fresh, ReadIsAwaited, SyncStates
  <2> QED BY <2>1, <2>2
<1>3. \A u \in Users :
        /\ syncs[u] = "idle" <=> syncs'[u] = "idle"
        /\ stored'[u] # stored[u] => syncs[u] # "idle" /\ syncs'[u] = "done"
        /\ syncs[u] = "done" => syncs'[u] = "done"
  <2>1. ASSUME NEW v \in Users, StartSync(v), NEW u \in Users
        PROVE  /\ syncs[u] = "idle" <=> syncs'[u] = "idle"
               /\ stored'[u] # stored[u] => syncs[u] # "idle" /\ syncs'[u] = "done"
               /\ syncs[u] = "done" => syncs'[u] = "done"
    BY <2>1 DEF StartSync, Types, AccessTypes
  <2>2. ASSUME NEW v \in Users, TimesOut(v), NEW u \in Users
        PROVE  /\ syncs[u] = "idle" <=> syncs'[u] = "idle"
               /\ stored'[u] = stored[u]
               /\ syncs[u] = "done" => syncs'[u] = "done"
    BY <2>2 DEF TimesOut, Types, AccessTypes
  <2>3. CASE ReadTaken
    BY <2>3 DEF ReadTaken
  <2>4. CASE ReadAnswered
    BY <2>4 DEF ReadAnswered, Is
  <2>5. CASE ReadFails
    BY <2>5 DEF ReadFails, Is
  <2> QED BY <2>1, <2>2, <2>3, <2>4, <2>5
<1>4. Serving'
  <2>1. PICK u \in Users : syncs[u] # "idle"
    BY <1>2 DEF Serving, Idle, Types, AccessTypes
  <2>2. syncs'[u] # "idle"
    BY <1>3, <2>1
  <2> QED BY <2>2 DEF Serving, Idle
<1>5. CASE First.kind = "list"
  BY <1>1, <1>2, <1>4, <1>5 DEF Truthful, OthersIdle, TellsAll
<1>6. CASE First.kind # "list"
  <2>1. OthersIdle'
    BY <1>1, <1>2, <1>3, <1>6 DEF Truthful, OthersIdle
  <2>2. \A u \in Users : u # First.user \/ syncs'[u] # "done" => stored'[u] = answered'[u]
    BY <1>1, <1>2, <1>3, <1>6 DEF Truthful, OthersIdle, TellsAll
  <2> QED BY <1>1, <1>4, <1>6, <2>1, <2>2 DEF Truthful, TellsAll
<1> QED BY <1>5, <1>6

\* Who leaves has been told what is stored, or everything is as before.
LEMMA LeavesTruthful ==
  ASSUME Types, Truthful, Listed \/ Served \/ CodeMailed \/ SignedIn
  PROVE  Truthful'
<1>1. ~Serving'
  BY DEF Listed, Served, CodeMailed, SignedIn, Leaves, Serving, Idle
<1>2. stored' = answered'
  <2>1. CASE Listed
    <3>1. before = answered /\ answered \in [Users -> Times]
      BY <2>1 DEF Listed, Settled, Truthful, TellsAll, Types, AccessTypes
    <3>2. [u \in Users |-> RolledBack(u)] = answered
      BY <3>1 DEF RolledBack
    <3> QED BY <2>1, <3>2 DEF Listed
  <2>2. CASE Served \/ CodeMailed \/ SignedIn
    <3>1. Serving /\ Settled /\ First.kind # "list" /\ Told(First.user)
      BY <2>2 DEF Served, CodeMailed, SignedIn, Settled
    <3>2. /\ First.user \in Users
          /\ stored \in [Users -> Times] /\ answered \in [Users -> Times]
      BY <3>1, FirstType DEF Types, AccessTypes
    <3>3. \A u \in Users : u # First.user \/ syncs[u] # "done" => stored[u] = answered[u]
      BY <3>1 DEF Truthful, TellsAll
    <3>4. CASE Failed
      <4>1. PICK v \in Users : syncs[v] = "failed"
        BY <3>4 DEF Failed, Is
      <4>2. v = First.user
        BY <3>1, <4>1 DEF Truthful, OthersIdle
      <4>3. \A u \in Users : stored[u] = answered[u]
        BY <3>3, <4>1, <4>2
      <4> QED BY <3>1, <3>2, <3>4, <4>3 DEF Told
    <3>5. CASE ~Failed
      <4>1. answered' = [answered EXCEPT ![First.user] = stored[First.user]] /\ stored' = stored
        BY <3>1, <3>5 DEF Told
      <4>2. \A u \in Users : u # First.user => stored[u] = answered[u]
        BY <3>3
      <4> QED BY <3>2, <4>1, <4>2
    <3> QED BY <3>4, <3>5
  <2> QED BY <2>1, <2>2
<1> QED BY <1>1, <1>2 DEF Truthful, OthersIdle, TellsAll

LEMMA StepTruthful == Types /\ Fresh /\ Truthful /\ [Next]_vars => Truthful'
<1> SUFFICES ASSUME Types, Fresh, Truthful, [Next]_vars PROVE Truthful'
  OBVIOUS
<1>1. CASE \/ UNCHANGED vars
           \/ \E u \in Users : AskForAccess(u)
           \/ \E u \in CodeUsers : AskForCode(u) \/ \E code \in 0..MaxCodes : TryCode(u, code)
           \/ \E m \in sending : MailAccepted(m) \/ MailRefused(m)
           \/ AskForList \/ Expire \/ Tick
  <2>1. UNCHANGED access /\ (queue' = queue \/ Joining \/ ~Serving)
    BY <1>1, AsideMoves
  <2> QED BY <2>1, AsideTruthful
<1>2. CASE Restart
  BY <1>2 DEF Restart, Serving, Idle, Truthful, OthersIdle, TellsAll
<1>3. CASE Next
  BY <1>1, <1>2, <1>3, BeginTruthful, SyncTruthful, LeavesTruthful DEF Next
<1> QED BY <1>1, <1>3

\* Between two callers the stored grants are those somebody was last told.
THEOREM StoredGrantsWereTold == Spec => []SettledGrantsWereTold
<1>1. Spec => []Punctual
  BY AccessTypesCorrect, InitPunctual, StepPunctual, PTL DEF Spec
<1>2. Spec => []Fresh
  BY AccessTypesCorrect, <1>1, InitFresh, StepFresh, PTL DEF Spec
<1>3. Spec => []Truthful
  BY AccessTypesCorrect, <1>2, InitTruthful, StepTruthful, PTL DEF Spec
<1>4. Truthful => SettledGrantsWereTold
  BY DEF Truthful, TellsAll, SettledGrantsWereTold
<1> QED BY <1>3, <1>4, PTL

(***************************************************************************)
(* 5. Codes are apart.  An employee has one request for a code at most, in  *)
(* line or with the mail server, and one with the mail server is a cooldown *)
(* younger than the last code.                                              *)
(***************************************************************************)
OneMail ==
  /\ \A m, n \in sending : m.user = n.user => m = n
  /\ \A m \in sending :
       /\ m.user \in mailing /\ m.code <= mailed[m.user]
       /\ lastCode[m.user] = Never \/ m.at - lastCode[m.user] >= Cooldown
  /\ \A i \in 1..Len(queue) : queue[i].kind = "mail" =>
       /\ queue[i].user \in mailing
       /\ \A m \in sending : m.user # queue[i].user
  /\ \A i, j \in 1..Len(queue) :
       queue[i].kind = "mail" /\ queue[j].kind = "mail" /\ queue[i].user = queue[j].user => i = j

mail == <<mailing, sending, lastCode, mailed>>

LEMMA InitOneMail == Init => OneMail
  BY DEF Init, OneMail

\* The line with one more caller: the old ones, and the new one at its end.
LEMMA JoinedLine ==
  ASSUME Types, NEW kind \in {"list", "me", "mail", "verify"},
         NEW u \in Users \cup {Everybody}, NEW code \in 0..MaxCodes,
         kind = "list" \/ u \in Users,
         Joins(kind, u, code)
  PROVE  \A i \in 1..Len(queue') :
           \/ i \in 1..Len(queue) /\ queue'[i] = queue[i]
           \/ /\ i = Len(queue) + 1
              /\ queue'[i].kind = kind /\ queue'[i].user = u /\ queue'[i].code = code
<1>1. /\ Len(queue') = Len(queue) + 1
      /\ \A i \in 1..Len(queue) : queue'[i] = queue[i]
      /\ queue'[Len(queue) + 1] = [kind |-> kind, user |-> u, code |-> code,
                                   at |-> clock, deadline |-> clock + Timeout]
  BY JoinedQueue
<1>2. Len(queue) \in Nat
  BY DEF Types, QueueTypes
<1>3. \A i \in 1..Len(queue') : i \in 1..Len(queue) \/ i = Len(queue) + 1
  BY <1>1, <1>2
<1> QED BY <1>1, <1>3

\* One who joins for something else than a code
LEMMA JoinedOneMail ==
  ASSUME Types, OneMail, NEW kind \in {"list", "me", "verify"},
         NEW u \in Users \cup {Everybody}, NEW code \in 0..MaxCodes,
         kind = "list" \/ u \in Users,
         Joins(kind, u, code), UNCHANGED mail
  PROVE  OneMail'
<1>1. \A i \in 1..Len(queue') :
        queue'[i].kind = "mail" => i \in 1..Len(queue) /\ queue'[i] = queue[i]
  BY JoinedLine
<1> QED BY <1>1 DEF OneMail, mail

\* One who asks for a code has not asked yet.
LEMMA AskedOneMail ==
  ASSUME Types, OneMail, NEW u \in Users, AskForCode(u)
  PROVE  OneMail'
<1>1. /\ u \notin mailing /\ mailing' = mailing \cup {u}
      /\ UNCHANGED <<sending, lastCode, mailed>> /\ Joins("mail", u, 0)
  BY DEF AskForCode, MayAsk
<1>2. \A i \in 1..Len(queue') :
        \/ i \in 1..Len(queue) /\ queue'[i] = queue[i]
        \/ i = Len(queue) + 1 /\ queue'[i].kind = "mail" /\ queue'[i].user = u
  <2>1. 0 \in 0..MaxCodes
    BY Numbers
  <2> QED BY <1>1, <2>1, JoinedLine
<1>3. \A m \in sending : m.user # u
  BY <1>1 DEF OneMail
<1>4. \A i \in 1..Len(queue) : queue[i].kind = "mail" => queue[i].user # u
  BY <1>1 DEF OneMail
<1>5. \A i \in 1..Len(queue') : queue'[i].kind = "mail" =>
        /\ queue'[i].user \in mailing'
        /\ \A m \in sending' : m.user # queue'[i].user
  BY <1>1, <1>2, <1>3 DEF OneMail
<1>6. \A i, j \in 1..Len(queue') :
        queue'[i].kind = "mail" /\ queue'[j].kind = "mail" /\ queue'[i].user = queue'[j].user => i = j
  BY <1>2, <1>4 DEF OneMail
<1> QED BY <1>1, <1>5, <1>6 DEF OneMail

\* The line without its first one.
LEMMA LeftOneMail ==
  ASSUME Types, OneMail, queue # <<>>, queue' = Tail(queue),
         UNCHANGED <<sending, lastCode, mailed>>,
         \/ mailing' = mailing
         \/ First.kind = "mail" /\ mailing' = mailing \ {First.user}
  PROVE  OneMail'
<1>1. /\ \A i \in 1..Len(queue') : queue'[i] = queue[i + 1] /\ i + 1 \in 1..Len(queue)
      /\ 1 \in 1..Len(queue)
  BY LeftQueue, FirstType
<1>2. \A i, j \in 1..Len(queue') : i + 1 = j + 1 => i = j
  OBVIOUS
<1>3. \A i \in 1..Len(queue') : i + 1 # 1
  OBVIOUS
<1>4. \A i \in 1..Len(queue') : queue'[i].kind = "mail" => queue'[i].user \in mailing'
  BY <1>1, <1>3 DEF OneMail, First
<1>5. \A m \in sending : m.user \in mailing'
  BY <1>1 DEF OneMail, First
<1>6. \A i, j \in 1..Len(queue') :
        queue'[i].kind = "mail" /\ queue'[j].kind = "mail" /\ queue'[i].user = queue'[j].user => i = j
  BY <1>1, <1>2 DEF OneMail
<1>7. \A i \in 1..Len(queue') : queue'[i].kind = "mail" => \A m \in sending : m.user # queue'[i].user
  BY <1>1 DEF OneMail
<1> QED BY <1>4, <1>5, <1>6, <1>7 DEF OneMail

\* A code that is handed to the mail server.
LEMMA MailedOneMail ==
  ASSUME Types, OneMail, CodeMailed
  PROVE  OneMail'
<1> DEFINE u == First.user
           new == [user |-> u, code |-> mailed[u] + 1, at |-> First.at]
<1>1. queue # <<>> /\ queue' = Tail(queue) /\ UNCHANGED lastCode /\ First.kind = "mail"
  BY DEF CodeMailed, Settled, Leaves, Types
<1>2. CASE mailing' = mailing \ {u} /\ UNCHANGED <<mailed, sending>>
  BY <1>1, <1>2, LeftOneMail
<1>3. CASE /\ Rested(u) /\ mailed' = [mailed EXCEPT ![u] = @ + 1]
           /\ sending' = sending \cup {new} /\ UNCHANGED mailing
  <2>1. /\ u \in Users /\ 1 \in 1..Len(queue)
        /\ \A i \in 1..Len(queue') : queue'[i] = queue[i + 1] /\ i + 1 \in 1..Len(queue)
    BY <1>1, FirstType, LeftQueue
  <2>2. u \in mailing /\ \A m \in sending : m.user # u
    BY <1>1, <2>1 DEF OneMail, First
  <2>3. /\ mailed'[u] = mailed[u] + 1 /\ mailed[u] + 1 \in Nat
        /\ \A v \in Users : v # u => mailed'[v] = mailed[v]
    BY <1>3, <2>1, Numbers DEF Types, CodeTypes
  <2>4. new.user = u /\ new.code = mailed[u] + 1 /\ new.at = First.at
    OBVIOUS
  <2>5. \A m \in sending : m.user \in Users
    BY DEF Types, CodeTypes
  <2> HIDE DEF new, u
  <2>6. \A m, n \in sending' : m.user = n.user => m = n
    BY <1>3, <2>2, <2>4 DEF OneMail
  <2>7. ASSUME NEW m \in sending'
        PROVE  /\ m.user \in mailing' /\ m.code <= mailed'[m.user]
               /\ lastCode'[m.user] = Never \/ m.at - lastCode'[m.user] >= Cooldown
    <3>1. CASE m \in sending
      BY <1>1, <1>3, <2>2, <2>3, <2>5, <3>1 DEF OneMail
    <3>2. CASE m = new
      BY <1>1, <1>3, <2>2, <2>3, <2>4, <3>2 DEF Rested
    <3> QED BY <1>3, <3>1, <3>2
  <2>8. \A i \in 1..Len(queue') : i + 1 # 1
    OBVIOUS
  <2>9. \A i \in 1..Len(queue') : queue'[i].kind = "mail" => queue'[i].user # u
    BY <1>1, <2>1, <2>8 DEF OneMail, First, u
  <2>10. \A i \in 1..Len(queue') : queue'[i].kind = "mail" =>
           /\ queue'[i].user \in mailing'
           /\ \A m \in sending' : m.user # queue'[i].user
    BY <1>3, <2>1, <2>4, <2>9 DEF OneMail
  <2>11. \A i, j \in 1..Len(queue') : i + 1 = j + 1 => i = j
    OBVIOUS
  <2>12. \A i, j \in 1..Len(queue') :
           queue'[i].kind = "mail" /\ queue'[j].kind = "mail" /\ queue'[i].user = queue'[j].user => i = j
    BY <2>1, <2>11 DEF OneMail
  <2> QED BY <2>6, <2>7, <2>10, <2>12 DEF OneMail
<1> QED BY <1>2, <1>3 DEF CodeMailed

\* A code the mail server has answered about.
LEMMA AnsweredOneMail ==
  ASSUME Types, OneMail, NEW m \in sending, MailAccepted(m) \/ MailRefused(m)
  PROVE  OneMail'
<1>1. /\ sending' = sending \ {m} /\ mailing' = mailing \ {m.user} /\ UNCHANGED <<queue, mailed>>
      /\ lastCode' = lastCode \/ lastCode' = [lastCode EXCEPT ![m.user] = m.at]
  BY DEF MailAccepted, MailRefused
<1>2. \A n \in sending' : n \in sending /\ n.user # m.user /\ n.user \in Users
  BY <1>1 DEF OneMail, Types, CodeTypes
<1>3. \A n \in sending' : lastCode'[n.user] = lastCode[n.user]
  BY <1>1, <1>2 DEF Types, CodeTypes
<1>4. \A i \in 1..Len(queue) : queue[i].kind = "mail" => queue[i].user # m.user
  BY DEF OneMail
<1> QED BY <1>1, <1>2, <1>3, <1>4 DEF OneMail

LEMMA StepOneMail == Types /\ OneMail /\ [Next]_vars => OneMail'
<1> SUFFICES ASSUME Types, OneMail, [Next]_vars PROVE OneMail'
  OBVIOUS
<1> 0 \in 0..MaxCodes /\ CodeUsers \subseteq Users
  BY Numbers, BoundsAreNumbers
<1>1. ASSUME queue' = queue, UNCHANGED mail PROVE OneMail'
  BY <1>1 DEF OneMail, mail
<1>2. CASE UNCHANGED vars
  BY <1>1, <1>2 DEF vars, codes, mail
<1>3. CASE \/ \E u \in Users : StartSync(u) \/ TimesOut(u)
           \/ ReadTaken \/ ReadAnswered \/ ReadFails \/ Begin \/ Tick
  <2>1. UNCHANGED mail
    BY <1>3 DEF mail, codes, StartSync, TimesOut, ReadTaken, ReadAnswered, ReadFails, Begin, Tick
  <2>2. queue' = queue
    BY <1>3, BegunQueue DEF StartSync, TimesOut, ReadTaken, ReadAnswered, ReadFails, Tick
  <2> QED BY <1>1, <2>1, <2>2
<1>4. ASSUME NEW u \in Users, AskForAccess(u) PROVE OneMail'
  BY <1>4, JoinedOneMail DEF AskForAccess, codes, mail
<1>5. CASE AskForList
  BY <1>5, JoinedOneMail DEF AskForList, codes, mail
<1>6. ASSUME NEW u \in CodeUsers, NEW code \in 0..MaxCodes, TryCode(u, code) PROVE OneMail'
  BY <1>1, <1>6, JoinedOneMail DEF TryCode, mail
<1>7. ASSUME NEW u \in CodeUsers, AskForCode(u) PROVE OneMail'
  BY <1>7, AskedOneMail
<1>8. CASE Expire
  BY <1>8, LeftOneMail DEF Expire
<1>9. CASE Listed \/ Served \/ SignedIn
  <2>1. queue # <<>> /\ queue' = Tail(queue) /\ UNCHANGED mail
    BY <1>9 DEF Listed, Served, SignedIn, Leaves, Settled, Types, mail, codes
  <2> QED BY <2>1, LeftOneMail DEF mail
<1>10. CASE Restart
  BY <1>10 DEF Restart, OneMail
<1> QED BY <1>2, <1>3, <1>4, <1>5, <1>6, <1>7, <1>8, <1>9, <1>10, MailedOneMail, AnsweredOneMail DEF Next

\* What a step does to the codes that are stored.
LEMMA StepCodes ==
  ASSUME Types, OneMail, Next, NEW u \in Users,
         challenge'[u] # None, challenge'[u].code # challenge[u].code, lastCode[u] # Never
  PROVE  lastCode'[u] - lastCode[u] >= Cooldown
<1>1. ASSUME NEW m \in sending, MailAccepted(m)
      PROVE  lastCode'[u] - lastCode[u] >= Cooldown
  <2>1. m.user = u
    BY <1>1 DEF MailAccepted, Types, CodeTypes
  <2>2. lastCode'[u] = m.at
    BY <1>1, <2>1 DEF MailAccepted, Types, CodeTypes
  <2> QED BY <2>1, <2>2 DEF OneMail
<1>2. ASSUME NEW v \in CodeUsers, NEW code \in 0..MaxCodes, TryCode(v, code) PROVE FALSE
  <2>1. \/ challenge' = [challenge EXCEPT ![v] = None]
        \/ challenge' = [challenge EXCEPT ![v].left = @ - 1] /\ challenge[v] # None
    BY <1>2 DEF TryCode, Consumed
  <2>2. CASE challenge' = [challenge EXCEPT ![v] = None]
    BY <2>2 DEF Types, CodeTypes
  <2>3. CASE challenge' = [challenge EXCEPT ![v].left = @ - 1] /\ challenge[v] # None
    <3>1. CASE u = v
      <4>1. challenge[u] \in Challenges
        BY <2>3, <3>1 DEF Types, CodeTypes
      <4>2. challenge'[u].code = challenge[u].code
        BY <2>3, <3>1, <4>1 DEF Types, CodeTypes, Challenges
      <4> QED BY <4>2
    <3>2. CASE u # v
      BY <2>3, <3>2 DEF Types, CodeTypes
    <3> QED BY <3>1, <3>2
  <2> QED BY <2>1, <2>2, <2>3
<1>3. ASSUME \A m \in sending : ~MailAccepted(m),
             \A v \in CodeUsers : \A code \in 0..MaxCodes : ~TryCode(v, code)
      PROVE  FALSE
  <2>1. \/ \E v \in Users : AskForAccess(v) \/ StartSync(v) \/ TimesOut(v)
        \/ \E v \in CodeUsers : AskForCode(v)
        \/ \E m \in sending : MailRefused(m)
        \/ AskForList \/ Begin \/ Expire \/ ReadTaken \/ ReadAnswered \/ ReadFails
        \/ Listed \/ Served \/ CodeMailed \/ SignedIn \/ Restart \/ Tick
    BY <1>3 DEF Next
  <2>2. challenge' = challenge
    BY <2>1 DEF codes, AskForAccess, StartSync, TimesOut, AskForCode, MailRefused, AskForList,
                Begin, Expire, ReadTaken, ReadAnswered, ReadFails, Listed, Served,
                CodeMailed, SignedIn, Restart, Tick
  <2> QED BY <2>2
<1> QED BY <1>1, <1>2, <1>3

\* The requests for two codes of an employee are a cooldown apart, however many
\* requests are in line and however long the mail server takes.
THEOREM CodesStayApart == Spec => CodesAreApart
<1>1. Spec => []OneMail
  BY AccessTypesCorrect, InitOneMail, StepOneMail, PTL DEF Spec
<1>2. Types /\ OneMail /\ [Next]_vars
        => [\A u \in Users :
              challenge'[u] # None /\ challenge'[u].code # challenge[u].code /\ lastCode[u] # Never
                => lastCode'[u] - lastCode[u] >= Cooldown]_vars
  BY StepCodes
<1> QED BY AccessTypesCorrect, <1>1, <1>2, PTL DEF Spec, CodesAreApart

(***************************************************************************)
(* 6. A code opens one session.  It is with the mail server, or stored, or  *)
(* tried by one caller in line, or used: in one stage at a time, and never  *)
(* back.                                                                    *)
(***************************************************************************)
Sent(u, k)    == \E m \in sending : m.user = u /\ m.code = k
Current(u, k) == challenge[u].code = k
Tries(i, u, k) == queue[i].kind = "verify" /\ queue[i].user = u /\ queue[i].code = k
Tried(u, k)   == \E i \in 1..Len(queue) : Tries(i, u, k)

Stage(u, k) ==
  /\ opened[u][k] <= 1
  /\ Sent(u, k) => opened[u][k] = 0 /\ ~Tried(u, k) /\ ~Current(u, k)
  /\ Current(u, k) => opened[u][k] = 0 /\ ~Tried(u, k)
  /\ Tried(u, k) => opened[u][k] = 0
  /\ k > mailed[u] => opened[u][k] = 0 /\ ~Tried(u, k) /\ ~Current(u, k)

OneStage ==
  /\ \A u \in Users : \A k \in 1..MaxCodes : Stage(u, k)
  /\ \A i, j \in 1..Len(queue) :
       queue[i].kind = "verify" /\ queue[j].kind = "verify"
         /\ queue[i].user = queue[j].user /\ queue[i].code = queue[j].code => i = j

LEMMA InitOneStage == Init => OneStage
<1> SUFFICES ASSUME Init PROVE OneStage
  OBVIOUS
<1>1. ASSUME NEW u \in Users, NEW k \in 1..MaxCodes
      PROVE  opened[u][k] = 0 /\ ~Sent(u, k) /\ ~Tried(u, k) /\ ~Current(u, k)
  <2>1. k # 0 /\ challenge[u].code = 0
    BY DEF Init, None
  <2>2. opened[u][k] = 0 /\ sending = {} /\ queue = <<>>
    BY DEF Init
  <2> QED BY <2>1, <2>2 DEF Sent, Tried, Current
<1>2. queue = <<>>
  BY DEF Init
<1> QED BY <1>1, <1>2 DEF OneStage, Stage

\* A step that puts no code into a stage
LEMMA Unstaged ==
  ASSUME Types, OneStage, UNCHANGED opened,
         \A u \in Users : mailed'[u] = mailed[u],
         \A u \in Users, k \in 1..MaxCodes :
            /\ Sent(u, k)' => Sent(u, k)
            /\ Current(u, k)' => Current(u, k)
            /\ Tried(u, k)' => Tried(u, k)
  PROVE  \A u \in Users : \A k \in 1..MaxCodes : Stage(u, k)'
<1> SUFFICES ASSUME NEW u \in Users, NEW k \in 1..MaxCodes PROVE Stage(u, k)'
  OBVIOUS
<1>1. Stage(u, k)
  BY DEF OneStage
<1>2. opened'[u][k] = opened[u][k] /\ mailed'[u] = mailed[u]
  OBVIOUS
<1>3. (Sent(u, k)' => Sent(u, k)) /\ (Current(u, k)' => Current(u, k)) /\ (Tried(u, k)' => Tried(u, k))
  OBVIOUS
<1> QED BY <1>1, <1>2, <1>3 DEF Stage

\* The line without its first one,
LEMMA LeftTries ==
  ASSUME Types, OneStage, queue # <<>>, queue' = Tail(queue)
  PROVE  /\ \A u \in Users, k \in 1..MaxCodes : Tried(u, k)' => Tried(u, k)
         /\ \A u \in Users, k \in 1..MaxCodes : Tries(1, u, k) => ~Tried(u, k)'
         /\ \A i, j \in 1..Len(queue') :
              queue'[i].kind = "verify" /\ queue'[j].kind = "verify"
                /\ queue'[i].user = queue'[j].user /\ queue'[i].code = queue'[j].code => i = j
<1>1. /\ \A i \in 1..Len(queue') : queue'[i] = queue[i + 1] /\ i + 1 \in 1..Len(queue)
      /\ 1 \in 1..Len(queue)
  BY LeftQueue, FirstType
<1>2. \A u \in Users, k \in 1..MaxCodes : Tried(u, k)' => Tried(u, k)
  BY <1>1 DEF Tried, Tries
<1>3. \A i \in 1..Len(queue') : i + 1 # 1
  OBVIOUS
<1>4. ASSUME NEW u \in Users, NEW k \in 1..MaxCodes, Tries(1, u, k)
      PROVE  ~Tried(u, k)'
  <2> SUFFICES ASSUME NEW i \in 1..Len(queue'), Tries(i, u, k)'
               PROVE  FALSE
    BY DEF Tried
  <2>1. Tries(i + 1, u, k) /\ i + 1 \in 1..Len(queue)
    BY <1>1 DEF Tries
  <2>2. i + 1 = 1
    BY <1>1, <1>4, <2>1 DEF OneStage, Tries
  <2> QED BY <1>3, <2>2
<1>5. \A i, j \in 1..Len(queue') : i + 1 = j + 1 => i = j
  OBVIOUS
<1>6. ASSUME NEW i \in 1..Len(queue'), NEW j \in 1..Len(queue'),
             queue'[i].kind = "verify", queue'[j].kind = "verify",
             queue'[i].user = queue'[j].user, queue'[i].code = queue'[j].code
      PROVE  i = j
  <2>1. /\ i + 1 \in 1..Len(queue) /\ j + 1 \in 1..Len(queue)
        /\ queue[i + 1].kind = "verify" /\ queue[j + 1].kind = "verify"
        /\ queue[i + 1].user = queue[j + 1].user /\ queue[i + 1].code = queue[j + 1].code
    BY <1>1, <1>6
  <2>2. i + 1 = j + 1
    BY <2>1 DEF OneStage
  <2> QED BY <1>5, <2>2
<1> QED BY <1>2, <1>4, <1>6

\* and with one who tries no code.
LEMMA JoinedTries ==
  ASSUME Types, OneStage, NEW kind \in {"list", "me", "mail"},
         NEW u \in Users \cup {Everybody}, NEW code \in 0..MaxCodes,
         kind = "list" \/ u \in Users,
         Joins(kind, u, code)
  PROVE  /\ \A v \in Users, k \in 1..MaxCodes : Tried(v, k)' => Tried(v, k)
         /\ \A i, j \in 1..Len(queue') :
              queue'[i].kind = "verify" /\ queue'[j].kind = "verify"
                /\ queue'[i].user = queue'[j].user /\ queue'[i].code = queue'[j].code => i = j
<1>1. \A i \in 1..Len(queue') :
        queue'[i].kind = "verify" => i \in 1..Len(queue) /\ queue'[i] = queue[i]
  <2>1. kind # "verify" /\ kind \in {"list", "me", "mail", "verify"}
    OBVIOUS
  <2>2. \A i \in 1..Len(queue') :
          \/ i \in 1..Len(queue) /\ queue'[i] = queue[i]
          \/ /\ i = Len(queue) + 1
             /\ queue'[i].kind = kind /\ queue'[i].user = u /\ queue'[i].code = code
    BY <2>1, JoinedLine
  <2> QED BY <2>1, <2>2
<1> QED BY <1>1 DEF OneStage, Tried, Tries

\* Steps that move nothing on.
LEMMA RestStages ==
  ASSUME Types, OneMail, OneStage,
         \/ UNCHANGED vars
         \/ \E u \in Users : AskForAccess(u) \/ StartSync(u) \/ TimesOut(u)
         \/ \E u \in CodeUsers : AskForCode(u)
         \/ \E m \in sending : MailRefused(m)
         \/ AskForList \/ Begin \/ Expire \/ ReadTaken \/ ReadAnswered \/ ReadFails
         \/ Listed \/ Served \/ Restart \/ Tick
  PROVE  OneStage'
<1> 0 \in 0..MaxCodes /\ CodeUsers \subseteq Users
  BY Numbers, BoundsAreNumbers
<1>1. UNCHANGED <<challenge, mailed, opened>> /\ sending' \subseteq sending
  BY DEF vars, codes, AskForAccess, StartSync, TimesOut, AskForCode, MailRefused, AskForList,
         Begin, Expire, ReadTaken, ReadAnswered, ReadFails, Listed, Served, Restart, Tick
<1>2. \/ queue' = queue
      \/ queue' = <<>>
      \/ queue # <<>> /\ queue' = Tail(queue)
      \/ \E kind \in {"list", "me", "mail"}, u \in Users \cup {Everybody} :
           (kind = "list" \/ u \in Users) /\ Joins(kind, u, 0)
  BY BegunQueue
     DEF vars, AskForAccess, StartSync, TimesOut, AskForCode, MailRefused, AskForList,
         Expire, ReadTaken, ReadAnswered, ReadFails, Listed, Served, Restart, Tick,
         Leaves, Settled, Types
<1>3. /\ \A u \in Users, k \in 1..MaxCodes : Tried(u, k)' => Tried(u, k)
      /\ \A i, j \in 1..Len(queue') :
           queue'[i].kind = "verify" /\ queue'[j].kind = "verify"
             /\ queue'[i].user = queue'[j].user /\ queue'[i].code = queue'[j].code => i = j
  <2>1. CASE queue' = queue
    BY <2>1 DEF OneStage, Tried, Tries
  <2>2. CASE queue' = <<>>
    BY <2>2 DEF Tried, Tries
  <2>3. CASE queue # <<>> /\ queue' = Tail(queue)
    BY <2>3, LeftTries
  <2>4. ASSUME NEW kind \in {"list", "me", "mail"}, NEW u \in Users \cup {Everybody},
               kind = "list" \/ u \in Users, Joins(kind, u, 0)
        PROVE  /\ \A v \in Users, k \in 1..MaxCodes : Tried(v, k)' => Tried(v, k)
               /\ \A i, j \in 1..Len(queue') :
                    queue'[i].kind = "verify" /\ queue'[j].kind = "verify"
                      /\ queue'[i].user = queue'[j].user /\ queue'[i].code = queue'[j].code => i = j
    BY <2>4, JoinedTries
  <2> QED BY <1>2, <2>1, <2>2, <2>3, <2>4
<1>4. \A u \in Users, k \in 1..MaxCodes : (Sent(u, k)' => Sent(u, k)) /\ (Current(u, k)' => Current(u, k))
  BY <1>1 DEF Sent, Current
<1>5. \A u \in Users : \A k \in 1..MaxCodes : Stage(u, k)'
  BY <1>1, <1>3, <1>4, Unstaged
<1> QED BY <1>3, <1>5 DEF OneStage

\* A new code goes to the mail server.
LEMMA MailedStages ==
  ASSUME Types, OneMail, OneStage, CodeMailed
  PROVE  OneStage'
<1> DEFINE u == First.user
<1>1. /\ queue # <<>> /\ queue' = Tail(queue) /\ UNCHANGED <<challenge, opened>>
  BY DEF CodeMailed, Settled, Leaves, Types
<1>2. u \in Users
  BY <1>1, FirstType DEF CodeMailed
<1>3. \A v \in Users, k \in 1..MaxCodes : (Tried(v, k)' => Tried(v, k)) /\ Current(v, k)' = Current(v, k)
  BY <1>1, LeftTries DEF Current
<1>4. CASE UNCHANGED <<mailed, sending>>
  <2>1. \A v \in Users : \A k \in 1..MaxCodes : Stage(v, k)'
    BY <1>1, <1>3, <1>4, Unstaged DEF Sent
  <2> QED BY <1>1, <2>1, LeftTries DEF OneStage
<1>5. CASE /\ mailed' = [mailed EXCEPT ![u] = @ + 1]
           /\ sending' = sending \cup {[user |-> u, code |-> mailed[u] + 1, at |-> First.at]}
  <2>1. /\ mailed'[u] = mailed[u] + 1 /\ mailed[u] \in Nat
        /\ \A v \in Users : v # u => mailed'[v] = mailed[v]
    BY <1>2, <1>5, Numbers DEF Types, CodeTypes
  <2>2. ASSUME NEW v \in Users, NEW k \in 1..MaxCodes PROVE Stage(v, k)'
    <3>1. Stage(v, k) /\ opened'[v][k] = opened[v][k]
      BY <1>1 DEF OneStage
    <3>2. CASE v = u /\ k = mailed[u] + 1
      <4>1. k > mailed[v] /\ mailed'[v] = k
        BY <2>1, <3>2
      <4>2. opened[v][k] = 0 /\ ~Tried(v, k) /\ ~Current(v, k)
        BY <3>1, <4>1 DEF Stage
      <4>3. opened'[v][k] = 0 /\ ~Tried(v, k)' /\ ~Current(v, k)'
        BY <1>3, <3>1, <4>2
      <4> QED BY <4>1, <4>3 DEF Stage
    <3>3. CASE ~(v = u /\ k = mailed[u] + 1)
      <4>1. Sent(v, k)' => Sent(v, k)
        BY <1>5, <3>3 DEF Sent
      <4>2. k > mailed'[v] => k > mailed[v]
        <5>1. k \in Nat /\ mailed[v] \in Nat
          BY Numbers DEF Types, CodeTypes
        <5> QED BY <2>1, <5>1
      <4> QED BY <1>3, <3>1, <4>1, <4>2 DEF Stage
    <3> QED BY <3>2, <3>3
  <2> QED BY <1>1, <2>2, LeftTries DEF OneStage
<1> QED BY <1>4, <1>5 DEF CodeMailed

\* The mail server has it, and it is stored.
LEMMA AcceptedStages ==
  ASSUME Types, OneMail, OneStage, NEW m \in sending, MailAccepted(m)
  PROVE  OneStage'
<1>1. /\ sending' = sending \ {m} /\ UNCHANGED <<queue, mailed, opened>>
      /\ challenge' = [challenge EXCEPT ![m.user] =
                         [code |-> m.code, left |-> Attempts, until |-> m.at + CodeTtl]]
      /\ m.user \in Users
  BY DEF MailAccepted, Types, CodeTypes
<1>2. challenge'[m.user].code = m.code /\ \A v \in Users : v # m.user => challenge'[v] = challenge[v]
  BY <1>1 DEF Types, CodeTypes
<1>3. \A k \in 1..MaxCodes : ~Sent(m.user, k)'
  BY <1>1 DEF OneMail, Sent
<1>4. ASSUME NEW v \in Users, NEW k \in 1..MaxCodes PROVE Stage(v, k)'
  <2>1. /\ Stage(v, k) /\ opened'[v][k] = opened[v][k] /\ Tried(v, k)' = Tried(v, k)
        /\ mailed'[v] = mailed[v] /\ (Sent(v, k)' => Sent(v, k))
    BY <1>1 DEF OneStage, Tried, Tries, Sent
  <2>2. CASE v = m.user /\ k = m.code
    <3>1. Sent(v, k) /\ ~Sent(v, k)'
      BY <1>3, <2>2 DEF Sent
    <3>2. k <= mailed[v] /\ mailed[v] \in Nat /\ k \in Nat
      BY <2>2, Numbers DEF OneMail, Types, CodeTypes
    <3>3. ~(k > mailed[v])
      BY <3>2
    <3> QED BY <2>1, <3>1, <3>3 DEF Stage
  <2>3. CASE v = m.user /\ k # m.code
    <3>1. ~Current(v, k)'
      BY <1>2, <2>3 DEF Current
    <3> QED BY <2>1, <3>1 DEF Stage
  <2>4. CASE v # m.user
    <3>1. Current(v, k)' = Current(v, k)
      BY <1>2, <2>4 DEF Current
    <3> QED BY <2>1, <3>1 DEF Stage
  <2> QED BY <2>2, <2>3, <2>4
<1> QED BY <1>1, <1>4 DEF OneStage

\* It is tried, and used up before the caller waits.
LEMMA TriedStages ==
  ASSUME Types, OneMail, OneStage, NEW u \in Users, NEW code \in 0..MaxCodes, TryCode(u, code)
  PROVE  OneStage'
<1>1. challenge[u] \in Challenges /\ UNCHANGED <<sending, mailed, opened>>
  BY DEF TryCode, Types, CodeTypes
<1>2. CASE challenge' = [challenge EXCEPT ![u] = None] /\ UNCHANGED queue
  <2>1. \A v \in Users, k \in 1..MaxCodes : Current(v, k)' => Current(v, k)
    BY <1>2 DEF Current, None, Types, CodeTypes
  <2>2. \A v \in Users : \A k \in 1..MaxCodes : Stage(v, k)'
    BY <1>1, <1>2, <2>1, Unstaged DEF Sent, Tried, Tries
  <2> QED BY <1>2, <2>2 DEF OneStage
<1>3. CASE challenge' = [challenge EXCEPT ![u].left = @ - 1] /\ UNCHANGED queue
  <2>1. \A v \in Users : challenge'[v].code = challenge[v].code
    BY <1>1, <1>3 DEF Types, CodeTypes, Challenges
  <2>2. \A v \in Users, k \in 1..MaxCodes : Current(v, k)' => Current(v, k)
    BY <2>1 DEF Current
  <2>3. \A v \in Users : \A k \in 1..MaxCodes : Stage(v, k)'
    BY <1>1, <1>3, <2>2, Unstaged DEF Sent, Tried, Tries
  <2> QED BY <1>3, <2>3 DEF OneStage
<1>4. CASE /\ challenge[u].code = code /\ challenge' = [challenge EXCEPT ![u] = None]
           /\ Joins("verify", u, code)
  <2>1. /\ code \in 1..MaxCodes /\ \A k \in 1..MaxCodes : ~Current(u, k)'
        /\ \A v \in Users : v # u => challenge'[v] = challenge[v]
    BY <1>1, <1>4 DEF Challenges, Current, None, Types, CodeTypes
  <2>2. \A i \in 1..Len(queue') :
          \/ i \in 1..Len(queue) /\ queue'[i] = queue[i]
          \/ i = Len(queue) + 1 /\ queue'[i].user = u /\ queue'[i].code = code
    BY <1>4, JoinedLine
  <2>3. Stage(u, code) /\ Current(u, code)
    BY <1>4, <2>1 DEF OneStage, Current
  <2>4. /\ opened[u][code] = 0 /\ ~Tried(u, code) /\ ~Sent(u, code) /\ ~(code > mailed[u])
    BY <2>3 DEF Stage
  <2>5. ASSUME NEW v \in Users, NEW k \in 1..MaxCodes PROVE Stage(v, k)'
    <3>1. /\ Stage(v, k) /\ opened'[v][k] = opened[v][k] /\ mailed'[v] = mailed[v]
          /\ Sent(v, k)' = Sent(v, k)
      BY <1>1 DEF OneStage, Sent
    <3>2. CASE v = u /\ k = code
      BY <2>1, <2>4, <3>1, <3>2 DEF Stage
    <3>3. CASE ~(v = u /\ k = code)
      <4>1. Tried(v, k)' => Tried(v, k)
        BY <2>2, <3>3 DEF Tried, Tries
      <4>2. Current(v, k)' => Current(v, k)
        BY <2>1 DEF Current
      <4> QED BY <3>1, <4>1, <4>2 DEF Stage
    <3> QED BY <3>2, <3>3
  <2>6. \A i \in 1..Len(queue) :
          ~(queue[i].kind = "verify" /\ queue[i].user = u /\ queue[i].code = code)
    BY <2>4 DEF Tried, Tries
  <2>7. \A i, j \in 1..Len(queue') :
          queue'[i].kind = "verify" /\ queue'[j].kind = "verify"
            /\ queue'[i].user = queue'[j].user /\ queue'[i].code = queue'[j].code => i = j
    BY <2>2, <2>6 DEF OneStage
  <2> QED BY <2>5, <2>7 DEF OneStage
<1> QED BY <1>2, <1>3, <1>4 DEF TryCode, Consumed

\* It opens a session and is gone.
LEMMA SignedInStages ==
  ASSUME Types, OneMail, OneStage, SignedIn
  PROVE  OneStage'
<1> DEFINE u == First.user
           c == First.code
<1>1. /\ queue # <<>> /\ queue' = Tail(queue) /\ UNCHANGED <<sending, challenge, mailed>>
      /\ First.kind = "verify"
  BY DEF SignedIn, Settled, Leaves, Types
<1>2. u \in Users /\ 1 \in 1..Len(queue)
  BY <1>1, FirstType
<1>3. \A v \in Users, k \in 1..MaxCodes :
        /\ Tried(v, k)' => Tried(v, k)
        /\ Current(v, k)' = Current(v, k) /\ Sent(v, k)' = Sent(v, k)
  BY <1>1, LeftTries DEF Current, Sent
<1>4. CASE UNCHANGED opened
  <2>1. \A v \in Users : \A k \in 1..MaxCodes : Stage(v, k)'
    BY <1>1, <1>3, <1>4, Unstaged
  <2> QED BY <1>1, <2>1, LeftTries DEF OneStage
<1>5. CASE opened' = [opened EXCEPT ![u][c] = @ + 1]
  <2>1. ASSUME NEW v \in Users, NEW k \in 1..MaxCodes PROVE Stage(v, k)'
    <3>1. Stage(v, k) /\ mailed'[v] = mailed[v]
      BY <1>1 DEF OneStage
    <3>2. CASE v = u /\ k = c
      <4>1. Tried(v, k)
        BY <1>1, <1>2, <3>2 DEF Tried, Tries, First
      <4>2. opened[v][k] = 0 /\ ~Sent(v, k) /\ ~Current(v, k) /\ ~(k > mailed[v])
        BY <3>1, <4>1 DEF Stage
      <4>3. opened'[v][k] = 1
        <5>1. opened \in [Users -> [1..MaxCodes -> Nat]]
          BY DEF Types, CodeTypes
        <5>2. opened'[v][k] = opened[v][k] + 1
          BY <1>5, <3>2, <5>1
        <5> QED BY <4>2, <5>2
      <4>4. ~Tried(v, k)'
        <5>1. Tries(1, v, k)
          BY <1>1, <3>2 DEF Tries, First
        <5> QED BY <1>1, <5>1, LeftTries
      <4> QED BY <1>3, <3>1, <4>2, <4>3, <4>4 DEF Stage
    <3>3. CASE ~(v = u /\ k = c)
      <4>1. opened'[v][k] = opened[v][k]
        BY <1>2, <1>5, <3>3 DEF Types, CodeTypes
      <4> QED BY <1>3, <3>1, <4>1 DEF Stage
    <3> QED BY <3>2, <3>3
  <2> QED BY <1>1, <2>1, LeftTries DEF OneStage
<1> QED BY <1>4, <1>5 DEF SignedIn

LEMMA StepOneStage == Types /\ OneMail /\ OneStage /\ [Next]_vars => OneStage'
<1> SUFFICES ASSUME Types, OneMail, OneStage, [Next]_vars PROVE OneStage'
  OBVIOUS
<1> CodeUsers \subseteq Users
  BY BoundsAreNumbers
<1>1. CASE UNCHANGED vars
  BY <1>1, RestStages
<1>2. CASE Next
  BY <1>2, RestStages, MailedStages, AcceptedStages, TriedStages, SignedInStages DEF Next
<1> QED BY <1>1, <1>2

\* A code opens at most one session, for any number of codes, tries and callers
\* in line.
THEOREM CodesOpenOneSession == Spec => []CodeOpensOneSession
<1>1. Spec => []OneMail
  BY AccessTypesCorrect, InitOneMail, StepOneMail, PTL DEF Spec
<1>2. Spec => []OneStage
  BY AccessTypesCorrect, <1>1, InitOneStage, StepOneStage, PTL DEF Spec
<1>3. OneStage => CodeOpensOneSession
  BY DEF OneStage, Stage, CodeOpensOneSession
<1> QED BY <1>2, <1>3, PTL

=============================================================================
