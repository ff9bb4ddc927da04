------------------------ MODULE EvidenceWatchProofs ------------------------
(***************************************************************************)
(* Proofs about EvidenceWatch for every value of its constants.            *)
(*                                                                         *)
(* 1. TypeOK is inductive on its own, one lemma per group of actions.      *)
(***************************************************************************)
EXTENDS EvidenceWatch, TLAPS

(* Ages stay ages, and stats stay stats, as time passes.                   *)
LEMMA AgingType ==
  /\ \A a \in Ages : Older(a) \in Ages
  /\ \A s \in Stats : OlderStat(s) \in Stats
<1>1. ASSUME NEW a \in Ages PROVE Older(a) \in Ages
  BY WatchAssumption DEF Ages, Older
<1>2. ASSUME NEW s \in Stats PROVE OlderStat(s) \in Stats
  BY <1>1 DEF Stats, OlderStat
<1> QED BY <1>1, <1>2

(* The anchor of a recording is a size and an age.                         *)
LEMMA AnchorType ==
  ASSUME TypeOK, NEW p \in Paths
  PROVE  Anchor(p) \in Stats
  BY DEF TypeOK, Anchor

(* The first state is typed.                                               *)
LEMMA InitTypes == Init => TypeOK
  BY WatchAssumption DEF Init, TypeOK, Sizes, Ages, Stats, NoStat, EmptyState, Awaits, Own, Positioned

(* The recorder and the clock keep the types.                              *)
LEMMA WriteTypes ==
  ASSUME TypeOK, NEW p \in Paths, NEW n \in Sizes, Write(p, n)
  PROVE  TypeOK'
  BY WatchAssumption DEF TypeOK, Write, Ages, Positioned, memory, faults

LEMMA TickTypes ==
  ASSUME TypeOK, Tick
  PROVE  TypeOK'
<1>1. pc' \in [Watchers -> Awaits \cup {"down", "awake", "next", "sleep"}]
  BY DEF TypeOK, Tick
<1>2. \A w \in Watchers : pc'[w] \in Awaits <=> pc[w] \in Awaits
  BY DEF TypeOK, Tick, Awaits
<1>3. listed' \in [Paths -> Stats] /\ settling' \in [Paths -> Stats \cup {None}]
  BY AgingType DEF TypeOK, Tick
<1>4. touched' \in [Paths -> Ages]
  BY AgingType DEF TypeOK, Tick
<1> QED BY <1>1, <1>2, <1>3, <1>4 DEF TypeOK, Tick, Positioned, effects, faults

(* So does a watcher that goes through its list,                           *)
LEMMA SweepTypes ==
  ASSUME TypeOK, NEW w \in Watchers,
         \/ Start(w) \/ List(w) \/ EndTick(w)
         \/ \E p \in Paths : Skip(w, p) \/ StartUpload(w, p)
  PROVE  TypeOK'
<1>1. CASE Start(w)
  BY <1>1 DEF TypeOK, Start, LoadedState, Awaits, Own, Positioned, disk, effects, faults
<1>2. CASE List(w)
  <2>1. listed' \in [Paths -> Stats]
    BY <1>2 DEF TypeOK, List, Stats, disk
  <2> QED BY <1>2, <2>1 DEF TypeOK, List, Awaits, Own, Positioned, disk, effects, faults
<1>3. CASE EndTick(w)
  BY <1>3 DEF TypeOK, EndTick, Awaits, Own, Positioned, disk, effects, faults
<1>4. ASSUME NEW p \in Paths, Skip(w, p) PROVE TypeOK'
  <2>1. NoStat \in Stats
    BY WatchAssumption DEF NoStat, Stats, Sizes, Ages
  <2> QED BY <1>4, <2>1, AnchorType DEF TypeOK, Skip, Positioned, disk, effects, faults
<1>5. ASSUME NEW p \in Paths, StartUpload(w, p) PROVE TypeOK'
  <2>1. NoStat \in Stats /\ Anchor(p) \in Stats
    BY WatchAssumption, AnchorType DEF NoStat, Stats, Sizes, Ages
  <2>2. /\ pc[w] = "next" /\ p \in todo[w] /\ p \notin done[w] /\ p \in Own(w)
    BY <1>5 DEF TypeOK, StartUpload, IsNext, IsDone
  <2>3. \A v \in Watchers : todo'[v] \subseteq Own(v) /\ Positioned(v)'
    <3>1. CASE "uploading" \in Awaits
      BY <1>5, <2>2, <3>1 DEF TypeOK, StartUpload, Positioned, Own
    <3> QED BY <3>1 DEF Awaits
  <2> QED BY <1>5, <2>1, <2>3 DEF TypeOK, StartUpload, Awaits, disk, effects, faults
<1> QED BY <1>1, <1>2, <1>3, <1>4, <1>5

(* a watcher whose upload goes on,                                         *)
LEMMA UploadTypes ==
  ASSUME TypeOK, NEW w \in Watchers,
         FileReady(w) \/ PostComment(w) \/ Commit(w)
  PROVE  TypeOK'
<1>1. pc[w] \in Awaits /\ current[w] \in Own(w) /\ current[w] \in Paths
  BY DEF TypeOK, FileReady, PostComment, Commit, Awaits, Positioned, Own
<1>2. \A v \in Watchers : todo'[v] \subseteq Own(v) /\ Positioned(v)'
  BY DEF TypeOK, FileReady, PostComment, Commit, Awaits, Positioned, Own
<1> QED BY <1>1, <1>2
        DEF TypeOK, FileReady, PostComment, Commit, Awaits, disk, effects, faults

(* a watcher that writes down how its upload ended, whatever it remembers, *)
LEMMA RememberTypes ==
  ASSUME TypeOK, NEW w \in Watchers, pc[w] \in Awaits,
         NEW doneNow \in SUBSET Paths, NEW failedNow \in SUBSET Paths,
         Remember(w, doneNow, failedNow),
         settling' \in [Paths -> Stats \cup {None}],
         UNCHANGED <<comments, published>>, refused' \subseteq Paths,
         failures' \in 0..MaxFailures, UNCHANGED crashes
  PROVE  TypeOK'
<1>1. \A v \in Watchers : todo'[v] \subseteq Own(v) /\ Positioned(v)'
  BY DEF TypeOK, Remember, Awaits, Positioned, Own
<1>2. current[w] \in Paths
  BY DEF TypeOK, Positioned, Own
<1>3. /\ saved' \in [done : SUBSET Paths, failed : SUBSET Paths]
      /\ torn' \in [Paths -> SUBSET {"grown", "rewritten"}]
  BY <1>2 DEF TypeOK, Remember
<1> QED BY <1>1, <1>3 DEF TypeOK, Remember, Awaits, disk

LEMMA AnswerTypes ==
  ASSUME TypeOK, NEW w \in Watchers,
         Succeeds(w) \/ Fails(w) \/ Rejected(w) \/ TornUpload(w) \/ Quarantined(w)
  PROVE  TypeOK'
<1>1. pc[w] \in Awaits
  BY DEF Succeeds, Fails, Rejected, TornUpload, Quarantined, Awaits
<1>2. current[w] \in Paths
  BY <1>1 DEF TypeOK, Positioned, Own
<1>3. /\ done[w] \in SUBSET Paths /\ done[w] \cup {current[w]} \in SUBSET Paths
      /\ failed[w] \ {current[w]} \in SUBSET Paths
      /\ failed[w] \cup {current[w]} \in SUBSET Paths
  BY <1>2 DEF TypeOK
<1>4. CASE Succeeds(w)
  BY <1>1, <1>3, <1>4, RememberTypes DEF TypeOK, Succeeds, faults
<1>5. CASE Fails(w)
  <2>1. failures' \in 0..MaxFailures
    BY <1>5, WatchAssumption DEF TypeOK, Fails
  <2> QED BY <1>1, <1>3, <1>5, <2>1, RememberTypes DEF TypeOK, Fails, TryLater
<1>6. CASE Rejected(w) \/ TornUpload(w)
  <2>1. /\ Remember(w, done[w], failed[w] \cup {current[w]})
        /\ settling' \in [Paths -> Stats \cup {None}]
        /\ UNCHANGED <<comments, published>> /\ refused' \subseteq Paths
        /\ failures' \in 0..MaxFailures /\ UNCHANGED crashes
    BY <1>6 DEF TypeOK, Rejected, TornUpload, TryLater, faults
  <2> QED BY <1>1, <1>3, <2>1, RememberTypes
<1>7. CASE Quarantined(w)
  <2>1. /\ Remember(w, done[w] \cup {current[w]}, failed[w] \cup {current[w]})
        /\ settling' \in [Paths -> Stats \cup {None}]
        /\ UNCHANGED <<comments, published>> /\ refused' \subseteq Paths
        /\ failures' \in 0..MaxFailures /\ UNCHANGED crashes
    BY <1>2, <1>7 DEF TypeOK, Quarantined, faults
  <2> QED BY <1>1, <1>3, <2>1, RememberTypes
<1> QED BY <1>4, <1>5, <1>6, <1>7

(* and a watcher that ends.                                                *)
LEMMA EndTypes ==
  ASSUME TypeOK, NEW w \in Watchers,
         Stop(w) \/ Crash(w) \/ CrashInSave(w)
  PROVE  TypeOK'
<1>1. Forget(w) /\ NoStat \in Stats
  BY WatchAssumption DEF Stop, Crash, CrashInSave, NoStat, Stats, Sizes, Ages
<1>2. \A v \in Watchers : todo'[v] \subseteq Own(v) /\ Positioned(v)'
  BY <1>1 DEF TypeOK, Forget, Awaits, Positioned
<1>3. saved' \in [done : SUBSET Paths, failed : SUBSET Paths]
  BY DEF TypeOK, Stop, Crash, CrashInSave, EmptyState
<1>4. failures' \in 0..MaxFailures /\ crashes' \in 0..MaxCrashes
  BY WatchAssumption DEF TypeOK, Stop, Crash, CrashInSave, faults
<1> QED BY <1>1, <1>2, <1>3, <1>4 DEF TypeOK, Forget, disk

(* Every step keeps the types.                                             *)
LEMMA NextTypes == TypeOK /\ [Next]_vars => TypeOK'
<1> SUFFICES ASSUME TypeOK, [Next]_vars PROVE TypeOK'
  OBVIOUS
<1>1. CASE UNCHANGED vars
  BY <1>1 DEF TypeOK, Positioned, vars, disk, memory, effects, faults
<1>2. CASE Next
  BY <1>2, TickTypes, WriteTypes, SweepTypes, UploadTypes, AnswerTypes, EndTypes
     DEF Next, Proceed
<1> QED BY <1>1, <1>2

(* Every reachable state has the declared types, and a watcher uploads     *)
(* only a recording of its own directory that it is not done with          *)
(* (watch.ts:90-106), for any recordings and any number of watchers.       *)
THEOREM WatchTypesCorrect == Spec => []TypeOK
<1> QED BY InitTypes, NextTypes, PTL DEF Spec
-----------------------------------------------------------------------------
(* Why nothing is lost: a recording is on a done list, in the file or in a *)
(* watcher's memory, only if it was published or refused, and a watcher    *)
(* about to put one there has just published it.                           *)
Accounted(p) == published[p] > 0 \/ p \in refused

LossInv ==
  /\ \A p \in saved.done : Accounted(p)
  /\ \A w \in Watchers : \A p \in done[w] : Accounted(p)
  /\ \A w \in Watchers : pc[w] = "committed" => published[current[w]] > 0

LEMMA LossStep == TypeOK /\ LossInv /\ [Next]_vars => LossInv'
<1> SUFFICES ASSUME TypeOK, LossInv, [Next]_vars PROVE LossInv'
  OBVIOUS
<1>1. CASE UNCHANGED vars
  BY <1>1 DEF LossInv, Accounted, vars, memory, effects
<1>2. CASE Tick
  BY <1>2 DEF TypeOK, LossInv, Accounted, Tick, effects
<1>3. ASSUME NEW p \in Paths, NEW n \in Sizes, Write(p, n) PROVE LossInv'
  BY <1>3 DEF LossInv, Accounted, Write, memory
<1>4. ASSUME NEW w \in Watchers, Start(w) PROVE LossInv'
  BY <1>4 DEF TypeOK, LossInv, Accounted, Start, LoadedState, effects
<1>5. ASSUME NEW w \in Watchers, List(w) \/ EndTick(w) PROVE LossInv'
  BY <1>5 DEF TypeOK, LossInv, Accounted, List, EndTick, effects
<1>6. ASSUME NEW w \in Watchers, NEW p \in Paths, Skip(w, p) \/ StartUpload(w, p)
      PROVE LossInv'
  BY <1>6 DEF TypeOK, LossInv, Accounted, Skip, StartUpload, effects
<1>7. ASSUME NEW w \in Watchers, FileReady(w) \/ PostComment(w) PROVE LossInv'
  BY <1>7 DEF TypeOK, LossInv, Accounted, FileReady, PostComment
<1>8. ASSUME NEW w \in Watchers, Commit(w) PROVE LossInv'
  <2>1. current[w] \in Paths /\ published' = [published EXCEPT ![current[w]] = @ + 1]
    BY <1>8 DEF TypeOK, Commit, Positioned, Awaits, Own
  <2>2. \A p \in Paths : published[p] \in Nat /\ published'[p] \in Nat
    BY <2>1 DEF TypeOK
  <2>3. \A p \in Paths : published'[p] >= published[p]
    BY <2>1, <2>2 DEF TypeOK
  <2>4. published'[current[w]] > 0
    BY <2>1, <2>2 DEF TypeOK
  <2>5. \A p \in Paths : Accounted(p) => Accounted(p)'
    BY <1>8, <2>2, <2>3 DEF Commit, Accounted
  <2>6. \A v \in Watchers : pc'[v] = "committed" => published'[current'[v]] > 0
    <3>1. SUFFICES ASSUME NEW v \in Watchers, pc'[v] = "committed"
                   PROVE  published'[current[v]] > 0
      BY <1>8 DEF Commit
    <3>2. CASE v = w
      BY <2>4, <3>2
    <3>3. CASE v # w
      <4>1. pc[v] = "committed"
        BY <1>8, <3>1, <3>3 DEF TypeOK, Commit
      <4>2. current[v] \in Paths /\ published[current[v]] > 0
        BY <4>1 DEF TypeOK, LossInv, Positioned, Awaits, Own
      <4> QED BY <2>2, <2>3, <4>2
    <3> QED BY <3>2, <3>3
  <2> QED BY <1>8, <2>5, <2>6 DEF TypeOK, LossInv, Commit
<1>9. ASSUME NEW w \in Watchers, Succeeds(w) PROVE LossInv'
  <2>1. current[w] \in Paths /\ published[current[w]] > 0
    BY <1>9 DEF TypeOK, LossInv, Succeeds, Positioned, Awaits, Own
  <2>2. \A p \in done[w] \cup {current[w]} : Accounted(p)'
    BY <1>9, <2>1 DEF LossInv, Accounted, Succeeds
  <2> QED BY <1>9, <2>2 DEF TypeOK, LossInv, Accounted, Succeeds, Remember
<1>10. ASSUME NEW w \in Watchers, Fails(w) \/ Rejected(w) \/ TornUpload(w) PROVE LossInv'
  BY <1>10 DEF TypeOK, LossInv, Accounted, Fails, Rejected, TornUpload, TryLater, Remember
<1>11. ASSUME NEW w \in Watchers, Quarantined(w) PROVE LossInv'
  <2>1. \A p : Accounted(p) => Accounted(p)'
    BY <1>11 DEF Accounted, Quarantined
  <2>2. \A p \in done[w] \cup {current[w]} : Accounted(p)'
    BY <1>11, <2>1 DEF LossInv, Accounted, Quarantined
  <2>3. \A v \in Watchers : pc'[v] = "committed" => published'[current'[v]] > 0
    BY <1>11 DEF TypeOK, LossInv, Quarantined, Remember
  <2>4. /\ \A p \in saved'.done : Accounted(p)'
        /\ \A v \in Watchers : \A p \in done'[v] : Accounted(p)'
    BY <1>11, <2>1, <2>2 DEF TypeOK, LossInv, Quarantined, Remember
  <2> QED BY <2>3, <2>4 DEF LossInv
<1>12. ASSUME NEW w \in Watchers, Stop(w) \/ Crash(w) \/ CrashInSave(w)
       PROVE  LossInv'
  <2>1. Forget(w) /\ (saved' = saved \/ saved' = EmptyState)
    BY <1>12 DEF Stop, Crash, CrashInSave
  <2>2. \A p : Accounted(p) => Accounted(p)'
    BY <2>1 DEF Accounted, Forget
  <2>3. \A v \in Watchers : pc'[v] = "committed" => published'[current'[v]] > 0
    BY <2>1 DEF TypeOK, LossInv, Forget
  <2>4. \A v \in Watchers : \A p \in done'[v] : Accounted(p)'
    BY <2>1, <2>2 DEF TypeOK, LossInv, Forget
  <2>5. \A p \in saved'.done : Accounted(p)'
    BY <2>1, <2>2 DEF LossInv, EmptyState
  <2> QED BY <2>3, <2>4, <2>5 DEF LossInv
<1> QED BY <1>1, <1>2, <1>3, <1>4, <1>5, <1>6, <1>7, <1>8, <1>9, <1>10, <1>11, <1>12
        DEF Next, Proceed

(* What the shared state file counts as done was published or refused by   *)
(* the gateway, for any number of watchers overwriting each other's file,  *)
(* and wherever they crash (watch.ts:107-121).                             *)
THEOREM NothingIsLost == Spec => []NothingLost
<1>1. Init => LossInv
  BY DEF Init, LossInv, EmptyState
<1>2. LossInv => NothingLost
  BY DEF LossInv, NothingLost, Accounted
<1> QED BY <1>1, <1>2, InitTypes, NextTypes, LossStep, PTL DEF Spec
-----------------------------------------------------------------------------
(* Why one watcher does not repeat itself: each comment is for a recording *)
(* on the done list, for the upload at hand, or paid for by a failure or a *)
(* crash.  What is in the file is in its memory too: nobody else writes    *)
(* the file.  Two watchers of one user break this.                         *)
AtHand(p, steps) == current[WatcherOf[p]] = p /\ pc[WatcherOf[p]] \in steps

Counted(p) ==
  IF p \in saved.done \/ AtHand(p, {"commented", "committed"}) THEN 1 ELSE 0

CommentsPaid(p) == comments[p] <= failures + crashes + Counted(p)

CommentFirst(p) ==
  /\ published[p] <= comments[p]
  /\ AtHand(p, {"commented"}) => published[p] < comments[p]

RemembersFile == \A w \in Watchers : pc[w] # "down" => saved.done \subseteq done[w]

DuplicateInv ==
  /\ RemembersFile
  /\ \A p \in Paths : CommentsPaid(p) /\ CommentFirst(p)

(* What one watcher remembers is what the file holds or more.              *)
LEMMA MemoryStep ==
  ASSUME NEW w \in Watchers, Watchers = {w}, TypeOK, RemembersFile, [Next]_vars
  PROVE  RemembersFile'
<1>1. CASE UNCHANGED vars
  BY <1>1 DEF RemembersFile, vars, memory
<1>2. CASE Tick
  BY <1>2 DEF TypeOK, RemembersFile, Tick
<1>3. ASSUME NEW p \in Paths, NEW n \in Sizes, Write(p, n) PROVE RemembersFile'
  BY <1>3 DEF RemembersFile, Write, memory
<1>4. CASE Start(w)
  BY <1>4 DEF TypeOK, RemembersFile, Start, LoadedState
<1>5. CASE List(w) \/ EndTick(w) \/ FileReady(w) \/ PostComment(w) \/ Commit(w)
  BY <1>5 DEF TypeOK, RemembersFile, List, EndTick, FileReady, PostComment, Commit
<1>6. ASSUME NEW p \in Paths, Skip(w, p) \/ StartUpload(w, p) PROVE RemembersFile'
  BY <1>6 DEF TypeOK, RemembersFile, Skip, StartUpload, IsNext
<1>7. CASE Succeeds(w) \/ Fails(w) \/ Rejected(w) \/ TornUpload(w) \/ Quarantined(w)
  BY <1>7 DEF TypeOK, RemembersFile, Succeeds, Fails, Rejected, TornUpload, Quarantined, TryLater,
              Remember
<1>8. CASE Stop(w) \/ Crash(w) \/ CrashInSave(w)
  BY <1>8 DEF TypeOK, RemembersFile, Stop, Crash, CrashInSave, Forget
<1> QED BY <1>1, <1>2, <1>3, <1>4, <1>5, <1>6, <1>7, <1>8 DEF Next, Proceed

(* The one watcher's recording at hand is not on the done list of the file. *)
LEMMA AtHandIsNew ==
  ASSUME NEW w \in Watchers, Watchers = {w}, TypeOK, RemembersFile, pc[w] \in Awaits
  PROVE  /\ current[w] \in Paths /\ current[w] \notin saved.done
         /\ \A p \in Paths : WatcherOf[p] = w
  BY WatchAssumption DEF TypeOK, RemembersFile, Positioned, Own, Awaits

LEMMA DuplicateStep ==
  ASSUME NEW w \in Watchers, Watchers = {w}, TypeOK, DuplicateInv, [Next]_vars
  PROVE  DuplicateInv'
<1>1. RemembersFile'
  BY MemoryStep DEF DuplicateInv
<1>2. /\ \A p \in Paths : WatcherOf[p] = w
      /\ failures \in Nat /\ crashes \in Nat
      /\ \A p \in Paths : comments[p] \in Nat /\ published[p] \in Nat
      /\ \A p \in Paths : Counted(p) \in {0, 1} /\ Counted(p)' \in {0, 1}
  BY WatchAssumption DEF TypeOK, Counted
<1>3. SUFFICES ASSUME NEW p \in Paths
               PROVE  CommentsPaid(p)' /\ CommentFirst(p)'
  BY <1>1 DEF DuplicateInv
<1>4. /\ comments[p] <= failures + crashes + Counted(p)
      /\ published[p] <= comments[p]
      /\ AtHand(p, {"commented"}) => published[p] < comments[p]
  BY DEF DuplicateInv, CommentsPaid, CommentFirst
<1>5. ASSUME UNCHANGED <<comments, published, failures, crashes, saved>>,
             AtHand(p, {"commented", "committed"})' <=> AtHand(p, {"commented", "committed"}),
             AtHand(p, {"commented"})' => AtHand(p, {"commented"})
      PROVE  CommentsPaid(p)' /\ CommentFirst(p)'
  BY <1>4, <1>5 DEF Counted, CommentsPaid, CommentFirst
<1>6. CASE UNCHANGED vars
  BY <1>5, <1>6 DEF AtHand, vars, memory, effects, faults
<1>7. CASE Tick
  BY <1>2, <1>5, <1>7 DEF TypeOK, AtHand, Tick, effects, faults
<1>8. ASSUME NEW q \in Paths, NEW n \in Sizes, Write(q, n)
      PROVE  CommentsPaid(p)' /\ CommentFirst(p)'
  BY <1>5, <1>8 DEF AtHand, Write, memory, faults
<1>9. CASE Start(w) \/ List(w) \/ EndTick(w) \/ FileReady(w)
  BY <1>2, <1>5, <1>9 DEF TypeOK, AtHand, Start, List, EndTick, FileReady, effects, faults
<1>10. ASSUME NEW q \in Paths, Skip(w, q) \/ StartUpload(w, q)
       PROVE  CommentsPaid(p)' /\ CommentFirst(p)'
  BY <1>2, <1>5, <1>10 DEF TypeOK, AtHand, Skip, StartUpload, IsNext, effects, faults
<1>11. CASE PostComment(w)
  <2>1. /\ pc[w] = "ready" /\ pc'[w] = "commented" /\ current'[w] = current[w]
        /\ current[w] \in Paths /\ current[w] \notin saved.done
        /\ comments' = [comments EXCEPT ![current[w]] = @ + 1]
        /\ UNCHANGED <<published, failures, crashes, saved>>
    BY <1>11, AtHandIsNew DEF TypeOK, DuplicateInv, PostComment, Awaits, faults
  <2>2. CASE p = current[w]
    <3>1. Counted(p) = 0 /\ Counted(p)' = 1 /\ comments'[p] = comments[p] + 1
      BY <1>2, <2>1, <2>2 DEF TypeOK, Counted, AtHand
    <3> QED BY <1>2, <1>4, <2>1, <3>1 DEF CommentsPaid, CommentFirst
  <2>3. CASE p # current[w]
    <3>1. comments'[p] = comments[p] /\ ~AtHand(p, {"commented"})' /\ Counted(p)' = Counted(p)
      BY <1>2, <2>1, <2>3 DEF TypeOK, Counted, AtHand
    <3> QED BY <1>4, <2>1, <3>1 DEF CommentsPaid, CommentFirst
  <2> QED BY <2>2, <2>3
<1>12. CASE Commit(w)
  <2>1. /\ pc[w] = "commented" /\ pc'[w] = "committed" /\ current'[w] = current[w]
        /\ published' = [published EXCEPT ![current[w]] = @ + 1]
        /\ UNCHANGED <<comments, failures, crashes, saved>>
    BY <1>12 DEF TypeOK, Commit, faults
  <2>2. Counted(p)' = Counted(p) /\ ~AtHand(p, {"commented"})'
    BY <1>2, <2>1 DEF Counted, AtHand
  <2>3. published'[p] <= comments[p]
    <3>1. CASE p = current[w]
      <4>1. published[p] < comments[p] /\ published'[p] = published[p] + 1
        BY <1>2, <1>4, <2>1, <3>1 DEF TypeOK, AtHand
      <4> QED BY <1>2, <4>1
    <3>2. CASE p # current[w]
      BY <1>4, <2>1, <3>2 DEF TypeOK
    <3> QED BY <3>1, <3>2
  <2> QED BY <1>4, <2>1, <2>2, <2>3 DEF CommentsPaid, CommentFirst
<1>13. CASE Succeeds(w)
  <2>1. /\ pc[w] = "committed" /\ pc'[w] = "next"
        /\ saved'.done = done[w] \cup {current[w]} /\ saved.done \subseteq done[w]
        /\ UNCHANGED <<comments, published, failures, crashes>>
    BY <1>13 DEF TypeOK, DuplicateInv, RemembersFile, Succeeds, Remember, faults
  <2>2. Counted(p) <= Counted(p)' /\ ~AtHand(p, {"commented"})'
    BY <1>2, <2>1 DEF Counted, AtHand
  <2> QED BY <1>2, <1>4, <2>1, <2>2 DEF CommentsPaid, CommentFirst
<1>14. CASE Rejected(w) \/ TornUpload(w) \/ Quarantined(w)
  <2>1. /\ pc[w] = "uploading" /\ pc'[w] = "next"
        /\ saved.done \subseteq saved'.done
        /\ UNCHANGED <<comments, published, failures, crashes>>
    BY <1>14 DEF TypeOK, DuplicateInv, RemembersFile, Rejected, TornUpload, Quarantined, TryLater,
                 Remember, faults
  <2>2. Counted(p) <= Counted(p)' /\ ~AtHand(p, {"commented"})'
    BY <1>2, <2>1 DEF Counted, AtHand
  <2> QED BY <1>2, <1>4, <2>1, <2>2 DEF CommentsPaid, CommentFirst
<1>15. CASE Fails(w) \/ Stop(w) \/ Crash(w) \/ CrashInSave(w)
  <2>1. UNCHANGED <<comments, published>> /\ pc'[w] \in {"next", "down"}
    BY <1>15 DEF TypeOK, Fails, TryLater, Remember, Stop, Crash, CrashInSave, Forget
  <2>2. \/ failures' + crashes' = failures + crashes + 1
        \/ /\ UNCHANGED <<failures, crashes, saved>>
           /\ pc[w] = "sleep"
    BY <1>2, <1>15 DEF Fails, Stop, Crash, CrashInSave, faults
  <2>3. ~AtHand(p, {"commented"})'
    BY <1>2, <2>1 DEF AtHand
  <2>4. comments[p] <= failures' + crashes' + Counted(p)'
    <3>1. CASE failures' + crashes' = failures + crashes + 1
      BY <1>2, <1>4, <3>1
    <3>2. CASE UNCHANGED <<failures, crashes, saved>> /\ pc[w] = "sleep"
      <4>1. Counted(p)' = Counted(p)
        BY <1>2, <2>1, <3>2 DEF Counted, AtHand
      <4> QED BY <1>4, <3>2, <4>1
    <3> QED BY <2>2, <3>1, <3>2
  <2> QED BY <1>4, <2>1, <2>3, <2>4 DEF CommentsPaid, CommentFirst
<1> QED BY <1>6, <1>7, <1>8, <1>9, <1>10, <1>11, <1>12, <1>13, <1>14, <1>15
        DEF Next, Proceed

(* A user who runs one watcher gets one comment for each recording, and    *)
(* one more at most for each failure and crash, however often the watcher  *)
(* is stopped and started; and no recording is published without a comment *)
(* of its own (watch.ts:33, 107-121; index.ts:246-261).                    *)
THEOREM OneWatcherRepeatsOnlyForFaults ==
  ASSUME NEW w \in Watchers, Watchers = {w}
  PROVE  Spec => []FaultsExplainDuplicates
<1>1. Init => DuplicateInv
  BY WatchAssumption
     DEF Init, DuplicateInv, RemembersFile, CommentsPaid, CommentFirst, Counted, AtHand
<1>2. TypeOK /\ DuplicateInv /\ [Next]_vars => DuplicateInv'
  BY DuplicateStep
<1>3. TypeOK /\ DuplicateInv => FaultsExplainDuplicates
  <2> SUFFICES ASSUME TypeOK, DuplicateInv, NEW p \in Paths
               PROVE  comments[p] <= 1 + failures + crashes /\ published[p] <= comments[p]
    BY DEF FaultsExplainDuplicates
  <2>1. /\ comments[p] \in Nat /\ failures \in Nat /\ crashes \in Nat
        /\ Counted(p) \in {0, 1}
    BY WatchAssumption DEF TypeOK, Counted
  <2> QED BY <2>1 DEF DuplicateInv, CommentsPaid, CommentFirst
<1> QED BY <1>1, <1>2, <1>3, InitTypes, NextTypes, PTL DEF Spec
=============================================================================
