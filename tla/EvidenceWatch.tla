--------------------------- MODULE EvidenceWatch ---------------------------
(***************************************************************************)
(* The folder watcher of the evidence CLI (cli/watch.ts, and the parts of  *)
(* cli/index.ts it is given): it polls a directory of recordings, waits    *)
(* until a file's size has been still for stableMs, uploads and publishes  *)
(* it as a run of its own with a comment of its own, and keeps the paths   *)
(* it is done with in one state file below the user's home directory.      *)
(*                                                                         *)
(* Time is counted in polls (pollMs).  What the code computes as           *)
(* "now - time" is kept here as an age that stops growing at Stable, the   *)
(* window stableMs: no test tells older ages apart.  What a watcher does   *)
(* between two awaits takes no time, but the recorder, a process of its    *)
(* own, may write between any two steps.                                   *)
(***************************************************************************)
EXTENDS Naturals, FiniteSets

CONSTANTS
  Paths,        \* the recordings, numbered in the order of their names
  Watchers,     \* watcher processes of one user
  WatcherOf,    \* the watcher of the directory a recording is in
  Barred,       \* recordings the gateway will not take, for name, type or size
  Refusable,    \* recordings with content it may quarantine
  Stable,       \* stableMs, in polls
  MaxSize,      \* bound on the size of a recording
  MaxFailures,  \* bound on retryable failures
  MaxCrashes,   \* bound on crashes; stopping a sleeping watcher is no crash
  None

ASSUME WatchAssumption ==
  /\ Paths \subseteq Nat
  /\ WatcherOf \in [Paths -> Watchers]
  /\ Barred \subseteq Paths /\ Refusable \subseteq Paths
  /\ Stable \in Nat
  /\ MaxSize \in Nat /\ MaxFailures \in Nat /\ MaxCrashes \in Nat
  /\ None \notin Paths

VARIABLES
  size,       \* of each recording on disk, 0 while it is empty or absent
  touched,    \* age of its last write: what statFile tells of mtimeMs
  pc,         \* where each watcher is
  todo,       \* what is left of the list of this tick
  current,    \* the recording being uploaded
  listed,     \* size and age of a recording when this tick listed it
  settling,   \* the size a watcher has seen, and how old it was
  done, failed,   \* each watcher's memory of what it is done with and of what failed
  saved,      \* the state file, which all watchers of a user share
  torn,       \* what the recorder did to a file since its upload began to read it
  comments,   \* comments created for a recording on the pull request
  published,  \* runs published for it
  refused,    \* recordings the gateway has quarantined a run of
  failures, crashes

disk   == <<size, touched>>
memory == <<pc, todo, current, listed, settling, done, failed>>
effects == <<torn, comments, published, refused>>
faults == <<failures, crashes>>
vars   == <<disk, memory, saved, effects, faults>>

Ages  == 0..Stable
Sizes == 0..MaxSize
Stats == [size : Sizes, age : Ages]
NoStat == [size |-> 0, age |-> 0]
EmptyState == [done |-> {}, failed |-> {}]

Own(w) == {p \in Paths : WatcherOf[p] = w}

Awaits == {"uploading", "ready", "commented", "committed"}

Older(age) == IF age < Stable THEN age + 1 ELSE Stable
OlderStat(stat) == [stat EXCEPT !.age = Older(@)]

Init ==
  /\ size = [p \in Paths |-> 0]
  /\ touched = [p \in Paths |-> 0]
  /\ pc = [w \in Watchers |-> "down"]
  /\ todo = [w \in Watchers |-> {}]
  /\ current = [w \in Watchers |-> None]
  /\ listed = [p \in Paths |-> NoStat]
  /\ settling = [p \in Paths |-> None]
  /\ done = [w \in Watchers |-> {}]
  /\ failed = [w \in Watchers |-> {}]
  /\ saved = EmptyState
  /\ torn = [p \in Paths |-> {}]
  /\ comments = [p \in Paths |-> 0]
  /\ published = [p \in Paths |-> 0]
  /\ refused = {}
  /\ failures = 0 /\ crashes = 0
-----------------------------------------------------------------------------
(* The recorder appends to a file, or writes within it (a muxer patching   *)
(* the header it wrote first).  While the file is read for an upload this  *)
(* may leave the gateway with bytes that do not fit what was declared.     *)
Write(p, n) ==
  /\ n > 0 /\ n >= size[p]
  /\ size' = [size EXCEPT ![p] = n]
  /\ touched' = [touched EXCEPT ![p] = 0]
  /\ torn' = IF \E w \in Watchers : pc[w] = "uploading" /\ current[w] = p
             THEN [torn EXCEPT ![p] = @ \cup {IF n = size[p] THEN "rewritten" ELSE "grown"}]
             ELSE torn
  /\ UNCHANGED <<memory, saved, comments, published, refused, faults>>

(* A poll interval passes: everything is older, sleepers wake.  No watcher *)
(* is in the middle of the code between two awaits.                        *)
Tick ==
  /\ \A w \in Watchers : pc[w] \in Awaits \cup {"sleep", "down"}
  /\ touched' = [p \in Paths |-> Older(touched[p])]
  /\ listed' = [p \in Paths |-> IF p \in todo[WatcherOf[p]]
                                THEN OlderStat(listed[p]) ELSE listed[p]]
  /\ settling' = [p \in Paths |-> IF settling[p] = None THEN None
                                  ELSE OlderStat(settling[p])]
  /\ pc' = [w \in Watchers |-> IF pc[w] = "sleep" THEN "awake" ELSE pc[w]]
  /\ UNCHANGED <<size, todo, current, done, failed, saved, effects, faults>>
-----------------------------------------------------------------------------
(* What a starting watcher takes from the state file, or could have.       *)
LoadedNothing == EmptyState
LoadedState == saved

Start(w) ==
  /\ pc[w] = "down"
  /\ pc' = [pc EXCEPT ![w] = "awake"]
  /\ done' = [done EXCEPT ![w] = LoadedState.done]
  /\ failed' = [failed EXCEPT ![w] = LoadedState.failed]
  /\ UNCHANGED <<disk, todo, current, listed, settling, saved, effects, faults>>

(* candidateFiles: the whole directory is listed and measured at once; the *)
(* uploads of this tick work from the list.                                *)
List(w) ==
  /\ pc[w] = "awake"
  /\ pc' = [pc EXCEPT ![w] = "next"]
  /\ todo' = [todo EXCEPT ![w] = Own(w)]
  /\ listed' = [p \in Paths |-> IF WatcherOf[p] = w
                                THEN [size |-> size[p], age |-> touched[p]]
                                ELSE listed[p]]
  /\ UNCHANGED <<disk, current, settling, done, failed, saved, effects, faults>>

IsNext(w, p) ==
  /\ pc[w] = "next"
  /\ p \in todo[w]
  /\ \A q \in todo[w] : p <= q

IsDone(w, p) == p \in done[w]

(* How long a size has stood, by the rule of the code: from the file's own *)
(* last write at the tick that first saw this size; and by one that counts *)
(* from the sighting itself.                                               *)
AnchorNow(p) ==
  IF settling[p] = None \/ settling[p].size # listed[p].size
  THEN [listed[p] EXCEPT !.age = 0] ELSE settling[p]

Anchor(p) ==
  IF settling[p] = None \/ settling[p].size # listed[p].size
  THEN listed[p] ELSE settling[p]

Settled(p) == Anchor(p).age >= Stable /\ listed[p].size > 0

Skip(w, p) ==
  /\ IsNext(w, p)
  /\ IsDone(w, p) \/ ~Settled(p)
  /\ settling' = [settling EXCEPT ![p] = IF IsDone(w, p) THEN @ ELSE Anchor(p)]
  /\ todo' = [todo EXCEPT ![w] = @ \ {p}]
  /\ listed' = [listed EXCEPT ![p] = NoStat]
  /\ UNCHANGED <<disk, pc, current, done, failed, saved, effects, faults>>

(* The list may be old by now: after a long upload a file that has grown   *)
(* since is judged, and uploaded, by the size it had.                      *)
StartUpload(w, p) ==
  /\ IsNext(w, p)
  /\ ~IsDone(w, p) /\ Settled(p)
  /\ pc' = [pc EXCEPT ![w] = "uploading"]
  /\ current' = [current EXCEPT ![w] = p]
  /\ settling' = [settling EXCEPT ![p] = Anchor(p)]
  /\ todo' = [todo EXCEPT ![w] = @ \ {p}]
  /\ listed' = [listed EXCEPT ![p] = NoStat]
  /\ UNCHANGED <<disk, done, failed, saved, effects, faults>>

EndTick(w) ==
  /\ pc[w] = "next" /\ todo[w] = {}
  /\ pc' = [pc EXCEPT ![w] = "sleep"]
  /\ UNCHANGED <<disk, todo, current, listed, settling, done, failed, saved, effects, faults>>
-----------------------------------------------------------------------------
(* The upload a watcher awaits: createRun, uploadOneFile, publishRun.      *)

(* The gateway has the file and its verdict is ready: content it accepts,  *)
(* read before the recorder changed anything of it.                        *)
FileReady(w) ==
  /\ pc[w] = "uploading"
  /\ current[w] \notin Barred
  /\ pc' = [pc EXCEPT ![w] = "ready"]
  /\ torn' = [torn EXCEPT ![current[w]] = {}]
  /\ UNCHANGED <<disk, todo, current, listed, settling, done, failed, saved,
                 comments, published, refused, faults>>

(* The comment of the run is posted before the run is made public; each    *)
(* attempt has a run, and so a comment, of its own.                        *)
PostComment(w) ==
  /\ pc[w] = "ready"
  /\ pc' = [pc EXCEPT ![w] = "commented"]
  /\ comments' = [comments EXCEPT ![current[w]] = @ + 1]
  /\ UNCHANGED <<disk, todo, current, listed, settling, done, failed, saved,
                 torn, published, refused, faults>>

Commit(w) ==
  /\ pc[w] = "commented"
  /\ pc' = [pc EXCEPT ![w] = "committed"]
  /\ published' = [published EXCEPT ![current[w]] = @ + 1]
  /\ UNCHANGED <<disk, todo, current, listed, settling, done, failed, saved,
                 torn, comments, refused, faults>>
-----------------------------------------------------------------------------
(* What the watcher makes of the answer, saving its state each time.  The  *)
(* state file is written whole, from this watcher's memory.                *)
Remember(w, doneNow, failedNow) ==
  /\ done' = [done EXCEPT ![w] = doneNow]
  /\ failed' = [failed EXCEPT ![w] = failedNow]
  /\ saved' = [done |-> doneNow, failed |-> failedNow]
  /\ pc' = [pc EXCEPT ![w] = "next"]
  /\ current' = [current EXCEPT ![w] = None]
  /\ torn' = [torn EXCEPT ![current[w]] = {}]
  /\ UNCHANGED <<disk, todo, listed>>

Succeeds(w) ==
  /\ pc[w] = "committed"
  /\ Remember(w, done[w] \cup {current[w]}, failed[w] \ {current[w]})
  /\ UNCHANGED <<settling, comments, published, refused, faults>>

(* A failure that may pass: the file is tried again on a later tick.       *)
TriedOnce(w) ==
  /\ Remember(w, done[w] \cup {current[w]}, failed[w] \cup {current[w]})
  /\ settling' = [settling EXCEPT ![current[w]] = None]

TryLater(w) ==
  /\ Remember(w, done[w], failed[w] \cup {current[w]})
  /\ settling' = [settling EXCEPT ![current[w]] = None]

(* The gateway, MinIO or GitHub fails or does not answer, at any point of  *)
(* the upload and also after what was asked of it has been done.           *)
Fails(w) ==
  /\ pc[w] \in Awaits
  /\ failures < MaxFailures
  /\ failures' = failures + 1
  /\ TryLater(w)
  /\ UNCHANGED <<comments, published, refused, crashes>>

(* init refuses the file, whenever it is asked: upload_rejected.  To the   *)
(* watcher this is a failure like any other.                               *)
Rejected(w) ==
  /\ pc[w] = "uploading"
  /\ current[w] \in Barred
  /\ TryLater(w)
  /\ UNCHANGED <<comments, published, refused, faults>>

(* The file grew after its size was declared: what was sent does not add   *)
(* up, and complete answers upload_incomplete.                             *)
TornUpload(w) ==
  /\ pc[w] = "uploading"
  /\ current[w] \notin Barred /\ "grown" \in torn[current[w]]
  /\ TryLater(w)
  /\ UNCHANGED <<comments, published, refused, faults>>

(* The gateway quarantines the run: content it refuses, or bytes written   *)
(* after the digest was taken.  The file is never tried again.             *)
Quarantined(w) ==
  /\ pc[w] = "uploading"
  /\ current[w] \notin Barred
  /\ current[w] \in Refusable \/ "rewritten" \in torn[current[w]]
  /\ refused' = refused \cup {current[w]}
  /\ settling' = [settling EXCEPT ![current[w]] = None]
  /\ Remember(w, done[w] \cup {current[w]}, failed[w] \cup {current[w]})
  /\ UNCHANGED <<comments, published, faults>>
-----------------------------------------------------------------------------
(* The end of a watcher: its memory is gone.                               *)
Forget(w) ==
  /\ pc' = [pc EXCEPT ![w] = "down"]
  /\ todo' = [todo EXCEPT ![w] = {}]
  /\ current' = [current EXCEPT ![w] = None]
  /\ listed' = [p \in Paths |-> IF WatcherOf[p] = w THEN NoStat ELSE listed[p]]
  /\ settling' = [p \in Paths |-> IF WatcherOf[p] = w THEN None ELSE settling[p]]
  /\ done' = [done EXCEPT ![w] = {}]
  /\ failed' = [failed EXCEPT ![w] = {}]
  /\ torn' = [p \in Paths |-> IF WatcherOf[p] = w THEN {} ELSE torn[p]]
  /\ UNCHANGED <<disk, comments, published, refused>>

(* Ctrl-C while it sleeps, and the end of a sweep with --once.             *)
Stop(w) ==
  /\ pc[w] = "sleep"
  /\ Forget(w)
  /\ UNCHANGED <<saved, faults>>

Crash(w) ==
  /\ pc[w] # "down"
  /\ crashes < MaxCrashes
  /\ crashes' = crashes + 1
  /\ Forget(w)
  /\ UNCHANGED <<saved, failures>>

(* The state file is truncated before it is written; what loadState cannot *)
(* parse it takes for an empty state.                                      *)
CrashInSave(w) ==
  /\ pc[w] \in Awaits
  /\ crashes < MaxCrashes
  /\ crashes' = crashes + 1
  /\ saved' = EmptyState
  /\ Forget(w)
  /\ UNCHANGED failures

Proceed(w) ==
  \/ Start(w) \/ List(w) \/ EndTick(w)
  \/ \E p \in Paths : Skip(w, p) \/ StartUpload(w, p)
  \/ FileReady(w) \/ PostComment(w) \/ Commit(w)
  \/ Succeeds(w) \/ Rejected(w) \/ TornUpload(w) \/ Quarantined(w)

Next ==
  \/ Tick
  \/ \E p \in Paths, n \in Sizes : Write(p, n)
  \/ \E w \in Watchers : Proceed(w) \/ Fails(w) \/ Stop(w) \/ Crash(w) \/ CrashInSave(w)

Spec == Init /\ [][Next]_vars

(* The event loop turns, somebody starts the watcher again, requests are   *)
(* answered (a request that is not fails by its timeout), and time passes. *)
FairSpec == Spec /\ WF_vars(Tick) /\ \A w \in Watchers : WF_vars(Proceed(w))
-----------------------------------------------------------------------------
Positioned(w) ==
  IF pc[w] \in Awaits THEN current[w] \in Own(w) \ (todo[w] \cup done[w])
                      ELSE current[w] = None

(* Types, and what each position of a watcher implies: it uploads one of   *)
(* its own recordings, which is not on its list any more and which it was  *)
(* not done with.                                                          *)
TypeOK ==
  /\ size \in [Paths -> Sizes]
  /\ touched \in [Paths -> Ages]
  /\ pc \in [Watchers -> Awaits \cup {"down", "awake", "next", "sleep"}]
  /\ todo \in [Watchers -> SUBSET Paths]
  /\ current \in [Watchers -> Paths \cup {None}]
  /\ listed \in [Paths -> Stats]
  /\ settling \in [Paths -> Stats \cup {None}]
  /\ done \in [Watchers -> SUBSET Paths]
  /\ failed \in [Watchers -> SUBSET Paths]
  /\ saved \in [done : SUBSET Paths, failed : SUBSET Paths]
  /\ torn \in [Paths -> SUBSET {"grown", "rewritten"}]
  /\ comments \in [Paths -> Nat] /\ published \in [Paths -> Nat]
  /\ refused \subseteq Paths
  /\ failures \in 0..MaxFailures /\ crashes \in 0..MaxCrashes
  /\ \A w \in Watchers : todo[w] \subseteq Own(w) /\ Positioned(w)

(* A recording gets one comment, and one more at most for each failure or  *)
(* crash there has been (watch.ts:33, 107-121), however often the watcher  *)
(* is stopped and started; and it is published under its own comment only. *)
FaultsExplainDuplicates ==
  \A p \in Paths : /\ comments[p] <= 1 + failures + crashes
                   /\ published[p] <= comments[p]

(* What the state file counts as done was published or refused: a failure  *)
(* that may pass never takes a recording off the list (watch.ts:114-118).  *)
NothingLost == \A p \in saved.done : published[p] > 0 \/ p \in refused

(* A recording nobody writes any more and init would take is published or  *)
(* refused and stays on the done list for good, even if the watcher only   *)
(* ever makes single sweeps (watch.ts:95-99) and tries another, which the  *)
(* gateway will never take, in every one of them.                          *)
FinishedIsSettledForGood ==
  \A p \in Paths \ Barred :
    <>[](size[p] > 0 /\ touched[p] = Stable) => <>[](p \in saved.done)
=============================================================================
