------------------------- MODULE EvidenceRetention -------------------------
(***************************************************************************)
(* The evidence gateway together with the retention job (retention.ts, run *)
(* by maintenance.ts): a process of its own that opens the same database   *)
(* and bucket once a day.  It takes the list of expired drafts once and    *)
(* then deletes objects and rows run by run, an await at every object,     *)
(* while the gateway goes on answering requests.                           *)
(***************************************************************************)
EXTENDS EvidenceGateway

CONSTANT MaxFailures   \* how often the job may fail or be killed

ASSUME MaxFailuresAssumption == MaxFailures \in Nat

VARIABLES
  old,        \* runs created before the draft cutoff
  oldVideos,  \* files completed before the cutoff for original videos
  sweep,      \* the job: where it is and what it has left to do
  failures    \* how often it has failed

jobVars == <<old, oldVideos, sweep, failures>>
allVars == <<vars, jobVars>>

(* The objects keysOf names of what the gateway may have written: a        *)
(* thumbnail is never written, the entries of a report are not named.      *)
SweptVariants == {"original", "public", "poster"}

NoSweep == [pc |-> "idle", todo |-> {}, run |-> None, keys |-> {}, videos |-> {}]

Sweeps ==
  [pc : {"idle", "runs", "keys", "videos"},
   todo : SUBSET Runs,
   run : Runs \cup {None},
   keys : SUBSET (Files \X SweptVariants),
   videos : SUBSET Files]

RetentionInit ==
  /\ Init
  /\ old = {} /\ oldVideos = {}
  /\ sweep = NoSweep
  /\ failures = 0
-----------------------------------------------------------------------------
(* Time passes for a run, and for a completed file.                        *)
RunAges(r) ==
  /\ HasRunRow(r) /\ r \notin old
  /\ old' = old \cup {r}
  /\ UNCHANGED <<vars, oldVideos, sweep, failures>>

FileAges(f) ==
  /\ completed[f] /\ f \notin oldVideos
  /\ oldVideos' = oldVideos \cup {f}
  /\ UNCHANGED <<vars, old, sweep, failures>>
-----------------------------------------------------------------------------
(* The rows expiredDrafts selects, and queries it could have been.         *)
ExpiredAtAnyAge(r) == IsOpen(r)
ExpiredInDraft(r) == runState[r] = "draft" /\ r \in old
ExpiredUnlessPublished(r) == HasRunRow(r) /\ runState[r] # "published" /\ r \in old

Expired(r) == IsOpen(r) /\ r \in old

StartSweep ==
  /\ sweep.pc = "idle"
  /\ sweep' = [NoSweep EXCEPT !.pc = "runs", !.todo = {r \in Runs : Expired(r)}]
  /\ UNCHANGED <<vars, old, oldVideos, failures>>

(* listFiles of the next run; its state is not looked at again.            *)
PickRun(r) ==
  /\ sweep.pc = "runs"
  /\ r \in sweep.todo
  /\ sweep' = [sweep EXCEPT !.pc = "keys", !.run = r, !.todo = @ \ {r},
                            !.keys = FilesOf(r) \X SweptVariants]
  /\ UNCHANGED <<vars, old, oldVideos, failures>>

DeleteKey(f, v) ==
  /\ sweep.pc = "keys"
  /\ <<f, v>> \in sweep.keys
  /\ object' = [object EXCEPT ![f][v] = "absent"]
  /\ sweep' = [sweep EXCEPT !.keys = @ \ {<<f, v>>}]
  /\ UNCHANGED <<rows, upload, stored, req, old, oldVideos, failures>>

(* deleteRun: one transaction, in whatever state the run is by now.        *)
DeleteRun ==
  LET r == sweep.run IN
  /\ sweep.pc = "keys"
  /\ sweep.keys = {}
  /\ runState' = [runState EXCEPT ![r] = "deleted"]
  /\ publicId' = [publicId EXCEPT ![r] = None]
  /\ commentUrl' = [commentUrl EXCEPT ![r] = None]
  /\ findings' = {x \in findings : x[1] # r}
  /\ fileState' = [f \in Files |-> IF RunOf[f] = r THEN "none" ELSE fileState[f]]
  /\ uploadId' = [f \in Files |-> RunOf[f] # r /\ uploadId[f]]
  /\ completed' = [f \in Files |-> RunOf[f] # r /\ completed[f]]
  /\ recorded' = [f \in Files |-> IF RunOf[f] = r THEN NoParts ELSE recorded[f]]
  /\ sweep' = [sweep EXCEPT !.pc = "runs", !.run = None]
  /\ UNCHANGED <<minio, req, old, oldVideos, failures>>

(* normalisedVideosCompletedBefore, once the drafts are done; what is      *)
(* served of these files is not their original.                            *)
Prunable(f) ==
  /\ fileState[f] = "ready" /\ completed[f] /\ f \in oldVideos
  /\ KindOf[f] = "video"

StartPruning ==
  /\ sweep.pc = "runs" /\ sweep.todo = {}
  /\ sweep' = [sweep EXCEPT !.pc = "videos",
                            !.videos = {f \in Files : Prunable(f)}]
  /\ UNCHANGED <<vars, old, oldVideos, failures>>

PruneVideo(f) ==
  /\ sweep.pc = "videos"
  /\ f \in sweep.videos
  /\ sweep' = [sweep EXCEPT !.videos = @ \ {f}]
  /\ object' = [object EXCEPT ![f]["original"] = "absent"]
  /\ UNCHANGED <<rows, upload, stored, req, old, oldVideos, failures>>

SweepEnds ==
  /\ sweep.pc = "videos" /\ sweep.videos = {}
  /\ sweep' = NoSweep
  /\ UNCHANGED <<vars, old, oldVideos, failures>>

(* A delete that fails for another reason than a missing object ends the   *)
(* job, and so does the end of its process.                                *)
SweepFails ==
  /\ sweep.pc # "idle"
  /\ failures < MaxFailures
  /\ failures' = failures + 1
  /\ sweep' = NoSweep
  /\ UNCHANGED <<vars, old, oldVideos>>

SweepStep ==
  \/ StartSweep \/ StartPruning \/ DeleteRun \/ SweepEnds
  \/ \E r \in Runs : PickRun(r)
  \/ \E f \in Files, v \in SweptVariants : DeleteKey(f, v)
  \/ \E f \in Files : PruneVideo(f)

RetentionNext ==
  \/ Next /\ UNCHANGED jobVars
  \/ \E r \in Runs : RunAges(r)
  \/ \E f \in Files : FileAges(f)
  \/ SweepStep
  \/ SweepFails

RetentionSpec == RetentionInit /\ [][RetentionNext]_allVars

(* The job is started every day and, once started, goes on.                *)
FairRetentionSpec == RetentionSpec /\ WF_allVars(SweepStep)
-----------------------------------------------------------------------------
(* The gateway's types, and those of the job's list and position.          *)
RetentionTypeOK ==
  /\ TypeOK
  /\ old \subseteq Runs /\ oldVideos \subseteq Files
  /\ sweep \in Sweeps
  /\ failures \in 0..MaxFailures

(* Whatever the job does, and wherever it is stopped, a ready file of a    *)
(* run younger than the window keeps every object its readers are sent;    *)
(* pruning takes only originals that are not served (retention.ts).        *)
YoungRunsAreReadable ==
  \A f \in Files : fileState[f] = "ready" /\ RunOf[f] \notin old =>
    \A v \in Served(KindOf[f]) : object[f][v] = "declared"

InHand == sweep.todo \cup {sweep.run}

(* A run that was published, quarantined or archived before the job listed *)
(* the expired drafts is out of its reach for good: it never gets on the   *)
(* list, keeps its rows, and every file keeps what its readers are sent.   *)
SettledRunsAreSpared ==
  [][\A r \in Runs : HasRunRow(r) /\ ~IsOpen(r) /\ r \notin InHand =>
       /\ HasRunRow(r)' /\ ~IsOpen(r)' /\ r \notin InHand'
       /\ \A f \in FilesOf(r) :
            /\ HasRow(f)'
            /\ \A v \in Served(KindOf[f]) :
                 fileState[f] = "ready" => object'[f][v] = object[f][v]]_allVars

(* A handler that was waiting while its run was deleted writes no row back *)
(* (the foreign keys of store.ts, which it relies on without a check).     *)
DeletedRunHasNoRows ==
  \A r \in Runs : runState[r] = "deleted" =>
    /\ FilesOf(r) = {}
    /\ \A x \in findings : x[1] # r
    /\ \A f \in Files : RunOf[f] = r => recorded[f] = NoParts

(* An upload that was never finished, for whatever reason, does not stay:  *)
(* a run past the window is closed by somebody or deleted by the job.      *)
OldDraftsLeave ==
  \A r \in Runs : (r \in old /\ IsOpen(r)) ~> ~IsOpen(r)

(* "nothing that was ever published or quarantined is deleted by a         *)
(* schedule" (retention.ts)                                                *)
SchedulesSparePublished ==
  [][\A r \in Runs : runState[r] \in {"published", "quarantined"} =>
       runState'[r] # "deleted"]_allVars

(* In the rows, from which the page of a run is computed, the job is a run *)
(* that ends: nothing it deletes makes the list of a run show part of its  *)
(* files, more files than were exposed, or files of a run that was held or *)
(* withdrawn.  The objects behind the list are not part of this promise: a *)
(* run that is published in mid-sweep loses them before its rows, and      *)
(* keeps its rows without them if the sweep fails (SchedulesSparePublished *)
(* is violated).                                                           *)
PromiseBesideJob == Publication!ExpungingSpec
=============================================================================
