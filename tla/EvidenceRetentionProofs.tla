---------------------- MODULE EvidenceRetentionProofs ----------------------
(* Proofs about the gateway together with the retention job.               *)
EXTENDS EvidenceRetention, EvidenceProofs

(* A step of the job alone keeps the types: it deletes rows and objects    *)
(* and works through what it listed.                                       *)
LEMMA SweepTypes ==
  ASSUME RetentionTypeOK, SweepStep \/ SweepFails
  PROVE  RetentionTypeOK'
<1> USE DEF RetentionTypeOK, TypeOK
<1>0. NoSweep \in Sweeps
  BY DEF NoSweep, Sweeps
<1>1. CASE StartSweep
  <2>1. sweep' \in Sweeps
    BY <1>0, <1>1 DEF StartSweep, NoSweep, Sweeps
  <2> QED
    BY <1>1, <2>1 DEF StartSweep, vars, rows, minio
<1>2. CASE StartPruning
  <2>1. sweep' \in Sweeps
    BY <1>2 DEF StartPruning, Sweeps
  <2> QED
    BY <1>2, <2>1 DEF StartPruning, vars, rows, minio
<1>3. CASE SweepEnds \/ SweepFails
  <2>1. failures' \in 0..MaxFailures
    BY <1>3, MaxFailuresAssumption DEF SweepEnds, SweepFails
  <2> QED
    BY <1>0, <1>3, <2>1 DEF SweepEnds, SweepFails, vars, rows, minio
<1>4. ASSUME NEW r \in Runs, PickRun(r) PROVE RetentionTypeOK'
  <2>1. sweep' \in Sweeps
    BY <1>4 DEF PickRun, Sweeps, FilesOf
  <2> QED
    BY <1>4, <2>1 DEF PickRun, vars, rows, minio
<1>5. ASSUME NEW f \in Files, NEW v \in SweptVariants, DeleteKey(f, v)
      PROVE  RetentionTypeOK'
  <2>1. sweep' \in Sweeps
    BY <1>5 DEF DeleteKey, Sweeps
  <2>2. object' \in [Files -> [Variants -> Contents]]
    BY <1>5 DEF DeleteKey, Contents
  <2> QED
    BY <1>5, <2>1, <2>2 DEF DeleteKey, rows
<1>6. ASSUME NEW f \in Files, PruneVideo(f) PROVE RetentionTypeOK'
  <2>1. sweep' \in Sweeps
    BY <1>6 DEF PruneVideo, Sweeps
  <2>2. object' \in [Files -> [Variants -> Contents]]
    BY <1>6 DEF PruneVideo, Contents
  <2> QED
    BY <1>6, <2>1, <2>2 DEF PruneVideo, rows
<1>7. CASE DeleteRun
  <2> DEFINE r == sweep.run
  <2>1. sweep' \in Sweeps
    BY <1>7 DEF DeleteRun, Sweeps
  <2>2. /\ runState' \in [Runs -> RunStates \cup {"none", "deleted"}]
        /\ publicId' \in [Runs -> PublicIds \cup {None}]
        /\ commentUrl' \in [Runs -> Urls \cup {None}]
        /\ findings' \subseteq Runs \X (Files \cup {None})
    BY <1>7 DEF DeleteRun
  <2>3. /\ fileState' \in [Files -> FileStates]
        /\ recorded' \in [Files -> PartMaps]
    BY <1>7 DEF DeleteRun, FileStates, NoParts, PartMaps
  <2>4. uploadId' \in [Files -> BOOLEAN]
    BY <1>7 DEF DeleteRun
  <2>5. completed' \in [Files -> BOOLEAN]
    BY <1>7 DEF DeleteRun
  <2> QED
    BY <1>7, <2>1, <2>2, <2>3, <2>4, <2>5 DEF DeleteRun, minio
<1> QED
  BY <1>1, <1>2, <1>3, <1>4, <1>5, <1>6, <1>7 DEF SweepStep

(* The gateway's types and those of the job's list and position            *)
(* (retention.ts, runRetention).                                           *)
THEOREM RetentionTypesCorrect == RetentionSpec => []RetentionTypeOK
<1>1. RetentionInit => RetentionTypeOK
  <2>1. NoSweep \in Sweeps
    BY DEF NoSweep, Sweeps
  <2> QED
    BY <2>1, InitTypes, MaxFailuresAssumption DEF RetentionInit, RetentionTypeOK
<1>2. RetentionTypeOK /\ [RetentionNext]_allVars => RetentionTypeOK'
  <2> SUFFICES ASSUME RetentionTypeOK, [RetentionNext]_allVars
               PROVE  RetentionTypeOK'
    OBVIOUS
  <2>1. TypeOK
    BY DEF RetentionTypeOK
  <2>2. CASE [Next]_vars /\ UNCHANGED jobVars
    <3>1. TypeOK'
      BY <2>1, <2>2, NextTypes
    <3> QED
      BY <2>2, <3>1 DEF RetentionTypeOK, jobVars
  <2>3. ASSUME UNCHANGED <<vars, sweep, failures>>,
               old' \subseteq Runs /\ oldVideos' \subseteq Files
        PROVE  RetentionTypeOK'
    <3>1. TypeOK'
      BY <2>1, <2>3, NextTypes
    <3> QED
      BY <2>3, <3>1 DEF RetentionTypeOK
  <2>4. ASSUME NEW r \in Runs, RunAges(r) PROVE RetentionTypeOK'
    BY <2>3, <2>4 DEF RunAges, RetentionTypeOK
  <2>5. ASSUME NEW f \in Files, FileAges(f) PROVE RetentionTypeOK'
    BY <2>3, <2>5 DEF FileAges, RetentionTypeOK
  <2> QED
    BY <2>2, <2>4, <2>5, SweepTypes DEF RetentionNext, allVars
<1> QED
  BY <1>1, <1>2, PTL DEF RetentionSpec
-----------------------------------------------------------------------------
(* Rows belong to runs that have a row of their own.                       *)
RowsHaveRuns ==
  /\ \A f \in Files : HasRow(f) => HasRunRow(RunOf[f])
  /\ \A f \in Files : recorded[f] # NoParts => HasRow(f)
  /\ \A x \in findings : HasRunRow(x[1])

(* What the gateway may do to rows: none is taken away, and one that is    *)
(* new belongs to a run, or a file, that was there.                        *)
OnlyAddsToRuns ==
  /\ \A r \in Runs : runState[r] \in RunStates => runState'[r] \in RunStates
  /\ \A f \in Files : fileState[f] # "none" => fileState'[f] # "none"
  /\ \A f \in Files : fileState'[f] # "none" =>
       fileState[f] # "none" \/ runState[RunOf[f]] \in RunStates
  /\ \A f \in Files : recorded'[f] # NoParts =>
       recorded[f] # NoParts \/ fileState[f] # "none"
  /\ \A x \in findings' :
       x \in findings \/ (x[1] \in Runs /\ runState[x[1]] \in RunStates)

LEMMA AddingKeepsRuns ==
  ASSUME TypeOK, RowsHaveRuns, OnlyAddsToRuns
  PROVE  RowsHaveRuns'
<1>1. \A f \in Files : RunOf[f] \in Runs
  BY ConstantsAssumption
<1>2. \A x \in findings : x[1] \in Runs
  BY DEF TypeOK
<1> QED
  BY <1>1, <1>2 DEF RowsHaveRuns, OnlyAddsToRuns, HasRow, HasRunRow

(* A run that is moved goes from a state of its own to another.            *)
LEMMA MovesStayRuns ==
  ASSUME TypeOK, NEW r \in Runs, NEW to \in RunStates,
         runState' = [runState EXCEPT ![r] = to]
  PROVE  \A x \in Runs : runState[x] \in RunStates => runState'[x] \in RunStates
BY DEF TypeOK

LEMMA GatewayAddsToRuns ==
  ASSUME TypeOK, Next
  PROVE  OnlyAddsToRuns
<1>0. ASSUME UNCHANGED <<runState, fileState, recorded, findings>>
      PROVE  OnlyAddsToRuns
  BY <1>0 DEF OnlyAddsToRuns
<1>1. CASE Crash
  BY <1>0, <1>1 DEF Crash, rows
<1>2. ASSUME NEW r \in Runs, RunStep(r) PROVE OnlyAddsToRuns
  <2>1. ASSUME NEW p \in PublicIds, PublishRun(r, p),
               UNCHANGED <<fileState, recorded, findings>>
        PROVE  OnlyAddsToRuns
    <3>1. runState' = [runState EXCEPT ![r] = "published"]
      BY <2>1 DEF PublishRun
    <3> QED
      BY <2>1, <3>1, MovesStayRuns DEF OnlyAddsToRuns, RunStates
  <2>2. CASE CreateRun(r)
    <3>1. runState' = [runState EXCEPT ![r] = "draft"]
      BY <2>2 DEF CreateRun
    <3> QED
      BY <2>2, <3>1, MovesStayRuns DEF CreateRun, OnlyAddsToRuns, RunStates
  <2>3. CASE InitRejected(r)
    <3>1. runState[r] \in RunStates
      BY <2>3 DEF InitRejected, IsOpen, RunStates
    <3>2. \A x \in findings' : x \in findings \/ x[1] = r
      BY <2>3 DEF InitRejected
    <3> QED
      BY <2>3, <3>1, <3>2 DEF InitRejected, OnlyAddsToRuns
  <2>4. CASE Archive(r)
    <3>1. runState' = [runState EXCEPT ![r] = "archived"]
      BY <2>4 DEF Archive
    <3> QED
      BY <2>4, <3>1, MovesStayRuns DEF Archive, OnlyAddsToRuns, RunStates
  <2>5. ASSUME NEW p \in PublicIds, Prepare(r, p) PROVE OnlyAddsToRuns
    BY <1>0, <2>5 DEF Prepare
  <2>6. ASSUME NEW p \in PublicIds, CrashMidPublish(r, p) PROVE OnlyAddsToRuns
    BY <2>1, <2>6 DEF CrashMidPublish
  <2>7. ASSUME NEW p \in PublicIds, NEW u \in Urls \cup {None}, Commit(r, p, u)
        PROVE  OnlyAddsToRuns
    BY <2>1, <2>7 DEF Commit
  <2>8. ASSUME NEW u \in Urls, LinkComment(r, u) PROVE OnlyAddsToRuns
    BY <1>0, <2>8 DEF LinkComment
  <2> QED
    BY <1>2, <2>2, <2>3, <2>4, <2>5, <2>6, <2>7, <2>8 DEF RunStep
<1>3. ASSUME NEW q \in Requests, RequestStep(q) PROVE OnlyAddsToRuns
  <2> DEFINE g == req[q].file
  <2>0. ASSUME req[q].pc # "idle" PROVE g \in Files /\ RunOf[g] \in Runs
    BY <2>0, ConstantsAssumption DEF TypeOK
  <2>1. ASSUME NEW f \in Files,
               InitFile(q, f) \/ CompleteStart(q, f) \/ AbortStart(q, f)
        PROVE  OnlyAddsToRuns
    BY <1>0, <2>1 DEF InitFile, CompleteStart, AbortStart, rows
  <2>2. ASSUME NEW f \in Files, NEW n \in PartNumbers, NEW b \in Bodies,
               PutPart(q, f, n, b)
        PROVE  OnlyAddsToRuns
    BY <1>0, <2>2 DEF PutPart, rows
  <2>3. CASE MinioCreate(q) \/ MinioPart(q) \/ MinioComplete(q) \/ MinioAbort(q)
    BY <1>0, <2>3 DEF MinioCreate, MinioPart, MinioComplete, MinioAbort, rows
  <2>4. CASE VerifyPass(q) \/ ScanPass(q) \/ CallFails(q)
    BY <1>0, <2>4 DEF VerifyPass, ScanPass, CallFails, rows
  <2>5. CASE AbortResume(q) \/ CrashMidComplete(q)
    BY <1>0, <2>5 DEF AbortResume, CrashMidComplete
  <2>6. ASSUME NEW v \in Variants, Derive(q, v) PROVE OnlyAddsToRuns
    BY <1>0, <2>6 DEF Derive, rows
  <2>7. CASE InitResume(q)
    <3>1. fileState' = fileState \/
          ( /\ runState[RunOf[g]] \in RunStates
            /\ fileState' = [fileState EXCEPT ![g] = "pending"] )
      BY <2>7 DEF InitResume, HasRunRow
    <3> QED
      BY <2>7, <3>1 DEF InitResume, OnlyAddsToRuns, TypeOK
  <2>8. CASE PartResume(q)
    <3>1. \A f \in Files : recorded'[f] # recorded[f] => fileState[f] # "none"
      BY <2>8 DEF PartResume, HasRow, TypeOK
    <3> QED
      BY <2>8, <3>1 DEF PartResume, OnlyAddsToRuns
  <2>9. CASE CompleteResume(q)
    <3>1. g \in Files /\ RunOf[g] \in Runs
      BY <2>0, <2>9 DEF CompleteResume
    <3>2. runState' = runState
          \/ runState' = [runState EXCEPT ![RunOf[g]] = "processing"]
      BY <2>9 DEF CompleteResume
    <3>3. \A r \in Runs : runState[r] \in RunStates => runState'[r] \in RunStates
      BY <3>1, <3>2 DEF RunStates, TypeOK
    <3> QED
      BY <2>9, <3>3 DEF CompleteResume, OnlyAddsToRuns
  <2>10. CASE Finish(q)
    <3>1. \A f \in Files : fileState'[f] # "none" <=> fileState[f] # "none"
      BY <2>10 DEF Finish, HasRow, TypeOK
    <3> QED
      BY <2>10, <3>1 DEF Finish, OnlyAddsToRuns
  <2>11. ASSUME Refused(q), SetRejected(g), UNCHANGED recorded,
                AddFinding(RunOf[g], g) \/ UNCHANGED findings,
                \/ UNCHANGED runState
                \/ runState' = [runState EXCEPT ![RunOf[g]] =
                     IF CanMove(RunOf[g], "quarantined") THEN "quarantined" ELSE @]
         PROVE  OnlyAddsToRuns
    <3>1. g \in Files /\ RunOf[g] \in Runs
      BY <2>0, <2>11 DEF Refused
    <3>2. \A f \in Files : fileState'[f] # "none" <=> fileState[f] # "none"
      BY <2>11 DEF SetRejected, HasRow, TypeOK
    <3>3. \A r \in Runs : runState[r] \in RunStates => runState'[r] \in RunStates
      BY <2>11, <3>1 DEF RunStates, TypeOK
    <3>4. \A x \in findings' :
            x \in findings \/ (x[1] = RunOf[g] /\ runState[x[1]] \in RunStates)
      BY <2>11 DEF AddFinding, HasRunRow
    <3> QED
      BY <2>11, <3>1, <3>2, <3>3, <3>4 DEF OnlyAddsToRuns
  <2>12. CASE Reject(q)
    BY <2>11, <2>12 DEF Reject
  <2>13. CASE CrashMidReject(q)
    BY <2>11, <2>13 DEF CrashMidReject
  <2> QED
    BY <1>3, <2>1, <2>2, <2>3, <2>4, <2>5, <2>6, <2>7, <2>8, <2>9, <2>10,
       <2>12, <2>13 DEF RequestStep
<1> QED
  BY <1>1, <1>2, <1>3 DEF Next

(* deleteRun takes the rows of its run with it, and of no other.           *)
LEMMA DeletionKeepsRuns ==
  ASSUME TypeOK, RowsHaveRuns, DeleteRun
  PROVE  RowsHaveRuns'
<1> DEFINE r == sweep.run
<1>1. \A x \in Runs \ {r} : runState'[x] = runState[x]
  BY DEF DeleteRun, TypeOK
<1>2. \A f \in Files :
        IF RunOf[f] = r THEN fileState'[f] = "none" /\ recorded'[f] = NoParts
        ELSE fileState'[f] = fileState[f] /\ recorded'[f] = recorded[f]
  BY DEF DeleteRun
<1>3. \A x \in findings' : x \in findings /\ x[1] \in Runs /\ x[1] # r
  BY DEF DeleteRun, TypeOK
<1>4. \A f \in Files : RunOf[f] \in Runs
  BY ConstantsAssumption
<1> QED
  BY <1>1, <1>2, <1>3, <1>4 DEF RowsHaveRuns, HasRow, HasRunRow

(* A deleted run has no rows, although a handler may have been waiting     *)
(* while it was deleted: every insert needs the row of its run             *)
(* (DeletedRunHasNoRows; store.ts, the foreign keys).                      *)
THEOREM DeletedRunsStayEmpty == RetentionSpec => []DeletedRunHasNoRows
<1>1. RetentionInit => RowsHaveRuns
  BY DEF RetentionInit, Init, RowsHaveRuns, HasRow
<1>2. RetentionTypeOK /\ RowsHaveRuns /\ [RetentionNext]_allVars => RowsHaveRuns'
  <2> SUFFICES ASSUME RetentionTypeOK, RowsHaveRuns, [RetentionNext]_allVars
               PROVE  RowsHaveRuns'
    OBVIOUS
  <2>1. TypeOK
    BY DEF RetentionTypeOK
  <2>2. ASSUME UNCHANGED rows PROVE RowsHaveRuns'
    BY <2>2 DEF rows, RowsHaveRuns, HasRow, HasRunRow
  <2>3. CASE Next
    BY <2>1, <2>3, GatewayAddsToRuns, AddingKeepsRuns
  <2>4. CASE SweepStep
    <3>1. CASE DeleteRun
      BY <2>1, <3>1, DeletionKeepsRuns
    <3>2. CASE StartSweep \/ StartPruning \/ SweepEnds
      BY <2>2, <3>2 DEF StartSweep, StartPruning, SweepEnds, vars, rows
    <3>3. ASSUME NEW r \in Runs, PickRun(r) PROVE RowsHaveRuns'
      BY <2>2, <3>3 DEF PickRun, vars, rows
    <3>4. ASSUME NEW f \in Files, NEW v \in SweptVariants, DeleteKey(f, v)
          PROVE  RowsHaveRuns'
      BY <2>2, <3>4 DEF DeleteKey, rows
    <3>5. ASSUME NEW f \in Files, PruneVideo(f) PROVE RowsHaveRuns'
      BY <2>2, <3>5 DEF PruneVideo, rows
    <3> QED
      BY <2>4, <3>1, <3>2, <3>3, <3>4, <3>5 DEF SweepStep
  <2>5. CASE SweepFails
    BY <2>2, <2>5 DEF SweepFails, vars, rows
  <2>6. ASSUME NEW r \in Runs, RunAges(r) PROVE RowsHaveRuns'
    BY <2>2, <2>6 DEF RunAges, vars, rows
  <2>7. ASSUME NEW f \in Files, FileAges(f) PROVE RowsHaveRuns'
    BY <2>2, <2>7 DEF FileAges, vars, rows
  <2>8. CASE UNCHANGED allVars
    BY <2>2, <2>8 DEF allVars, vars, rows
  <2> QED
    BY <2>3, <2>4, <2>5, <2>6, <2>7, <2>8 DEF RetentionNext
<1>3. RetentionTypeOK /\ RowsHaveRuns => DeletedRunHasNoRows
  BY DEF RetentionTypeOK, TypeOK, RowsHaveRuns, DeletedRunHasNoRows, FilesOf,
         HasRow, HasRunRow, RunStates
<1> QED
  BY <1>1, <1>2, <1>3, RetentionTypesCorrect, PTL DEF RetentionSpec
-----------------------------------------------------------------------------
(* What the job has in hand: runs past the window, objects of the one run  *)
(* it is deleting, and ready videos, whose original is not what is served. *)
SweepInv ==
  /\ sweep.todo \subseteq old
  /\ sweep.pc = "keys" => sweep.run \in old
  /\ \A k \in sweep.keys : sweep.pc = "keys" /\ RunOf[k[1]] = sweep.run
  /\ \A f \in sweep.videos :
       sweep.pc = "videos" /\ KindOf[f] = "video" /\ fileState[f] = "ready"

YoungFiles == {f \in Files : RunOf[f] \notin old}

(* The invariant of the two processes: the gateway's, with what it says of *)
(* objects said of the files the job does not yet delete.                  *)
RetentionInv ==
  /\ RetentionTypeOK /\ SweepInv
  /\ RowParts(YoungFiles) /\ FrameParts(YoungFiles)

(* What is said of the objects of some files is said of fewer.             *)
LEMMA FewerFiles ==
  ASSUME NEW Y \in SUBSET Files, YoungFiles' \subseteq Y,
         RowParts(Y)', FrameParts(Y)'
  PROVE  RowParts(YoungFiles)' /\ FrameParts(YoungFiles)'
<1>1. RowParts(YoungFiles)'
  BY DEF RowParts, ServedIn
<1>2. FrameParts(YoungFiles)'
  BY DEF FrameParts, ProcessedIn
<1> QED
  BY <1>1, <1>2

(* The runs of the job's list do not get younger, nor do its videos change.*)
LEMMA GatewayKeepsSweep ==
  ASSUME TypeOK, SweepInv, UNCHANGED <<old, sweep>>,
         \A f \in Files : FileStep(f), sweep \in Sweeps
  PROVE  SweepInv'
<1>1. \A f \in sweep.videos : f \in Files
  BY DEF Sweeps
<1> QED
  BY <1>1 DEF SweepInv, FileStep

(* A step of the gateway, while the job waits.                             *)
LEMMA GatewayKeepsRetentionInv ==
  ASSUME RetentionInv, [Next]_vars, UNCHANGED jobVars
  PROVE  RetentionInv'
<1> USE DEF RetentionInv
<1>1. TypeOK /\ sweep \in Sweeps /\ UNCHANGED <<old, sweep>>
  BY DEF RetentionTypeOK, jobVars
<1>2. PICK Y \in SUBSET Files : Y = YoungFiles
  BY DEF YoungFiles
<1>3. RowParts(Y) /\ FrameParts(Y) /\ YoungFiles' = Y
  BY <1>1, <1>2 DEF YoungFiles
<1>4. RowParts(Y)' /\ FrameParts(Y)'
  BY <1>1, <1>3, GatewayKeepsParts
<1>5. SweepInv'
  BY <1>1, <1>3, FileSteps, GatewayKeepsSweep
<1>6. RetentionTypeOK'
  BY <1>1, NextTypes DEF RetentionTypeOK, jobVars
<1> QED
  BY <1>3, <1>4, <1>5, <1>6, FewerFiles

(* Deleting an object leaves what is said of the files of Y, if it is not  *)
(* of one of them, or is of a ready file and not served.                   *)
LEMMA ObjectsGo ==
  ASSUME TypeOK, NEW Y \in SUBSET Files, RowParts(Y), FrameParts(Y),
         UNCHANGED <<rows, upload, stored, req>>,
         NEW g \in Files, NEW v,
         object' = [object EXCEPT ![g][v] = "absent"],
         g \in Y => fileState[g] = "ready" /\ v \notin Served(KindOf[g])
  PROVE  RowParts(Y)' /\ FrameParts(Y)'
<1>1. UNCHANGED <<runState, fileState, findings, upload, req>>
  BY DEF rows
<1>2. \A f \in Files, w \in Variants :
        f # g \/ w # v => object'[f][w] = object[f][w]
  BY DEF TypeOK
<1>3. RowParts(Y)'
  <2>1. FilesOfRuns' /\ VerdictClosesUpload' /\ NoReadyFileInDraft'
    BY <1>1 DEF RowParts, FilesOfRuns, VerdictClosesUpload,
       NoReadyFileInDraft, HasRow, HasRunRow
  <2>2. PublishedHoldsNoRejected' /\ QuarantineExplained'
    BY <1>1 DEF RowParts, PublishedHoldsNoRejected, QuarantineExplained,
       FilesOf, HasRow
  <2>3. ServedIn(Y)'
    <3>1. \A f \in Files : Served(KindOf[f]) \subseteq Variants
      BY ConstantsAssumption DEF Served, Derived, Kinds, Variants
    <3> QED
      BY <1>1, <1>2, <3>1 DEF RowParts, ServedIn
  <2> QED
    BY <2>1, <2>2, <2>3 DEF RowParts
<1>4. FrameParts(Y)'
  <2>1. FramesMatch' /\ ProcessingHolds' /\ OneProcessor'
    BY <1>1 DEF FrameParts, FramesMatch, ProcessingHolds, OneProcessor,
       Processing, HasRow, Gone
  <2>2. OpenCompletionHoldsRun' /\ DraftSeen'
    BY <1>1 DEF FrameParts, OpenCompletionHoldsRun, DraftSeen
  <2>3. ProcessedIn(Y)'
    <3>1. \A q \in Requests : Processing(q) => fileState[req[q].file] # "ready"
      BY AwaitingFile DEF FrameParts, ProcessingHolds, RowParts, FilesOfRuns,
         HasRow, HasRunRow, RunStates, Gone, Processing
    <3>2. \A f \in Files : Derived(KindOf[f]) \subseteq Variants
      BY ConstantsAssumption, DerivedType
    <3>3. \A q \in Requests :
            req[q].file \in Y /\ req[q].pc \in {"scan", "derive"} =>
              req[q].file \in Files /\ req[q].file # g
      BY <3>1 DEF Processing
    <3> QED
      BY <1>1, <1>2, <3>2, <3>3 DEF FrameParts, ProcessedIn, Variants
  <2> QED
    BY <2>1, <2>2, <2>3 DEF FrameParts
<1> QED
  BY <1>3, <1>4

(* Deleting a run: its files lose their rows, and the handlers that were   *)
(* waiting for something about them may wait on.                           *)
LEMMA DeletionKeepsParts ==
  ASSUME TypeOK, NEW Y \in SUBSET Files, RowParts(Y), FrameParts(Y),
         DeleteRun, sweep.run \in Runs
  PROVE  RowParts(Y)' /\ FrameParts(Y)'
<1> DEFINE r == sweep.run
<1>1. /\ UNCHANGED <<upload, object, req>>
      /\ runState'[r] = "deleted"
      /\ \A s \in Runs : s # r => runState'[s] = runState[s]
      /\ \A f \in Files :
           fileState'[f] = IF RunOf[f] = r THEN "none" ELSE fileState[f]
      /\ \A x \in findings : x[1] # r => x \in findings'
  BY DEF DeleteRun, minio, TypeOK
<1>2. \A f \in Files : RunOf[f] \in Runs
  BY ConstantsAssumption
<1>3. RowParts(Y)'
  <2>1. FilesOfRuns' /\ VerdictClosesUpload' /\ NoReadyFileInDraft'
    BY <1>1, <1>2 DEF RowParts, FilesOfRuns, VerdictClosesUpload,
       NoReadyFileInDraft, HasRow, HasRunRow, Verdicts
  <2>2. PublishedHoldsNoRejected'
    BY <1>1 DEF RowParts, PublishedHoldsNoRejected, FilesOf, HasRow
  <2>3. QuarantineExplained'
    <3>1. ASSUME NEW s \in Runs, runState'[s] = "quarantined"
          PROVE  \E f \in FilesOf(s)' :
                   fileState'[f] = "rejected" /\ <<s, f>> \in findings'
      <4>1. s # r /\ runState[s] = "quarantined"
        BY <1>1, <3>1
      <4>2. PICK f \in FilesOf(s) :
              fileState[f] = "rejected" /\ <<s, f>> \in findings
        BY <4>1 DEF RowParts, QuarantineExplained
      <4>3. f \in FilesOf(s)' /\ fileState'[f] = "rejected"
        BY <1>1, <4>1, <4>2 DEF FilesOf, HasRow
      <4>4. <<s, f>> \in findings'
        BY <1>1, <4>1, <4>2
      <4> QED
        BY <4>3, <4>4
    <3> QED
      BY <3>1 DEF QuarantineExplained
  <2>4. ServedIn(Y)'
    BY <1>1 DEF RowParts, ServedIn
  <2> QED
    BY <2>1, <2>2, <2>3, <2>4 DEF RowParts
<1>4. FrameParts(Y)'
  <2>1. \A q \in Requests : req[q].pc # "idle" =>
          req[q].file \in Files /\ RunOf[req[q].file] \in Runs
    BY AwaitingFile
  <2>2. FramesMatch'
    BY <1>1, <2>1 DEF FrameParts, FramesMatch, HasRow, Gone
  <2>3. ProcessingHolds' /\ OneProcessor'
    BY <1>1, <2>1 DEF FrameParts, ProcessingHolds, OneProcessor, Processing,
       Gone
  <2>4. OpenCompletionHoldsRun' /\ DraftSeen' /\ ProcessedIn(Y)'
    BY <1>1, <2>1 DEF FrameParts, OpenCompletionHoldsRun, DraftSeen,
       ProcessedIn
  <2> QED
    BY <2>2, <2>3, <2>4 DEF FrameParts
<1> QED
  BY <1>3, <1>4

(* The job's list stays what it is said to be.                             *)
LEMMA SweepKeepsSweepInv ==
  ASSUME RetentionTypeOK, SweepInv, SweepStep \/ SweepFails
  PROVE  SweepInv'
<1> USE DEF SweepInv
<1>0. sweep \in Sweeps
  BY DEF RetentionTypeOK
<1>1. CASE StartSweep
  BY <1>1 DEF StartSweep, NoSweep, Expired
<1>2. CASE StartPruning
  BY <1>0, <1>2 DEF StartPruning, Prunable, Sweeps, vars, rows
<1>3. CASE SweepEnds \/ SweepFails
  BY <1>3 DEF SweepEnds, SweepFails, NoSweep
<1>4. ASSUME NEW r \in Runs, PickRun(r) PROVE SweepInv'
  BY <1>0, <1>4 DEF PickRun, FilesOf, Sweeps
<1>5. ASSUME NEW f \in Files, NEW v \in SweptVariants, DeleteKey(f, v)
      PROVE  SweepInv'
  BY <1>0, <1>5 DEF DeleteKey, Sweeps, rows
<1>6. ASSUME NEW f \in Files, PruneVideo(f) PROVE SweepInv'
  BY <1>0, <1>6 DEF PruneVideo, Sweeps, rows
<1>7. CASE DeleteRun
  BY <1>0, <1>7 DEF DeleteRun, Sweeps
<1> QED
  BY <1>1, <1>2, <1>3, <1>4, <1>5, <1>6, <1>7 DEF SweepStep

(* A step of the job alone.                                                *)
LEMMA SweepKeepsParts ==
  ASSUME RetentionInv, SweepStep \/ SweepFails
  PROVE  RowParts(YoungFiles)' /\ FrameParts(YoungFiles)'
<1> USE DEF RetentionInv
<1>1. TypeOK /\ sweep \in Sweeps /\ old \subseteq Runs /\ SweepInv
  BY DEF RetentionTypeOK
<1>2. PICK Y \in SUBSET Files : Y = YoungFiles
  BY DEF YoungFiles
<1>3. RowParts(Y) /\ FrameParts(Y)
  BY <1>2
<1>4. YoungFiles' = Y
  BY <1>2 DEF YoungFiles, SweepStep, SweepFails, StartSweep, StartPruning,
     DeleteRun, SweepEnds, PickRun, DeleteKey, PruneVideo
<1>5. ASSUME UNCHANGED vars PROVE RowParts(Y)' /\ FrameParts(Y)'
  BY <1>1, <1>3, <1>5, CrashAndStutter
<1>6. ASSUME NEW f \in Files, NEW v \in SweptVariants, DeleteKey(f, v)
      PROVE  RowParts(Y)' /\ FrameParts(Y)'
  <2>1. f \notin Y
    BY <1>1, <1>2, <1>6 DEF DeleteKey, SweepInv, YoungFiles
  <2> QED
    BY <1>1, <1>3, <1>6, <2>1, ObjectsGo DEF DeleteKey
<1>7. ASSUME NEW f \in Files, PruneVideo(f)
      PROVE  RowParts(Y)' /\ FrameParts(Y)'
  <2>1. fileState[f] = "ready" /\ "original" \notin Served(KindOf[f])
    BY <1>1, <1>7 DEF PruneVideo, SweepInv, Served, Derived
  <2> QED
    BY <1>1, <1>3, <1>7, <2>1, ObjectsGo DEF PruneVideo
<1>8. CASE DeleteRun
  <2>1. sweep.run \in Runs
    BY <1>1, <1>8 DEF DeleteRun, SweepInv
  <2> QED
    BY <1>1, <1>3, <1>4, <1>8, <2>1, DeletionKeepsParts, FewerFiles
<1>9. ASSUME NEW r \in Runs, PickRun(r) PROVE RowParts(Y)' /\ FrameParts(Y)'
  BY <1>5, <1>9 DEF PickRun
<1>10. CASE StartSweep \/ StartPruning \/ SweepEnds \/ SweepFails
  BY <1>4, <1>5, <1>10, FewerFiles
     DEF StartSweep, StartPruning, SweepEnds, SweepFails
<1> QED
  BY <1>4, <1>6, <1>7, <1>8, <1>9, <1>10, FewerFiles DEF SweepStep

(* Ageing only makes the set of young files smaller.                       *)
LEMMA AgeingKeepsRetentionInv ==
  ASSUME RetentionInv, RetentionTypeOK', UNCHANGED <<vars, sweep>>,
         old \subseteq old'
  PROVE  RetentionInv'
<1> USE DEF RetentionInv
<1>1. TypeOK
  BY DEF RetentionTypeOK
<1>2. PICK Y \in SUBSET Files : Y = YoungFiles
  BY DEF YoungFiles
<1>3. RowParts(Y) /\ FrameParts(Y) /\ YoungFiles' \subseteq Y
  BY <1>2 DEF YoungFiles
<1>4. RowParts(Y)' /\ FrameParts(Y)'
  BY <1>1, <1>3, CrashAndStutter
<1>5. SweepInv'
  BY DEF SweepInv, vars, rows
<1> QED
  BY <1>3, <1>4, <1>5, FewerFiles

(* The invariant that carries the results about the two processes.         *)
THEOREM RetentionInvariantHolds == RetentionSpec => []RetentionInv
<1>1. RetentionInit => RetentionInv
  <2> SUFFICES ASSUME RetentionInit PROVE RetentionInv
    OBVIOUS
  <2>1. NoSweep \in Sweeps
    BY DEF NoSweep, Sweeps
  <2>2. RetentionTypeOK
    BY <2>1, InitTypes, MaxFailuresAssumption DEF RetentionInit, RetentionTypeOK
  <2>3. SweepInv
    BY DEF RetentionInit, SweepInv, NoSweep
  <2>4. PICK Y \in SUBSET Files : Y = YoungFiles
    BY DEF YoungFiles
  <2>5. RowParts(Y) /\ FrameParts(Y)
    BY InitParts DEF RetentionInit
  <2> QED
    BY <2>2, <2>3, <2>4, <2>5 DEF RetentionInv
<1>2. RetentionInv /\ RetentionTypeOK' /\ [RetentionNext]_allVars
        => RetentionInv'
  <2> SUFFICES ASSUME RetentionInv, RetentionTypeOK', [RetentionNext]_allVars
               PROVE  RetentionInv'
    OBVIOUS
  <2>1. CASE [Next]_vars /\ UNCHANGED jobVars
    BY <2>1, GatewayKeepsRetentionInv
  <2>2. CASE SweepStep \/ SweepFails
    BY <2>2, SweepKeepsParts, SweepKeepsSweepInv DEF RetentionInv
  <2>3. ASSUME NEW r \in Runs, RunAges(r) PROVE RetentionInv'
    BY <2>3, AgeingKeepsRetentionInv DEF RunAges
  <2>4. ASSUME NEW f \in Files, FileAges(f) PROVE RetentionInv'
    BY <2>4, AgeingKeepsRetentionInv DEF FileAges
  <2> QED
    BY <2>1, <2>2, <2>3, <2>4 DEF RetentionNext, allVars
<1> QED
  BY <1>1, <1>2, RetentionTypesCorrect, PTL DEF RetentionSpec

(* Whatever the job does and wherever it stops, readers of a run younger   *)
(* than the window are sent the verified objects                           *)
(* (YoungRunsAreReadable; retention.ts).                                   *)
THEOREM YoungRunsStayReadable == RetentionSpec => []YoungRunsAreReadable
<1>1. RetentionInv => YoungRunsAreReadable
  BY DEF RetentionInv, RowParts, ServedIn, YoungFiles, YoungRunsAreReadable
<1> QED
  BY <1>1, RetentionInvariantHolds, PTL

(* The gateway's own invariants, but for the objects of old runs, survive  *)
(* the job, although it takes rows away under handlers that are waiting    *)
(* (store.ts, deleteRun).                                                  *)
THEOREM JobKeepsGatewaySound ==
  RetentionSpec => [](/\ PublishedHoldsNoRejected /\ QuarantineExplained
                      /\ NoReadyFileInDraft /\ OneProcessor)
<1>1. RetentionInv => /\ PublishedHoldsNoRejected /\ QuarantineExplained
                      /\ NoReadyFileInDraft /\ OneProcessor
  BY DEF RetentionInv, RowParts, FrameParts
<1> QED
  BY <1>1, RetentionInvariantHolds, PTL

(* The job takes files away from a run and leaves the handlers alone, so   *)
(* the overshoot of the ceiling stays bounded beside it                    *)
(* (CeilingOvershootBounded; security.ts, preflightUpload).                *)
THEOREM OvershootIsBoundedBesideJob ==
  RetentionSpec => []CeilingOvershootBounded
<1>1. RetentionTypeOK /\ CeilingInv /\ [RetentionNext]_allVars => CeilingInv'
  <2> SUFFICES ASSUME RetentionTypeOK, CeilingInv, [RetentionNext]_allVars
               PROVE  CeilingInv'
    OBVIOUS
  <2>1. CASE [Next]_vars
    BY <2>1, CeilingKept DEF RetentionTypeOK
  <2>2. CASE /\ req' = req
             /\ \A f \in Files : fileState'[f] \in {"none", fileState[f]}
    BY <2>2, NoneAddedByEnd, CountedStep DEF CeilingInv
  <2>3. CASE SweepStep
    BY <2>1, <2>2, <2>3 DEF SweepStep, StartSweep, StartPruning, DeleteRun,
       SweepEnds, PickRun, DeleteKey, PruneVideo, rows
  <2> QED
    BY <2>1, <2>3 DEF RetentionNext, RunAges, FileAges, SweepFails, allVars
<1> QED
  BY <1>1, CeilingInit, CeilingMeaning, RetentionTypesCorrect, PTL
     DEF RetentionSpec, RetentionInit
-----------------------------------------------------------------------------
(* A run that is closed is not opened again, nor does it lose its row.     *)
LEMMA ClosedStaysClosed ==
  ASSUME TypeOK, Next, NEW r \in Runs, HasRunRow(r), ~IsOpen(r)
  PROVE  HasRunRow(r)' /\ ~IsOpen(r)'
<1> DEFINE Closed == {"published", "quarantined", "archived"}
<1>0. runState[r] \in Closed
  BY DEF HasRunRow, IsOpen, RunStates
<1> SUFFICES runState'[r] \in Closed
  BY DEF HasRunRow, IsOpen, RunStates
<1>1. ASSUME NEW s, NEW to \in Closed, runState' = [runState EXCEPT ![s] = to]
      PROVE  runState'[r] \in Closed
  BY <1>0, <1>1 DEF TypeOK
<1>2. ASSUME NEW s \in Runs, runState[s] \in {"none", "draft"},
             NEW to, runState' = [runState EXCEPT ![s] = to]
      PROVE  runState'[r] \in Closed
  BY <1>0, <1>2 DEF TypeOK
<1>3. ASSUME NEW s \in Runs, RunStep(s) PROVE runState'[r] \in Closed
  BY <1>0, <1>1, <1>2, <1>3 DEF RunStep, CreateRun, InitRejected, Archive,
     Prepare, CrashMidPublish, Commit, PublishRun, LinkComment
<1>4. ASSUME NEW q \in Requests, RequestStep(q) PROVE runState'[r] \in Closed
  <2> DEFINE s == RunOf[req[q].file]
  <2>1. CASE CompleteResume(q) /\ runState' # runState
    <3>1. s \in Runs /\ runState[s] = "draft"
          /\ runState' = [runState EXCEPT ![s] = "processing"]
      BY <2>1, AwaitingFile DEF CompleteResume, CanMove, RunTransitions, TypeOK,
         RunStates
    <3> QED
      BY <1>2, <3>1
  <2>2. CASE Reject(q) /\ runState' # runState
    <3>1. runState' = [runState EXCEPT ![s] = "quarantined"]
      BY <2>2 DEF Reject, TypeOK
    <3> QED
      BY <1>1, <3>1
  <2>3. UNCHANGED runState \/ CompleteResume(q) \/ Reject(q)
    BY <1>4 DEF RequestStep, InitFile, CompleteStart, AbortStart, PutPart,
       MinioCreate, InitResume, MinioPart, PartResume, MinioComplete,
       MinioAbort, AbortResume, VerifyPass, ScanPass, Finish, Derive,
       CallFails, CrashMidComplete, CrashMidReject, rows
  <2> QED
    BY <1>0, <2>1, <2>2, <2>3
<1> QED
  BY <1>0, <1>3, <1>4 DEF Next, Crash, rows

(* The gateway writes no object of a file that is ready: its upload is     *)
(* gone, and what is being derived belongs to a file that is pending, or   *)
(* has no row any more.                                                    *)
LEMMA ReadyObjectsStay ==
  ASSUME TypeOK, NEW Y \in SUBSET Files, RowParts(Y), FrameParts(Y), Next,
         NEW f \in Files, fileState[f] = "ready"
  PROVE  object'[f] = object[f]
<1>1. CASE UNCHANGED object
  BY <1>1
<1>2. ASSUME NEW q \in Requests, MinioComplete(q) PROVE object'[f] = object[f]
  <2>1. upload[f] = "gone" /\ upload[req[q].file] = "open"
    BY <1>2 DEF RowParts, VerdictClosesUpload, Verdicts, MinioComplete
  <2> QED
    BY <1>2, <2>1 DEF MinioComplete, TypeOK
<1>3. ASSUME NEW q \in Requests, NEW v \in Variants, Derive(q, v)
      PROVE  object'[f] = object[f]
  <2>1. req[q].file # f
    BY <1>3, AwaitingFile DEF Derive, FrameParts, ProcessingHolds, Processing,
       RowParts, FilesOfRuns, HasRow, HasRunRow, RunStates, Gone
  <2> QED
    BY <1>3, <2>1 DEF Derive, TypeOK
<1>4. ASSUME NEW q \in Requests, RequestStep(q)
      PROVE  \/ UNCHANGED object \/ MinioComplete(q)
             \/ \E v \in Variants : Derive(q, v)
  BY <1>4 DEF RequestStep, InitFile, CompleteStart, AbortStart, PutPart,
     MinioCreate, InitResume, MinioPart, PartResume, CompleteResume,
     MinioAbort, AbortResume, VerifyPass, ScanPass, Finish, Reject,
     CallFails, CrashMidComplete, CrashMidReject, minio
<1>5. ASSUME NEW r \in Runs, RunStep(r) PROVE UNCHANGED object
  BY <1>5 DEF RunStep, CreateRun, InitRejected, Archive, Prepare,
     CrashMidPublish, Commit, LinkComment, minio
<1> QED
  BY <1>1, <1>2, <1>3, <1>4, <1>5 DEF Next, Crash, minio

(* What SettledRunsAreSpared asks of one step and one run.                 *)
Spared(r) ==
  /\ HasRunRow(r)' /\ ~IsOpen(r)' /\ r \notin InHand'
  /\ \A f \in FilesOf(r) :
       /\ HasRow(f)'
       /\ \A v \in Served(KindOf[f]) :
            fileState[f] = "ready" => object'[f][v] = object[f][v]

LEMMA GatewaySpares ==
  ASSUME RetentionInv, Next, UNCHANGED jobVars,
         NEW r \in Runs, HasRunRow(r), ~IsOpen(r), r \notin InHand
  PROVE  Spared(r)
<1>1. TypeOK /\ r \notin InHand'
  BY DEF RetentionInv, RetentionTypeOK, jobVars, InHand
<1>2. HasRunRow(r)' /\ ~IsOpen(r)'
  BY <1>1, ClosedStaysClosed
<1>3. \A f \in FilesOf(r) : f \in Files /\ HasRow(f)'
  BY <1>1, GatewayAddsToRuns DEF OnlyAddsToRuns, FilesOf, HasRow
<1>4. PICK Y \in SUBSET Files : Y = YoungFiles
  BY DEF YoungFiles
<1>5. RowParts(Y) /\ FrameParts(Y)
  BY <1>4 DEF RetentionInv
<1>6. \A f \in Files : fileState[f] = "ready" => object'[f] = object[f]
  BY <1>1, <1>5, ReadyObjectsStay
<1> QED
  BY <1>1, <1>2, <1>3, <1>6 DEF Spared

(* The job touches only what it has in hand, and takes in hand only what   *)
(* is open; of the videos it prunes it takes what is not served.           *)
LEMMA JobSpares ==
  ASSUME RetentionInv, SweepStep \/ SweepFails,
         NEW r \in Runs, HasRunRow(r), ~IsOpen(r), r \notin InHand
  PROVE  Spared(r)
<1> USE DEF RetentionInv
<1>1. TypeOK /\ sweep \in Sweeps /\ SweepInv /\ r # None
  BY NoneAssumption DEF RetentionTypeOK
<1>2. r # sweep.run /\ r \notin sweep.todo
  BY DEF InHand
<1>3. \A f \in FilesOf(r) : f \in Files /\ RunOf[f] = r /\ HasRow(f)
  BY DEF FilesOf
<1>4. ASSUME UNCHANGED <<runState, fileState>>, r \notin InHand',
             \A f \in FilesOf(r) : fileState[f] = "ready" =>
               \A v \in Served(KindOf[f]) : object'[f][v] = object[f][v]
      PROVE  Spared(r)
  BY <1>3, <1>4 DEF Spared, HasRunRow, IsOpen, HasRow
<1>5. CASE StartSweep
  <2>1. r \notin InHand'
    BY <1>1, <1>5 DEF StartSweep, NoSweep, InHand, Expired
  <2> QED
    BY <1>4, <1>5, <2>1 DEF StartSweep, vars, rows, minio
<1>6. CASE StartPruning \/ SweepEnds \/ SweepFails
  <2>1. ASSUME StartPruning PROVE r \notin InHand'
    BY <1>1, <1>2, <2>1 DEF StartPruning, InHand, Sweeps
  <2>2. ASSUME sweep' = NoSweep PROVE r \notin InHand'
    BY <1>1, <2>2 DEF NoSweep, InHand
  <2>3. r \notin InHand'
    BY <1>6, <2>1, <2>2 DEF SweepEnds, SweepFails
  <2> QED
    BY <1>4, <1>6, <2>3 DEF StartPruning, SweepEnds, SweepFails, vars, rows,
       minio
<1>7. ASSUME NEW s \in Runs, PickRun(s) PROVE Spared(r)
  <2>1. r \notin InHand'
    BY <1>1, <1>2, <1>7 DEF PickRun, InHand, Sweeps
  <2> QED
    BY <1>4, <1>7, <2>1 DEF PickRun, vars, rows, minio
<1>8. ASSUME NEW g \in Files, NEW w \in SweptVariants, DeleteKey(g, w)
      PROVE  Spared(r)
  <2>1. r \notin InHand'
    BY <1>1, <1>2, <1>8 DEF DeleteKey, InHand, Sweeps
  <2>2. RunOf[g] = sweep.run
    BY <1>1, <1>8 DEF SweepInv, DeleteKey
  <2>3. \A f \in FilesOf(r) : object'[f] = object[f]
    BY <1>1, <1>2, <1>3, <1>8, <2>2 DEF DeleteKey, TypeOK
  <2> QED
    BY <1>4, <1>8, <2>1, <2>3 DEF DeleteKey, rows
<1>9. ASSUME NEW g \in Files, PruneVideo(g) PROVE Spared(r)
  <2>1. r \notin InHand'
    BY <1>1, <1>2, <1>9 DEF PruneVideo, InHand, Sweeps
  <2>2. "original" \notin Served(KindOf[g])
    BY <1>1, <1>9 DEF SweepInv, PruneVideo, Served, Derived
  <2>3. \A f \in FilesOf(r) :
          \A v \in Served(KindOf[f]) : object'[f][v] = object[f][v]
    BY <1>1, <1>3, <1>9, <2>2 DEF PruneVideo, TypeOK
  <2> QED
    BY <1>4, <1>9, <2>1, <2>3 DEF PruneVideo, rows
<1>10. CASE DeleteRun
  <2>1. r \notin InHand'
    BY <1>1, <1>2, <1>10 DEF DeleteRun, InHand, Sweeps
  <2>2. runState'[r] = runState[r]
    BY <1>1, <1>2, <1>10 DEF DeleteRun, TypeOK
  <2>3. /\ \A f \in FilesOf(r) : fileState'[f] = fileState[f]
        /\ object' = object
    BY <1>2, <1>3, <1>10 DEF DeleteRun, minio
  <2> QED
    BY <1>3, <2>1, <2>2, <2>3 DEF Spared, HasRunRow, IsOpen, HasRow
<1> QED
  BY <1>5, <1>6, <1>7, <1>8, <1>9, <1>10 DEF SweepStep

(* A run that was published, quarantined or archived before the job listed *)
(* the expired drafts stays, with its rows and with what its readers are   *)
(* sent, for good (SettledRunsAreSpared; retention.ts).                    *)
THEOREM SettledRunsStay == RetentionSpec => SettledRunsAreSpared
<1>1. ASSUME RetentionInv, [RetentionNext]_allVars
      PROVE  [\A r \in Runs : HasRunRow(r) /\ ~IsOpen(r) /\ r \notin InHand =>
                Spared(r)]_allVars
  <2> SUFFICES ASSUME RetentionNext, NEW r \in Runs,
                      HasRunRow(r), ~IsOpen(r), r \notin InHand
               PROVE  Spared(r)
    BY <1>1
  <2>1. CASE Next /\ UNCHANGED jobVars
    BY <1>1, <2>1, GatewaySpares
  <2>2. CASE SweepStep \/ SweepFails
    BY <1>1, <2>2, JobSpares
  <2>3. CASE UNCHANGED <<vars, sweep>>
    BY <2>3 DEF Spared, vars, rows, minio, HasRunRow, IsOpen, InHand, FilesOf,
       HasRow
  <2> QED
    BY <2>1, <2>2, <2>3 DEF RetentionNext, RunAges, FileAges
<1> QED
  BY <1>1, RetentionInvariantHolds, PTL
     DEF RetentionSpec, SettledRunsAreSpared, Spared
-----------------------------------------------------------------------------
(* What readers see of the two processes.                                  *)
LEMMA GatewayRefinesBesideJob ==
  ASSUME RetentionInv, [Next]_vars
  PROVE  [Publication!Next]_(Publication!vars)
<1>1. TypeOK
  BY DEF RetentionInv, RetentionTypeOK
<1>2. PICK Y \in SUBSET Files : Y = YoungFiles
  BY DEF YoungFiles
<1>3. RowParts(Y) /\ FrameParts(Y)
  BY <1>2 DEF RetentionInv
<1>4. \A f \in Files : FileStep(f)
  BY <1>1, <1>3, FileSteps
<1>5. CASE Crash \/ UNCHANGED vars
  <2>1. UNCHANGED <<runState, publicId>>
    BY <1>5 DEF Crash, vars, rows
  <2> QED
    BY <1>4, <2>1, ShownStays, Unseen
<1> QED
  BY <1>1, <1>4, <1>5, RequestsRefine, RunsRefine DEF Next

(* Of the steps of the job readers see the deletion of a run.              *)
LEMMA DeletionRefines ==
  ASSUME RetentionInv, DeleteRun
  PROVE  Publication!ExpungingNext
<1>0. TypeOK /\ sweep.run \in Runs
  BY DEF RetentionInv, RetentionTypeOK, SweepInv, DeleteRun
<1>1. PICK r \in Runs : r = sweep.run
  BY <1>0
<1>2. /\ runState'[r] = "deleted"
      /\ \A s \in Runs : s # r => runState'[s] = runState[s]
      /\ \A f \in Files : RunOf[f] # r => fileState'[f] = fileState[f]
  BY <1>0, <1>1 DEF DeleteRun, TypeOK
<1>3. Phase(r)' = "withdrawn" /\ Shown(r)' = {}
  BY <1>2 DEF Phase, Shown
<1>4. ASSUME NEW s \in Runs, s # r
      PROVE  Phase(s)' = Phase(s) /\ Shown(s)' = Shown(s)
  BY <1>2, <1>4 DEF Phase, Shown, FilesOf, HasRow
<1>5. [s \in Runs |-> Phase(s)]' =
        [[s \in Runs |-> Phase(s)] EXCEPT ![r] = "withdrawn"]
  BY <1>3, <1>4
<1>6. [s \in Runs |-> Shown(s)]' = [[s \in Runs |-> Shown(s)] EXCEPT ![r] = {}]
  BY <1>3, <1>4
<1>7. publicId' = [publicId EXCEPT ![r] = None]
  BY <1>1 DEF DeleteRun
<1>8. r \in Runs /\ Publication!Expunge(r)
  BY <1>1, <1>5, <1>6, <1>7 DEF Publication!Expunge
<1> QED
  BY <1>8 DEF Publication!ExpungingNext

(* Beside the job the gateway keeps its promise about what the rows list,    *)
(* but for runs that end: the list of a public run never shrinks to a part   *)
(* of its files, it ends with the run (retention.ts, runRetention).  The     *)
(* objects of a run published in mid-sweep are another matter: see           *)
(* PromiseBesideJob.                                                         *)
THEOREM RetentionKeepsPromise == RetentionSpec => PromiseBesideJob
<1>1. RetentionInit => Publication!Init
  BY PublicationInit DEF RetentionInit
<1>2. ASSUME RetentionInv, [RetentionNext]_allVars
      PROVE  [Publication!ExpungingNext]_(Publication!vars)
  <2>1. CASE [Next]_vars
    BY <1>2, <2>1, GatewayRefinesBesideJob DEF Publication!ExpungingNext
  <2>2. CASE UNCHANGED rows
    <3>1. \A r \in Runs : Phase(r)' = Phase(r) /\ Shown(r)' = Shown(r)
      BY <2>2 DEF rows, Phase, Shown, FilesOf, HasRow
    <3> QED
      BY <2>2, <3>1, Unseen DEF rows
  <2>3. CASE SweepStep
    <3>1. UNCHANGED rows \/ DeleteRun
      BY <2>3 DEF SweepStep, StartSweep, StartPruning, SweepEnds, PickRun,
         DeleteKey, PruneVideo, vars
    <3> QED
      BY <1>2, <2>2, <3>1, DeletionRefines
  <2> QED
    BY <1>2, <2>1, <2>2, <2>3
       DEF RetentionNext, RunAges, FileAges, SweepFails, allVars, vars
<1> QED
  BY <1>1, <1>2, RetentionInvariantHolds, PTL
     DEF RetentionSpec, PromiseBesideJob, Publication!ExpungingSpec
=============================================================================
