--------------------------- MODULE EvidenceGateway ---------------------------
(***************************************************************************)
(* The evidence gateway: the SQLite rows of runs, files, parts and         *)
(* findings (store.ts), the HTTP handlers that change them                 *)
(* (server/router.ts), the processing a completed upload goes through      *)
(* (processing.ts) and the MinIO calls between them (storage.ts).          *)
(*                                                                         *)
(* The gateway is one Node process: what a handler does between two awaits *)
(* is one step, and every await is a point where the other handlers run.   *)
(* req[q] is the frame of a handler that has an await pending: what it     *)
(* read before the await and uses after it.  A crash loses every frame and *)
(* keeps the rows and the objects; it may also fall between two statements *)
(* of a step, SQLite having committed the first and not the second.        *)
(*                                                                         *)
(* A file of the model stands for one file id with the columns that never  *)
(* change: its run, its digest, its kind.  All files have the same size,   *)
(* and all have the parts PartNumbers, so sizes become counts.             *)
(***************************************************************************)
EXTENDS Naturals, FiniteSets

CONSTANTS
  Runs,         \* run ids
  Files,        \* file ids
  Requests,     \* handlers that can have an await pending at one time
  PublicIds,    \* what newPublicId can draw
  Urls,         \* GitHub comment urls
  PartNumbers,  \* the parts a file is uploaded in
  RunOf,        \* RunOf[f]: run_id of file f
  ShaOf,        \* ShaOf[f]: its declared sha256
  KindOf,       \* KindOf[f]: how its content is processed
  RunLimit,     \* the per-run size ceiling, in files
  None

VARIABLES
  runState,   \* evidence_runs.state, "none" where there is no row
  publicId,   \* evidence_runs.public_id
  commentUrl, \* evidence_runs.github_comment_url
  fileState,  \* evidence_files.processing_state, "none" where there is no row
  uploadId,   \* whether evidence_files.upload_id is set
  completed,  \* whether evidence_files.completed_at is set
  recorded,   \* evidence_file_parts: the etag recorded for each part
  findings,   \* evidence_findings: <<run, file>>, <<run, None>> for preflight
  upload,     \* MinIO: the multipart upload of each file
  stored,     \* MinIO: the etag it holds for each part of that upload
  object,     \* MinIO: the content of each object of a file
  req         \* the frames of the handlers awaiting an answer

rows == <<runState, publicId, commentUrl, fileState, uploadId, completed,
          recorded, findings>>
minio == <<upload, stored, object>>
vars == <<rows, minio, req>>
-----------------------------------------------------------------------------
RunStates == {"draft", "processing", "quarantined", "published", "archived"}

RunTransitions ==
  [s \in RunStates \cup {"none", "deleted"} |->
     CASE s = "draft"       -> {"processing", "quarantined", "archived"}
       [] s = "processing"  -> {"draft", "published", "quarantined"}
       [] s = "published"   -> {"archived"}
       [] s = "quarantined" -> {"archived"}
       [] OTHER             -> {}]

FileStates == {"none", "pending", "ready", "rejected"}

Verdicts == {"ready", "rejected"}

Kinds == {"text", "image", "video", "report"}

Variants == {"original", "public", "poster", "report"}

(* The objects processing writes for a file, besides the uploaded one.     *)
Derived(k) ==
  CASE k = "image"  -> {"public"}
    [] k = "video"  -> {"public", "poster"}
    [] k = "report" -> {"report"}
    [] OTHER        -> {}

(* The objects a reader of a ready file can be sent.                       *)
Served(k) == IF k \in {"image", "video"} THEN Derived(k)
                                         ELSE Derived(k) \cup {"original"}

(* A part is known by its etag: that of the declared bytes, or another.    *)
Bodies == {"right", "wrong"}
PartMaps == [PartNumbers -> Bodies \cup {None}]
NoParts == [n \in PartNumbers |-> None]
DeclaredParts == [n \in PartNumbers |-> "right"]
AllParts(m) == \A n \in PartNumbers : m[n] # None
Overlay(m, new) ==
  [n \in PartNumbers |-> IF new[n] = None THEN m[n] ELSE new[n]]

(* Derived from nothing, from the declared bytes, or from other bytes.     *)
Contents == {"absent", "declared", "other"}

Uploads == {"none", "open", "gone"}

ASSUME ConstantsAssumption ==
  /\ RunOf \in [Files -> Runs]
  /\ DOMAIN ShaOf = Files
  /\ KindOf \in [Files -> Kinds]
  /\ RunLimit \in Nat \ {0}
  /\ IsFiniteSet(Files) /\ IsFiniteSet(Requests)
  /\ PartNumbers # {}

ASSUME NoneAssumption ==
  None \notin Runs \cup Files \cup PublicIds \cup Urls \cup Bodies

AwaitPcs == {"init_sent", "init_done", "part_sent", "part_done",
             "complete_sent", "complete_done", "abort_sent", "abort_done",
             "verify", "scan", "derive"}

Frames ==
  [pc : AwaitPcs \cup {"idle"},
   file : Files \cup {None},
   draft : BOOLEAN,          \* complete: the run was a draft when it was read
   parts : PartMaps,         \* the part being put, or those being completed
   bytes : Contents,         \* processing: the original as it was read
   left : SUBSET Variants]   \* processing: the objects still to be derived

Idle == [pc |-> "idle", file |-> None, draft |-> FALSE, parts |-> NoParts,
         bytes |-> "absent", left |-> {}]

At(pc, f) == [Idle EXCEPT !.pc = pc, !.file = f]

Init ==
  /\ runState = [r \in Runs |-> "none"]
  /\ publicId = [r \in Runs |-> None]
  /\ commentUrl = [r \in Runs |-> None]
  /\ fileState = [f \in Files |-> "none"]
  /\ uploadId = [f \in Files |-> FALSE]
  /\ completed = [f \in Files |-> FALSE]
  /\ recorded = [f \in Files |-> NoParts]
  /\ findings = {}
  /\ upload = [f \in Files |-> "none"]
  /\ stored = [f \in Files |-> NoParts]
  /\ object = [f \in Files |-> [v \in Variants |-> "absent"]]
  /\ req = [q \in Requests |-> Idle]
-----------------------------------------------------------------------------
(* Reading the rows.                                                       *)
HasRow(f) == fileState[f] # "none"

FilesOf(r) == {f \in Files : RunOf[f] = r /\ HasRow(f)}

IsOpen(r) == runState[r] \in {"draft", "processing"}

CanMove(r, to) == to \in RunTransitions[runState[r]]

BelowLimitOffByOne(r) == Cardinality(FilesOf(r)) <= RunLimit

BelowLimit(r) == Cardinality(FilesOf(r)) < RunLimit

NewDigest(f) == \A g \in FilesOf(RunOf[f]) : ShaOf[g] # ShaOf[f]

(* An id newFileId has not drawn: no row, no upload, no handler has it.    *)
FreshFile(f) ==
  /\ ~HasRow(f) /\ upload[f] = "none"
  /\ \A q \in Requests : req[q].file # f

(* What a foreign key on runs requires of an insert.                       *)
NoForeignKey(r) == runState[r] # "none"

HasRunRow(r) == runState[r] \in RunStates

FreshPublicId(p) == \A r \in Runs : publicId[r] # p

(* Where frame q goes next; the other handlers keep theirs.                *)
Goto(q, frame) == req' = [req EXCEPT ![q] = frame]
Step(q, pc) == Goto(q, [req[q] EXCEPT !.pc = pc])
-----------------------------------------------------------------------------
(* POST /runs                                                              *)
CreateRun(r) ==
  /\ runState[r] = "none"
  /\ runState' = [runState EXCEPT ![r] = "draft"]
  /\ UNCHANGED <<publicId, commentUrl, fileState, uploadId, completed,
                 recorded, findings, minio, req>>

(* POST /files/init, up to the await: the run is open, the digest is new   *)
(* and preflight passes, which includes the ceiling.                       *)
InitFile(q, f) ==
  /\ req[q].pc = "idle"
  /\ IsOpen(RunOf[f])
  /\ NewDigest(f)
  /\ BelowLimit(RunOf[f])
  /\ FreshFile(f)
  /\ Goto(q, At("init_sent", f))
  /\ UNCHANGED <<rows, minio>>

(* POST /files/init when preflight finds a reason to refuse the upload.    *)
InitRejected(r) ==
  /\ IsOpen(r)
  /\ findings' = findings \cup {<<r, None>>}
  /\ UNCHANGED <<runState, publicId, commentUrl, fileState, uploadId,
                 completed, recorded, minio, req>>

MinioCreate(q) ==
  /\ req[q].pc = "init_sent"
  /\ upload' = [upload EXCEPT ![req[q].file] = "open"]
  /\ Step(q, "init_done")
  /\ UNCHANGED <<rows, stored, object>>

(* createFile after the await: nothing is read again, so only the foreign  *)
(* key and UNIQUE(run_id, sha256) can still refuse the row.                *)
InitResume(q) ==
  LET f == req[q].file IN
  /\ req[q].pc = "init_done"
  /\ Goto(q, Idle)
  /\ IF HasRunRow(RunOf[f]) /\ NewDigest(f)
       THEN /\ fileState' = [fileState EXCEPT ![f] = "pending"]
            /\ uploadId' = [uploadId EXCEPT ![f] = TRUE]
       ELSE UNCHANGED <<fileState, uploadId>>
  /\ UNCHANGED <<runState, publicId, commentUrl, completed, recorded, findings,
                 minio>>
-----------------------------------------------------------------------------
(* PUT /parts/:n.  The state of the run is not looked at.                  *)
PutPart(q, f, n, b) ==
  /\ req[q].pc = "idle"
  /\ HasRow(f) /\ uploadId[f]
  /\ Goto(q, [At("part_sent", f) EXCEPT !.parts = [NoParts EXCEPT ![n] = b]])
  /\ UNCHANGED <<rows, minio>>

MinioPart(q) ==
  LET f == req[q].file IN
  /\ req[q].pc = "part_sent"
  /\ upload[f] = "open"
  /\ stored' = [stored EXCEPT ![f] = Overlay(@, req[q].parts)]
  /\ Step(q, "part_done")
  /\ UNCHANGED <<rows, upload, object>>

PartResume(q) ==
  LET f == req[q].file IN
  /\ req[q].pc = "part_done"
  /\ recorded' = [recorded EXCEPT
                    ![f] = IF HasRow(f) THEN Overlay(@, req[q].parts) ELSE @]
  /\ Goto(q, Idle)
  /\ UNCHANGED <<runState, publicId, commentUrl, fileState, uploadId,
                 completed, findings, minio>>
-----------------------------------------------------------------------------
(* POST /complete: the guards before its first await.                      *)
CompletableInAnyRun(f) == HasRow(f) /\ uploadId[f]

Completable(f) == IsOpen(RunOf[f]) /\ HasRow(f) /\ uploadId[f]

CompleteStart(q, f) ==
  /\ req[q].pc = "idle"
  /\ Completable(f)
  /\ AllParts(recorded[f])
  /\ Goto(q, [At("complete_sent", f) EXCEPT
                !.draft = (runState[RunOf[f]] = "draft"),
                !.parts = recorded[f]])
  /\ UNCHANGED <<rows, minio>>

(* The same request when the recorded parts do not add up.                 *)
AbortStart(q, f) ==
  /\ req[q].pc = "idle"
  /\ Completable(f)
  /\ ~AllParts(recorded[f])
  /\ Goto(q, At("abort_sent", f))
  /\ UNCHANGED <<rows, minio>>

(* MinIO knows the upload and holds exactly the parts the request names.   *)
MinioComplete(q) ==
  LET f == req[q].file IN
  /\ req[q].pc = "complete_sent"
  /\ upload[f] = "open"
  /\ stored[f] = req[q].parts
  /\ upload' = [upload EXCEPT ![f] = "gone"]
  /\ object' = [object EXCEPT ![f]["original"] =
       IF req[q].parts = DeclaredParts THEN "declared" ELSE "other"]
  /\ Step(q, "complete_done")
  /\ UNCHANGED <<rows, stored>>

(* Whether the handler moves the run: the state it read before the await   *)
(* decides, the state at the time of the update is the one checked.        *)
MovesRun(q) == req[q].draft

CompleteResume(q) ==
  LET f == req[q].file
      r == RunOf[f] IN
  /\ req[q].pc = "complete_done"
  /\ uploadId' = [uploadId EXCEPT ![f] = FALSE]
  /\ completed' = [completed EXCEPT ![f] = HasRow(f)]
  /\ \/ /\ MovesRun(q) /\ CanMove(r, "processing") /\ HasRow(f)
        /\ runState' = [runState EXCEPT ![r] = "processing"]
        /\ Step(q, "verify")
     \/ /\ ~MovesRun(q) /\ HasRow(f)
        /\ Step(q, "verify")
        /\ UNCHANGED runState
     \/ /\ ~HasRow(f) \/ (MovesRun(q) /\ ~CanMove(r, "processing"))
        /\ Goto(q, Idle)
        /\ UNCHANGED runState
  /\ UNCHANGED <<publicId, commentUrl, fileState, recorded, findings, minio>>

MinioAbort(q) ==
  /\ req[q].pc = "abort_sent"
  /\ upload' = [upload EXCEPT ![req[q].file] = "gone"]
  /\ Step(q, "abort_done")
  /\ UNCHANGED <<rows, stored, object>>

(* An abort that refuses the file as well, as it was before the await.     *)
AbortResumeRefusing(q) ==
  /\ req[q].pc \in {"abort_sent", "abort_done"}
  /\ uploadId' = [uploadId EXCEPT ![req[q].file] = FALSE]
  /\ fileState' = [fileState EXCEPT
       ![req[q].file] = IF HasRow(req[q].file) THEN "rejected" ELSE @]
  /\ Goto(q, Idle)
  /\ UNCHANGED <<runState, publicId, commentUrl, completed, recorded, findings,
                 minio>>

(* The abort's own error is swallowed, so the id is cleared either way.    *)
AbortResume(q) ==
  /\ req[q].pc \in {"abort_sent", "abort_done"}
  /\ uploadId' = [uploadId EXCEPT ![req[q].file] = FALSE]
  /\ Goto(q, Idle)
  /\ UNCHANGED <<runState, publicId, commentUrl, fileState, completed,
                 recorded, findings, minio>>
-----------------------------------------------------------------------------
(* processFile *)
DigestUnchecked(f) == object[f]["original"] # "absent"

DigestMatches(f) == object[f]["original"] = "declared"

VerifyPass(q) ==
  /\ req[q].pc = "verify"
  /\ DigestMatches(req[q].file)
  /\ Step(q, "scan")
  /\ UNCHANGED <<rows, minio>>

(* The original is read again, scanned, and converted from what was read.  *)
ScanPass(q) ==
  LET f == req[q].file IN
  /\ req[q].pc = "scan"
  /\ object[f]["original"] # "absent"
  /\ Goto(q, [req[q] EXCEPT !.pc = "derive",
                            !.bytes = object[f]["original"],
                            !.left = Derived(KindOf[f])])
  /\ UNCHANGED <<rows, minio>>

(* One put of a derived object; a video's poster follows its copy.         *)
Derive(q, v) ==
  LET f == req[q].file IN
  /\ req[q].pc = "derive"
  /\ v \in req[q].left
  /\ v = "poster" => "public" \notin req[q].left
  /\ object' = [object EXCEPT ![f][v] = req[q].bytes]
  /\ Goto(q, [req[q] EXCEPT !.left = @ \ {v}])
  /\ UNCHANGED <<rows, upload, stored>>

Finish(q) ==
  LET f == req[q].file IN
  /\ req[q].pc = "derive"
  /\ req[q].left = {}
  /\ fileState' = [fileState EXCEPT ![f] = IF HasRow(f) THEN "ready" ELSE @]
  /\ Goto(q, Idle)
  /\ UNCHANGED <<runState, publicId, commentUrl, uploadId, completed,
                 recorded, findings, minio>>

(* What makes processFile call reject: the object is not there or not the  *)
(* declared one, or the scan finds something.                              *)
Refused(q) ==
  \/ req[q].pc = "verify" /\ ~DigestMatches(req[q].file)
  \/ req[q].pc = "scan"

SetRejected(f) ==
  fileState' = [fileState EXCEPT ![f] = IF HasRow(f) THEN "rejected" ELSE @]

AddFinding(r, f) ==
  findings' = IF HasRunRow(r) THEN findings \cup {<<r, f>>}
                                 ELSE findings

(* reject; a run that cannot be moved keeps its state (the transition      *)
(* throws, or is not tried because the run is quarantined or archived).    *)
Reject(q) ==
  LET f == req[q].file
      r == RunOf[f] IN
  /\ Refused(q)
  /\ SetRejected(f)
  /\ AddFinding(r, f)
  /\ runState' = [runState EXCEPT
       ![r] = IF CanMove(r, "quarantined") THEN "quarantined" ELSE @]
  /\ Goto(q, Idle)
  /\ UNCHANGED <<publicId, commentUrl, uploadId, completed, recorded, minio>>
-----------------------------------------------------------------------------
(* POST /publish: what both stages require of the rows.                    *)
PublishableUnlessPending(r) ==
  /\ FilesOf(r) # {}
  /\ runState[r] # "quarantined"
  /\ \A f \in FilesOf(r) : fileState[f] # "pending"

Publishable(r) ==
  /\ FilesOf(r) # {}
  /\ runState[r] # "quarantined"
  /\ \A f \in FilesOf(r) : fileState[f] = "ready"

PublicIdAlwaysNew(r, p) == FreshPublicId(p)

(* p is the id the handler passes on and COALESCE keeps.                   *)
PublicIdFor(r, p) ==
  IF publicId[r] = None THEN FreshPublicId(p) ELSE p = publicId[r]

Prepare(r, p) ==
  /\ Publishable(r)
  /\ PublicIdFor(r, p)
  /\ publicId' = [publicId EXCEPT ![r] = p]
  /\ UNCHANGED <<runState, commentUrl, fileState, uploadId, completed,
                 recorded, findings, minio, req>>

(* The row update of publishRun.                                           *)
PublishRun(r, p) ==
  /\ Publishable(r)
  /\ PublicIdFor(r, p)
  /\ runState[r] = "published" \/ CanMove(r, "published")
  /\ runState' = [runState EXCEPT ![r] = "published"]
  /\ publicId' = [publicId EXCEPT ![r] = p]

Commit(r, p, u) ==
  /\ PublishRun(r, p)
  /\ commentUrl' = [commentUrl EXCEPT ![r] = IF u = None THEN @ ELSE u]
  /\ UNCHANGED <<fileState, uploadId, completed, recorded, findings, minio,
                 req>>

(* PATCH /github-reference: in any state of the run.                       *)
LinkComment(r, u) ==
  /\ HasRunRow(r)
  /\ commentUrl' = [commentUrl EXCEPT ![r] = u]
  /\ UNCHANGED <<runState, publicId, fileState, uploadId, completed, recorded,
                 findings, minio, req>>

Archive(r) ==
  /\ CanMove(r, "archived")
  /\ runState' = [runState EXCEPT ![r] = "archived"]
  /\ UNCHANGED <<publicId, commentUrl, fileState, uploadId, completed,
                 recorded, findings, minio, req>>
-----------------------------------------------------------------------------
(* An object-store call answers with an error, or its answer is lost: the  *)
(* handler answers 500 and keeps nothing.  The abort alone catches it.     *)
CallFails(q) ==
  /\ req[q].pc \in AwaitPcs \ {"abort_sent", "abort_done"}
  /\ Goto(q, Idle)
  /\ UNCHANGED <<rows, minio>>

AllIdle == req' = [q \in Requests |-> Idle]

(* The gateway process stops and is started again.                         *)
Crash ==
  /\ AllIdle
  /\ UNCHANGED <<rows, minio>>

(* It stops inside complete, after clearUploadId or after completeFile.    *)
CrashMidComplete(q) ==
  LET f == req[q].file IN
  /\ req[q].pc = "complete_done"
  /\ uploadId' = [uploadId EXCEPT ![f] = FALSE]
  /\ \E done \in {completed[f], HasRow(f)} :
       completed' = [completed EXCEPT ![f] = done]
  /\ AllIdle
  /\ UNCHANGED <<runState, publicId, commentUrl, fileState, recorded,
                 findings, minio>>

(* A reject that moved the run first and explained itself afterwards.      *)
CrashMidRejectMoved(q) ==
  LET f == req[q].file
      r == RunOf[f] IN
  /\ Refused(q)
  /\ SetRejected(f)
  /\ runState' = [runState EXCEPT
       ![r] = IF CanMove(r, "quarantined") THEN "quarantined" ELSE @]
  /\ AllIdle
  /\ UNCHANGED <<publicId, commentUrl, uploadId, completed, recorded, findings,
                 minio>>

(* It stops inside reject, after the outcome or after the findings.        *)
CrashMidReject(q) ==
  LET f == req[q].file
      r == RunOf[f] IN
  /\ Refused(q)
  /\ SetRejected(f)
  /\ AddFinding(r, f) \/ UNCHANGED findings
  /\ AllIdle
  /\ UNCHANGED <<runState, publicId, commentUrl, uploadId, completed,
                 recorded, minio>>

(* It stops inside publish, between publishRun and setGithubCommentUrl.    *)
CrashMidPublish(r, p) ==
  /\ PublishRun(r, p)
  /\ AllIdle
  /\ UNCHANGED <<commentUrl, fileState, uploadId, completed, recorded,
                 findings, minio>>
-----------------------------------------------------------------------------
RequestStep(q) ==
  \/ \E f \in Files : InitFile(q, f) \/ CompleteStart(q, f) \/ AbortStart(q, f)
  \/ \E f \in Files, n \in PartNumbers, b \in Bodies : PutPart(q, f, n, b)
  \/ MinioCreate(q) \/ InitResume(q)
  \/ MinioPart(q) \/ PartResume(q)
  \/ MinioComplete(q) \/ CompleteResume(q)
  \/ MinioAbort(q) \/ AbortResume(q)
  \/ VerifyPass(q) \/ ScanPass(q) \/ Finish(q) \/ Reject(q)
  \/ \E v \in Variants : Derive(q, v)
  \/ CallFails(q) \/ CrashMidComplete(q) \/ CrashMidReject(q)

RunStep(r) ==
  \/ CreateRun(r) \/ InitRejected(r) \/ Archive(r)
  \/ \E p \in PublicIds : Prepare(r, p) \/ CrashMidPublish(r, p)
  \/ \E p \in PublicIds, u \in Urls \cup {None} : Commit(r, p, u)
  \/ \E u \in Urls : LinkComment(r, u)

Next ==
  \/ \E q \in Requests : RequestStep(q)
  \/ \E r \in Runs : RunStep(r)
  \/ Crash

Spec == Init /\ [][Next]_vars
-----------------------------------------------------------------------------
(* The rows, objects and frames have the values the code gives them; a     *)
(* handler with something pending names a file (store.ts, router.ts).      *)
TypeOK ==
  /\ runState \in [Runs -> RunStates \cup {"none", "deleted"}]
  /\ publicId \in [Runs -> PublicIds \cup {None}]
  /\ commentUrl \in [Runs -> Urls \cup {None}]
  /\ fileState \in [Files -> FileStates]
  /\ uploadId \in [Files -> BOOLEAN]
  /\ completed \in [Files -> BOOLEAN]
  /\ recorded \in [Files -> PartMaps]
  /\ findings \subseteq Runs \X (Files \cup {None})
  /\ upload \in [Files -> Uploads]
  /\ stored \in [Files -> PartMaps]
  /\ object \in [Files -> [Variants -> Contents]]
  /\ req \in [Requests -> Frames]
  /\ \A q \in Requests : req[q].pc # "idle" => req[q].file \in Files

(* A run readers can open holds no file that was refused, although the     *)
(* refusal, the run's move to quarantine and the publication are separate  *)
(* steps of separate handlers, and a crash can leave the move undone       *)
(* (router.ts, publish; processing.ts, reject).                            *)
PublishedHoldsNoRejected ==
  \A r \in Runs : runState[r] = "published" =>
    \A f \in FilesOf(r) : fileState[f] # "rejected"

(* Every object a reader of a ready file can be sent holds the bytes whose *)
(* digest was declared, or what was made from them: no upload, part or     *)
(* completion that comes late replaces them (processing.ts, processFile).  *)
ServedBytesVerified ==
  \A f \in Files : fileState[f] = "ready" =>
    \A v \in Served(KindOf[f]) : object[f][v] = "declared"

(* A quarantined run has a refused file with a finding that says why, even *)
(* when the process stopped inside reject (processing.ts, reject).         *)
QuarantineExplained ==
  \A r \in Runs : runState[r] = "quarantined" =>
    \E f \in FilesOf(r) : fileState[f] = "rejected" /\ <<r, f>> \in findings

(* A file is ready only in a run that has left draft, though complete      *)
(* decides from the state it read before its await; otherwise prepare      *)
(* would hand out an address commit refuses (router.ts, complete).         *)
NoReadyFileInDraft ==
  \A f \in Files : fileState[f] = "ready" => runState[RunOf[f]] # "draft"

Processing(q) ==
  req[q].pc \in {"complete_done", "verify", "scan", "derive"}

(* No two handlers process one file, although two complete requests may    *)
(* both have read its upload id (router.ts, complete).                     *)
OneProcessor ==
  \A p, q \in Requests :
    Processing(p) /\ Processing(q) /\ req[p].file = req[q].file => p = q

(* The ceiling is tested before an await and the row written after it, so  *)
(* a run can pass it, but by less than one file for each concurrent init   *)
(* (router.ts, init; security.ts, preflightUpload).                        *)
CeilingOvershootBounded ==
  \A r \in Runs : Cardinality(FilesOf(r)) < RunLimit + Cardinality(Requests)

(* What was decided about a file is never decided again.                   *)
VerdictIsFinal ==
  [][\A f \in Files : fileState[f] \in Verdicts =>
       fileState'[f] = fileState[f]]_vars

(* "A published, quarantined or archived run must not gain another file."  *)
(* (server/router.ts, complete)                                            *)
ClosedRunGainsNoFile ==
  [][\A f \in Files : HasRunRow(RunOf[f]) /\ ~IsOpen(RunOf[f])
       /\ ~HasRow(f) => ~HasRow(f)']_vars
-----------------------------------------------------------------------------
(* What readers see of the gateway: the viewer serves the ready files of a *)
(* published run under its public id, and nothing else.                    *)
Phase(r) ==
  CASE runState[r] = "published"   -> "public"
    [] runState[r] = "quarantined" -> "held"
    [] runState[r] \in {"archived", "deleted"} -> "withdrawn"
    [] OTHER                       -> "private"

Shown(r) == IF runState[r] = "published"
              THEN {f \in FilesOf(r) : fileState[f] = "ready"}
              ELSE {}

Publication == INSTANCE EvidencePublication WITH
  phase <- [r \in Runs |-> Phase(r)],
  link <- publicId,
  shown <- [r \in Runs |-> Shown(r)]

(* The gateway keeps the promise of EvidencePublication: one link per run, *)
(* fixed once; everything a run shows appears at once, with the commit, and *)
(* stays the same until it is archived; a held run is never shown.         *)
PublicationPromise == Publication!Spec
-----------------------------------------------------------------------------
(* Why the safety properties hold (each part is used by EvidenceProofs).   *)

(* A frame of init owns an id no row has; the others name a file with one. *)
FramesOfFiles ==
  \A q \in Requests :
    /\ req[q].pc \in {"init_sent", "init_done"} =>
         /\ ~HasRow(req[q].file)
         /\ \A p \in Requests : req[p].file = req[q].file => p = q
    /\ req[q].pc \notin {"idle", "init_sent", "init_done"} =>
         HasRow(req[q].file)

FilesOfRuns ==
  \A f \in Files : HasRow(f) => HasRunRow(RunOf[f])

(* A file with a verdict has no upload left that could replace its bytes.  *)
VerdictClosesUpload ==
  \A f \in Files : fileState[f] \in Verdicts => upload[f] = "gone"

(* A file being processed is pending, which is what keeps its run from     *)
(* being published until the verdict is in.                                *)
ProcessingIsPending ==
  \A q \in Requests : Processing(q) =>
    /\ fileState[req[q].file] = "pending"
    /\ upload[req[q].file] = "gone"
    /\ runState[RunOf[req[q].file]] # "published"

(* Nor is a run published while MinIO may still accept the completion of   *)
(* one of its files.                                                       *)
OpenCompletionHoldsRun ==
  \A q \in Requests :
    req[q].pc = "complete_sent" /\ upload[req[q].file] = "open" =>
      runState[RunOf[req[q].file]] # "published"

(* The handler that saw the run processing was not the one to move it.     *)
DraftSeen ==
  \A q \in Requests :
    \/ req[q].pc \in {"complete_sent", "complete_done"} /\ ~req[q].draft
    \/ req[q].pc \in {"verify", "scan", "derive"}
    => runState[RunOf[req[q].file]] # "draft"

(* What has been read and written so far is the declared content.          *)
ProcessedSoFar ==
  \A q \in Requests :
    LET f == req[q].file IN
    /\ req[q].pc \in {"scan", "derive"} => object[f]["original"] = "declared"
    /\ req[q].pc = "derive" =>
         /\ req[q].bytes = "declared"
         /\ \A v \in Derived(KindOf[f]) \ req[q].left :
              object[f][v] = "declared"

(* No handler deletes a run; the retention job does (EvidenceRetention).   *)
NothingDeleted == \A r \in Runs : runState[r] # "deleted"

(* Together they are inductive: every step of every handler keeps them.    *)
IndInv ==
  /\ TypeOK /\ NothingDeleted
  /\ FramesOfFiles /\ FilesOfRuns /\ VerdictClosesUpload
  /\ ProcessingIsPending /\ OpenCompletionHoldsRun
  /\ DraftSeen /\ ProcessedSoFar
  /\ OneProcessor /\ PublishedHoldsNoRejected /\ ServedBytesVerified
  /\ QuarantineExplained /\ NoReadyFileInDraft
=============================================================================
