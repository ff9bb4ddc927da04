--------------------------- MODULE EvidenceProofs ---------------------------
(***************************************************************************)
(* Proofs about EvidenceGateway for every value of its constants.          *)
(*                                                                         *)
(* 1. TypeOK is inductive on its own (RequestTypes, RunTypes, NextTypes).  *)
(* 2. IndInv is inductive.  It is split into what it says of the rows and  *)
(*    the objects (RowParts) and of the handlers' frames (FrameParts); the *)
(*    steps that change little of what either looks at are proved together *)
(*    (QuietSteps, ReleasingSteps, QuietRunSteps, CrashAndStutter), the    *)
(*    others one lemma each.                                               *)
(* 3. The safety invariants are parts of IndInv; the finality of verdicts  *)
(*    and the implementation of EvidencePublication are proved step by     *)
(*    step from it.                                                        *)
(* 4. The overshoot of the ceiling is bounded by an invariant of its own,  *)
(*    CeilingInv: the files of a run and the handlers about to add one are *)
(*    counted together.                                                    *)
(***************************************************************************)
EXTENDS EvidenceGateway, TLAPS, FiniteSetTheorems

(* The frames after one handler has gone on.                               *)
FramesTyped ==
  /\ req' \in [Requests -> Frames]
  /\ \A q \in Requests : req'[q].pc # "idle" => req'[q].file \in Files

(* The frame of a handler with nothing pending.                            *)
LEMMA IdleType == Idle \in Frames /\ Idle.pc = "idle" /\ Idle.file = None
  BY DEF Idle, Frames, NoParts, PartMaps, Contents

(* The frame of a handler that starts to await something.                  *)
LEMMA AtType ==
  ASSUME NEW pc \in AwaitPcs, NEW f \in Files
  PROVE  /\ At(pc, f) \in Frames
         /\ At(pc, f).pc = pc /\ At(pc, f).file = f
  BY DEF At, Idle, Frames, NoParts, PartMaps, Contents

(* A handler that goes on with a frame of the right type keeps all typed.  *)
LEMMA GotoType ==
  ASSUME TypeOK, NEW q \in Requests, NEW frame \in Frames, Goto(q, frame),
         frame.pc # "idle" => frame.file \in Files
  PROVE  FramesTyped
  BY DEF TypeOK, Goto, FramesTyped

(* So does one that starts to await something about a file,                *)
LEMMA StartType ==
  ASSUME TypeOK, NEW q \in Requests, NEW pc \in AwaitPcs, NEW f \in Files,
         Goto(q, At(pc, f))
  PROVE  FramesTyped
  BY AtType, GotoType

(* one that awaits the next thing about the same file,                     *)
LEMMA StepType ==
  ASSUME TypeOK, NEW q \in Requests, NEW pc \in AwaitPcs, Step(q, pc),
         req[q].pc # "idle"
  PROVE  FramesTyped
<1>1. /\ [req[q] EXCEPT !.pc = pc] \in Frames
      /\ [req[q] EXCEPT !.pc = pc].file \in Files
  BY DEF TypeOK, Frames
<1> QED BY <1>1, GotoType DEF Step

(* one that ends,                                                          *)
LEMMA ReleaseType ==
  ASSUME TypeOK, NEW q \in Requests, Goto(q, Idle)
  PROVE  FramesTyped
  BY IdleType, GotoType

(* and a crash, which ends them all.                                       *)
LEMMA AllIdleType ==
  ASSUME AllIdle
  PROVE  FramesTyped
  BY IdleType DEF AllIdle, FramesTyped

(* Recording parts over parts gives parts.                                 *)
LEMMA OverlayType ==
  ASSUME NEW m \in PartMaps, NEW new \in PartMaps
  PROVE  Overlay(m, new) \in PartMaps
  BY DEF Overlay, PartMaps

(* A handler with something pending names a file of a known run.           *)
LEMMA AwaitingFile ==
  ASSUME TypeOK, NEW q \in Requests, req[q].pc # "idle"
  PROVE  /\ req[q] \in Frames
         /\ req[q].file \in Files
         /\ RunOf[req[q].file] \in Runs
  BY ConstantsAssumption DEF TypeOK

(* What processing writes is never the original.                           *)
LEMMA DerivedType ==
  ASSUME NEW k \in Kinds
  PROVE  Derived(k) \subseteq Variants \ {"original"}
  BY DEF Kinds, Derived, Variants

(* A step of a handler keeps the types,                                    *)
LEMMA RequestTypes ==
  ASSUME TypeOK, NEW q \in Requests, RequestStep(q)
  PROVE  TypeOK'
<1> USE DEF TypeOK, FramesTyped
<1>1. ASSUME NEW f \in Files, InitFile(q, f) PROVE TypeOK'
  <2>1. FramesTyped
    BY <1>1, StartType DEF InitFile, AwaitPcs
  <2> QED BY <1>1, <2>1 DEF InitFile, rows, minio
<1>2. ASSUME NEW f \in Files, CompleteStart(q, f) PROVE TypeOK'
  <2> DEFINE frame == [At("complete_sent", f) EXCEPT
                         !.draft = (runState[RunOf[f]] = "draft"),
                         !.parts = recorded[f]]
  <2>0. At("complete_sent", f) \in Frames /\ At("complete_sent", f).file = f
    BY AtType DEF AwaitPcs
  <2>1. frame \in Frames /\ frame.file \in Files
    BY <2>0 DEF Frames
  <2>2. Goto(q, frame) BY <1>2 DEF CompleteStart
  <2>3. FramesTyped
    BY <2>1, <2>2, GotoType
  <2> QED BY <1>2, <2>3 DEF CompleteStart, rows, minio
<1>3. ASSUME NEW f \in Files, AbortStart(q, f) PROVE TypeOK'
  <2>1. FramesTyped
    BY <1>3, StartType DEF AbortStart, AwaitPcs
  <2> QED BY <1>3, <2>1 DEF AbortStart, rows, minio
<1>4. ASSUME NEW f \in Files, NEW n \in PartNumbers, NEW b \in Bodies,
             PutPart(q, f, n, b)
      PROVE  TypeOK'
  <2> DEFINE frame == [At("part_sent", f) EXCEPT
                         !.parts = [NoParts EXCEPT ![n] = b]]
  <2>1. [NoParts EXCEPT ![n] = b] \in PartMaps
    BY DEF NoParts, PartMaps
  <2>0. At("part_sent", f) \in Frames /\ At("part_sent", f).file = f
    BY AtType DEF AwaitPcs
  <2>2. frame \in Frames /\ frame.file \in Files
    BY <2>0, <2>1 DEF Frames
  <2>3. Goto(q, frame) BY <1>4 DEF PutPart
  <2>4. FramesTyped
    BY <2>2, <2>3, GotoType
  <2> QED BY <1>4, <2>4 DEF PutPart, rows, minio
<1>5. CASE MinioCreate(q)
  <2>1. FramesTyped
    BY <1>5, StepType DEF MinioCreate, AwaitPcs
  <2> QED BY <1>5, <2>1 DEF MinioCreate, rows, Uploads
<1>6. CASE InitResume(q)
  <2>1. FramesTyped
    BY <1>6, ReleaseType DEF InitResume
  <2> QED BY <1>6, <2>1 DEF InitResume, minio, FileStates
<1>7. CASE MinioPart(q)
  <2>1. FramesTyped
    BY <1>7, StepType DEF MinioPart, AwaitPcs
  <2>2. req[q].parts \in PartMaps
    BY <1>7, AwaitingFile DEF MinioPart, Frames
  <2>3. stored' \in [Files -> PartMaps]
    BY <1>7, <2>2, OverlayType DEF MinioPart
  <2> QED BY <1>7, <2>1, <2>3 DEF MinioPart, rows
<1>8. CASE PartResume(q)
  <2>1. FramesTyped
    BY <1>8, ReleaseType DEF PartResume
  <2>2. req[q].parts \in PartMaps
    BY <1>8, AwaitingFile DEF PartResume, Frames
  <2>3. recorded' \in [Files -> PartMaps]
    BY <1>8, <2>2, OverlayType DEF PartResume
  <2> QED BY <1>8, <2>1, <2>3 DEF PartResume, minio
<1>9. CASE MinioComplete(q)
  <2>1. FramesTyped
    BY <1>9, StepType DEF MinioComplete, AwaitPcs
  <2>2. object' \in [Files -> [Variants -> Contents]]
    BY <1>9 DEF MinioComplete, Variants, Contents
  <2> QED BY <1>9, <2>1, <2>2 DEF MinioComplete, rows, Uploads
<1>10. CASE CompleteResume(q)
  <2>1. FramesTyped
    BY <1>10, StepType, ReleaseType DEF CompleteResume, AwaitPcs
  <2>2. completed' \in [Files -> BOOLEAN]
    BY <1>10 DEF CompleteResume, HasRow
  <2>3. uploadId' \in [Files -> BOOLEAN]
    BY <1>10 DEF CompleteResume
  <2>4. runState' \in [Runs -> RunStates \cup {"none", "deleted"}]
    BY <1>10 DEF CompleteResume, RunStates
  <2> QED BY <1>10, <2>1, <2>2, <2>3, <2>4 DEF CompleteResume, minio
<1>11. CASE MinioAbort(q)
  <2>1. FramesTyped
    BY <1>11, StepType DEF MinioAbort, AwaitPcs
  <2> QED BY <1>11, <2>1 DEF MinioAbort, rows, Uploads
<1>12. CASE AbortResume(q)
  <2>1. FramesTyped
    BY <1>12, ReleaseType DEF AbortResume
  <2> QED BY <1>12, <2>1 DEF AbortResume, minio
<1>13. CASE VerifyPass(q)
  <2>1. FramesTyped
    BY <1>13, StepType DEF VerifyPass, AwaitPcs
  <2> QED BY <1>13, <2>1 DEF VerifyPass, rows, minio
<1>14. CASE ScanPass(q)
  <2> DEFINE f == req[q].file
             frame == [req[q] EXCEPT !.pc = "derive",
                                     !.bytes = object[f]["original"],
                                     !.left = Derived(KindOf[f])]
  <2>1. f \in Files /\ req[q] \in Frames
    BY <1>14, AwaitingFile DEF ScanPass
  <2>2. Derived(KindOf[f]) \subseteq Variants
    BY <2>1, DerivedType, ConstantsAssumption
  <2>3. object[f]["original"] \in Contents
    BY <2>1 DEF Variants
  <2>4. frame \in Frames /\ frame.file \in Files
    BY <2>1, <2>2, <2>3 DEF Frames, AwaitPcs
  <2>5. Goto(q, frame) BY <1>14 DEF ScanPass
  <2>6. FramesTyped
    BY <2>4, <2>5, GotoType
  <2> QED BY <1>14, <2>6 DEF ScanPass, rows, minio
<1>15. CASE Finish(q)
  <2>1. FramesTyped
    BY <1>15, ReleaseType DEF Finish
  <2>2. fileState' \in [Files -> FileStates]
    BY <1>15 DEF Finish, FileStates
  <2> QED BY <1>15, <2>1, <2>2 DEF Finish, minio
<1>16. CASE Reject(q) \/ CrashMidReject(q)
  <2>1. FramesTyped
    BY <1>16, ReleaseType, AllIdleType DEF Reject, CrashMidReject
  <2>2. fileState' \in [Files -> FileStates]
    BY <1>16 DEF Reject, CrashMidReject, SetRejected, FileStates
  <2>3. runState' \in [Runs -> RunStates \cup {"none", "deleted"}]
    BY <1>16 DEF Reject, CrashMidReject, RunStates
  <2>4. req[q].file \in Files /\ RunOf[req[q].file] \in Runs
    BY <1>16, AwaitingFile DEF Reject, CrashMidReject, Refused
  <2>5. findings' \subseteq Runs \X (Files \cup {None})
    BY <1>16, <2>4 DEF Reject, CrashMidReject, AddFinding
  <2> QED BY <1>16, <2>1, <2>2, <2>3, <2>5 DEF Reject, CrashMidReject, minio
<1>17. ASSUME NEW v \in Variants, Derive(q, v) PROVE TypeOK'
  <2> DEFINE f == req[q].file
             frame == [req[q] EXCEPT !.left = @ \ {v}]
  <2>1. f \in Files /\ req[q] \in Frames
    BY <1>17, AwaitingFile DEF Derive
  <2>2. frame \in Frames /\ frame.file \in Files
    BY <2>1 DEF Frames
  <2>3. Goto(q, frame) BY <1>17 DEF Derive
  <2>4. FramesTyped
    BY <2>2, <2>3, GotoType
  <2>5. object' \in [Files -> [Variants -> Contents]]
    BY <1>17, <2>1 DEF Derive, Frames
  <2> QED BY <1>17, <2>4, <2>5 DEF Derive, rows
<1>18. CASE CallFails(q)
  <2>1. FramesTyped
    BY <1>18, ReleaseType DEF CallFails
  <2> QED BY <1>18, <2>1 DEF CallFails, rows, minio
<1>19. CASE CrashMidComplete(q)
  <2>1. FramesTyped
    BY <1>19, AllIdleType DEF CrashMidComplete
  <2>2. completed' \in [Files -> BOOLEAN] /\ uploadId' \in [Files -> BOOLEAN]
    BY <1>19 DEF CrashMidComplete, HasRow
  <2> QED BY <1>19, <2>1, <2>2 DEF CrashMidComplete, minio
<1> QED
  BY <1>1, <1>2, <1>3, <1>4, <1>5, <1>6, <1>7, <1>8, <1>9, <1>10, <1>11, <1>12,
     <1>13, <1>14, <1>15, <1>16, <1>17, <1>18, <1>19 DEF RequestStep

(* a request that has no await keeps them,                                 *)
LEMMA RunTypes ==
  ASSUME TypeOK, NEW r \in Runs, RunStep(r)
  PROVE  TypeOK'
<1> USE DEF TypeOK
<1>1. CASE CreateRun(r)
  BY <1>1 DEF CreateRun, minio, RunStates
<1>2. CASE InitRejected(r)
  BY <1>2 DEF InitRejected, minio
<1>3. CASE Archive(r)
  BY <1>3 DEF Archive, minio, RunStates
<1>4. ASSUME NEW p \in PublicIds, Prepare(r, p) PROVE TypeOK'
  BY <1>4 DEF Prepare, minio
<1>5. ASSUME NEW p \in PublicIds, CrashMidPublish(r, p) PROVE TypeOK'
  <2>1. FramesTyped
    BY <1>5, AllIdleType DEF CrashMidPublish
  <2> QED
    BY <1>5, <2>1 DEF CrashMidPublish, PublishRun, minio, RunStates, FramesTyped
<1>6. ASSUME NEW p \in PublicIds, NEW u \in Urls \cup {None}, Commit(r, p, u)
      PROVE  TypeOK'
  BY <1>6 DEF Commit, PublishRun, minio, RunStates
<1>7. ASSUME NEW u \in Urls, LinkComment(r, u) PROVE TypeOK'
  BY <1>7 DEF LinkComment, minio
<1> QED BY <1>1, <1>2, <1>3, <1>4, <1>5, <1>6, <1>7 DEF RunStep

(* and so does every step.                                                 *)
LEMMA NextTypes ==
  ASSUME TypeOK, [Next]_vars
  PROVE  TypeOK'
<1>1. CASE Crash
  BY <1>1, AllIdleType DEF Crash, TypeOK, FramesTyped, rows, minio
<1>2. CASE UNCHANGED vars
  BY <1>2 DEF vars, rows, minio, TypeOK
<1> QED BY <1>1, <1>2, RequestTypes, RunTypes DEF Next

(* They hold at first.                                                     *)
LEMMA InitTypes ==
  ASSUME Init
  PROVE  TypeOK
<1>1. \A q \in Requests : req[q] = Idle
  BY DEF Init
<1> QED
  BY <1>1, IdleType DEF Init, TypeOK, NoParts, PartMaps, FileStates, Uploads,
     Contents

(* Every reachable state has the types store.ts declares.                  *)
THEOREM TypesCorrect == Spec => []TypeOK
BY InitTypes, NextTypes, PTL DEF Spec
-----------------------------------------------------------------------------
(* The invariant is kept more generally than IndInv states it, so that it  *)
(* can be used where something besides the gateway deletes runs and        *)
(* objects: what it says of objects is said of the files of a set Y only,  *)
(* and a frame may name a file whose row went with its run.                *)
Gone(f) == runState[RunOf[f]] = "deleted"

FramesMatch ==
  \A q \in Requests :
    /\ req[q].pc \in {"init_sent", "init_done"} =>
         /\ ~HasRow(req[q].file)
         /\ \A p \in Requests : req[p].file = req[q].file => p = q
    /\ req[q].pc \notin {"idle", "init_sent", "init_done"} =>
         HasRow(req[q].file) \/ Gone(req[q].file)

ProcessingHolds ==
  \A q \in Requests : Processing(q) =>
    /\ fileState[req[q].file] = "pending" \/ Gone(req[q].file)
    /\ upload[req[q].file] = "gone"
    /\ runState[RunOf[req[q].file]] # "published"

ProcessedIn(Y) ==
  \A q \in Requests :
    LET f == req[q].file IN
    f \in Y =>
      /\ req[q].pc \in {"scan", "derive"} => object[f]["original"] = "declared"
      /\ req[q].pc = "derive" =>
           /\ req[q].bytes = "declared"
           /\ \A v \in Derived(KindOf[f]) \ req[q].left :
                object[f][v] = "declared"

ServedIn(Y) ==
  \A f \in Y : fileState[f] = "ready" =>
    \A v \in Served(KindOf[f]) : object[f][v] = "declared"

(* The parts that look at files, runs and objects, not at frames, and those *)
(* that look at frames.                                                    *)
RowParts(Y) ==
  /\ FilesOfRuns /\ VerdictClosesUpload /\ PublishedHoldsNoRejected
  /\ ServedIn(Y) /\ QuarantineExplained /\ NoReadyFileInDraft

FrameParts(Y) ==
  /\ FramesMatch /\ ProcessingHolds /\ OpenCompletionHoldsRun
  /\ DraftSeen /\ ProcessedIn(Y) /\ OneProcessor

(* IndInv is these parts, said of every file, where no run is deleted.     *)
LEMMA IndInvParts ==
  IndInv <=> /\ TypeOK /\ NothingDeleted
             /\ RowParts(Files) /\ FrameParts(Files)
<1> SUFFICES ASSUME TypeOK, NothingDeleted
             PROVE  /\ FramesOfFiles <=> FramesMatch
                    /\ ProcessingIsPending <=> ProcessingHolds
                    /\ ProcessedSoFar <=> ProcessedIn(Files)
                    /\ ServedBytesVerified <=> ServedIn(Files)
  BY DEF IndInv, RowParts, FrameParts
<1>1. \A q \in Requests : req[q].pc # "idle" => ~Gone(req[q].file)
  BY AwaitingFile DEF NothingDeleted, Gone
<1>2. FramesOfFiles <=> FramesMatch
  BY <1>1 DEF FramesOfFiles, FramesMatch
<1>3. ProcessingIsPending <=> ProcessingHolds
  BY <1>1 DEF ProcessingIsPending, ProcessingHolds, Processing
<1>4. ProcessedSoFar <=> ProcessedIn(Files)
  BY AwaitingFile DEF ProcessedSoFar, ProcessedIn
<1> QED
  BY <1>2, <1>3, <1>4 DEF ServedBytesVerified, ServedIn

(* No part of IndInv depends on anything else.                             *)
QuietRows ==
  /\ UNCHANGED <<runState, fileState, upload, object>>
  /\ findings \subseteq findings'

(* A step that leaves states, uploads and objects alone and loses no finding
   keeps what is said of the rows.                                         *)
LEMMA QuietKeepsRowParts ==
  ASSUME NEW Y \in SUBSET Files, RowParts(Y), QuietRows
  PROVE  RowParts(Y)'
<1>1. FilesOfRuns' /\ VerdictClosesUpload' /\ NoReadyFileInDraft'
  BY DEF RowParts, QuietRows, FilesOfRuns, VerdictClosesUpload,
     NoReadyFileInDraft, HasRow, HasRunRow
<1>2. PublishedHoldsNoRejected' /\ ServedIn(Y)'
  BY DEF RowParts, QuietRows, PublishedHoldsNoRejected, ServedIn,
     FilesOf, HasRow
<1>3. QuarantineExplained'
  BY DEF RowParts, QuietRows, QuarantineExplained, FilesOf, HasRow
<1> QED BY <1>1, <1>2, <1>3 DEF RowParts

(* Handlers that finish, fail or are lost in a crash.                      *)
Released == \A q \in Requests : req'[q] \in {req[q], Idle}

(* If moreover handlers only end, what is said of the frames is kept too,  *)
LEMMA ReleaseKeepsFrameParts ==
  ASSUME TypeOK, NEW Y \in SUBSET Files, FrameParts(Y), QuietRows, Released
  PROVE  FrameParts(Y)'
<1>1. \A q \in Requests :
        \/ req'[q] = req[q]
        \/ req'[q].pc = "idle" /\ req'[q].file = None
  BY IdleType DEF Released
<1>2. FramesMatch'
  <2>1. FramesMatch BY DEF FrameParts
  <2>2. \A q \in Requests : req[q].pc # "idle" => req[q].file # None
    BY NoneAssumption DEF TypeOK
  <2>3. fileState' = fileState /\ runState' = runState BY DEF QuietRows
  <2> QED BY <1>1, <2>1, <2>2, <2>3 DEF FramesMatch, HasRow, Gone
<1>3. ProcessingHolds' /\ OneProcessor'
  BY <1>1 DEF FrameParts, QuietRows, ProcessingHolds, OneProcessor,
     Processing, Gone
<1>4. OpenCompletionHoldsRun' /\ DraftSeen'
  BY <1>1 DEF FrameParts, QuietRows, OpenCompletionHoldsRun, DraftSeen
<1>5. ProcessedIn(Y)'
  BY <1>1 DEF FrameParts, QuietRows, ProcessedIn
<1> QED BY <1>2, <1>3, <1>4, <1>5 DEF FrameParts

(* What FrameParts asks of one more frame, the others being as they are.   *)
Fits(q, frame, Y) ==
  LET f == frame.file IN
  /\ frame.pc \in AwaitPcs /\ f \in Files
  /\ frame.pc \in {"init_sent", "init_done"} =>
       ~HasRow(f) /\ \A p \in Requests : p # q => req[p].file # f
  /\ frame.pc \notin {"init_sent", "init_done"} =>
       HasRow(f) \/ (Gone(f) /\ req[q].file = f)
  /\ frame.pc \in {"complete_done", "verify", "scan", "derive"} =>
       /\ fileState[f] = "pending" \/ Gone(f)
       /\ upload[f] = "gone"
       /\ runState[RunOf[f]] # "published"
       /\ \A p \in Requests : p # q /\ Processing(p) => req[p].file # f
  /\ frame.pc = "complete_sent" /\ upload[f] = "open" =>
       runState[RunOf[f]] # "published"
  /\ \/ frame.pc \in {"complete_sent", "complete_done"} /\ ~frame.draft
     \/ frame.pc \in {"verify", "scan", "derive"}
     => runState[RunOf[f]] # "draft"
  /\ f \in Y =>
       /\ frame.pc \in {"scan", "derive"} => object[f]["original"] = "declared"
       /\ frame.pc = "derive" =>
            /\ frame.bytes = "declared"
            /\ \A v \in Derived(KindOf[f]) \ frame.left :
                 object[f][v] = "declared"

(* and if one goes on, that is kept when its new frame fits the rows.      *)
LEMMA FitKeepsFrameParts ==
  ASSUME TypeOK, NEW Y \in SUBSET Files, FrameParts(Y), QuietRows,
         NEW q \in Requests, NEW frame, Fits(q, frame, Y), Goto(q, frame)
  PROVE  FrameParts(Y)'
<1>1. req'[q] = frame /\ \A p \in Requests : p # q => req'[p] = req[p]
  BY DEF TypeOK, Goto
<1>2. FramesMatch'
  <2>1. FramesMatch BY DEF FrameParts
  <2>2. fileState' = fileState /\ runState' = runState BY DEF QuietRows
  <2>3. /\ frame.pc \in {"init_sent", "init_done"} =>
             ~HasRow(frame.file)
             /\ \A p \in Requests : p # q => req[p].file # frame.file
        /\ frame.pc \notin {"init_sent", "init_done"} =>
             \/ HasRow(frame.file)
             \/ Gone(frame.file) /\ req[q].file = frame.file
    BY DEF Fits
  <2>4. \A p \in Requests : p # q /\ req[p].pc \in {"init_sent", "init_done"}
          => req[p].file # frame.file
    BY <2>1, <2>3 DEF FramesMatch
  <2> QED BY <1>1, <2>1, <2>2, <2>3, <2>4 DEF FramesMatch, HasRow, Gone
<1>3. ProcessingHolds' /\ OneProcessor'
  BY <1>1 DEF FrameParts, QuietRows, ProcessingHolds, OneProcessor,
     Processing, Gone, Fits
<1>4. OpenCompletionHoldsRun' /\ DraftSeen'
  BY <1>1 DEF FrameParts, QuietRows, OpenCompletionHoldsRun, DraftSeen, Fits
<1>5. ProcessedIn(Y)'
  BY <1>1 DEF FrameParts, QuietRows, ProcessedIn, Fits
<1> QED BY <1>2, <1>3, <1>4, <1>5 DEF FrameParts
-----------------------------------------------------------------------------
(* The steps that change nothing RowParts looks at.                        *)
QuietStep(q) ==
  \/ \E f \in Files : InitFile(q, f) \/ CompleteStart(q, f) \/ AbortStart(q, f)
  \/ \E f \in Files, n \in PartNumbers, b \in Bodies : PutPart(q, f, n, b)
  \/ MinioPart(q) \/ VerifyPass(q) \/ ScanPass(q)

(* The steps of handlers that only read rows, or write parts.              *)
LEMMA QuietSteps ==
  ASSUME TypeOK, NEW Y \in SUBSET Files, RowParts(Y), FrameParts(Y),
         NEW q \in Requests, QuietStep(q)
  PROVE  RowParts(Y)' /\ FrameParts(Y)'
<1> SUFFICES ASSUME QuietRows,
                    \E frame : Fits(q, frame, Y) /\ Goto(q, frame)
             PROVE  RowParts(Y)' /\ FrameParts(Y)'
  <2>1. QuietRows
    BY DEF QuietStep, QuietRows, InitFile, CompleteStart, AbortStart, PutPart,
       MinioPart, VerifyPass, ScanPass, rows, minio
  <2>2. ASSUME NEW f \in Files, InitFile(q, f)
        PROVE  Fits(q, At("init_sent", f), Y) /\ Goto(q, At("init_sent", f))
    <3>1. At("init_sent", f).pc = "init_sent" /\ At("init_sent", f).file = f
      BY AtType DEF AwaitPcs
    <3> QED BY <2>2, <3>1 DEF InitFile, FreshFile, Fits, AwaitPcs
  <2>3. ASSUME NEW f \in Files, AbortStart(q, f)
        PROVE  Fits(q, At("abort_sent", f), Y) /\ Goto(q, At("abort_sent", f))
    <3>1. At("abort_sent", f).pc = "abort_sent" /\ At("abort_sent", f).file = f
      BY AtType DEF AwaitPcs
    <3> QED BY <2>3, <3>1 DEF AbortStart, Completable, Fits, AwaitPcs
  <2>4. ASSUME NEW f \in Files, CompleteStart(q, f)
        PROVE  \E frame : Fits(q, frame, Y) /\ Goto(q, frame)
    <3> DEFINE frame == [At("complete_sent", f) EXCEPT
                           !.draft = (runState[RunOf[f]] = "draft"),
                           !.parts = recorded[f]]
    <3>1. At("complete_sent", f) \in Frames
          /\ At("complete_sent", f).pc = "complete_sent"
          /\ At("complete_sent", f).file = f
      BY AtType DEF AwaitPcs
    <3>2. /\ frame.pc = "complete_sent" /\ frame.file = f
          /\ frame.draft = (runState[RunOf[f]] = "draft")
      BY <3>1 DEF Frames
    <3>3. Goto(q, frame) BY <2>4 DEF CompleteStart
    <3>4. Fits(q, frame, Y)
      BY <2>4, <3>2 DEF CompleteStart, Completable, IsOpen, Fits, AwaitPcs
    <3> QED BY <3>3, <3>4
  <2>5. ASSUME NEW f \in Files, NEW n \in PartNumbers, NEW b \in Bodies,
               PutPart(q, f, n, b)
        PROVE  \E frame : Fits(q, frame, Y) /\ Goto(q, frame)
    <3> DEFINE frame == [At("part_sent", f) EXCEPT
                           !.parts = [NoParts EXCEPT ![n] = b]]
    <3>1. At("part_sent", f) \in Frames /\ At("part_sent", f).pc = "part_sent"
          /\ At("part_sent", f).file = f
      BY AtType DEF AwaitPcs
    <3>2. frame.pc = "part_sent" /\ frame.file = f
      BY <3>1 DEF Frames
    <3>3. Goto(q, frame) BY <2>5 DEF PutPart
    <3>4. Fits(q, frame, Y)
      BY <2>5, <3>2 DEF PutPart, Fits, AwaitPcs
    <3> QED BY <3>3, <3>4
  <2>6. ASSUME MinioPart(q)
        PROVE  \E frame : Fits(q, frame, Y) /\ Goto(q, frame)
    <3> DEFINE frame == [req[q] EXCEPT !.pc = "part_done"]
    <3>1. req[q] \in Frames /\ req[q].file \in Files
      BY <2>6, AwaitingFile DEF MinioPart
    <3>2. frame.pc = "part_done" /\ frame.file = req[q].file
      BY <3>1 DEF Frames
    <3>3. Goto(q, frame) BY <2>6 DEF MinioPart, Step
    <3>4. HasRow(req[q].file) \/ Gone(req[q].file)
      BY <2>6 DEF MinioPart, FrameParts, FramesMatch
    <3>5. Fits(q, frame, Y)
      BY <3>1, <3>2, <3>4 DEF Fits, AwaitPcs
    <3> QED BY <3>3, <3>5
  <2>7. ASSUME VerifyPass(q)
        PROVE  \E frame : Fits(q, frame, Y) /\ Goto(q, frame)
    <3> DEFINE frame == [req[q] EXCEPT !.pc = "scan"]
               f == req[q].file
    <3>1. req[q] \in Frames /\ f \in Files
      BY <2>7, AwaitingFile DEF VerifyPass
    <3>2. frame.pc = "scan" /\ frame.file = f
      BY <3>1 DEF Frames
    <3>3. Goto(q, frame) BY <2>7 DEF VerifyPass, Step
    <3>4. HasRow(f) \/ Gone(f)
      BY <2>7 DEF VerifyPass, FrameParts, FramesMatch
    <3>5. /\ fileState[f] = "pending" \/ Gone(f)
          /\ upload[f] = "gone"
          /\ runState[RunOf[f]] \notin {"published", "draft"}
          /\ object[f]["original"] = "declared"
          /\ \A p \in Requests : p # q /\ Processing(p) => req[p].file # f
      BY <2>7 DEF VerifyPass, FrameParts, ProcessingHolds, DraftSeen,
         OneProcessor, Processing, DigestMatches
    <3>6. Fits(q, frame, Y)
      BY <3>1, <3>2, <3>4, <3>5 DEF Fits, AwaitPcs
    <3> QED BY <3>3, <3>6
  <2>8. ASSUME ScanPass(q)
        PROVE  \E frame : Fits(q, frame, Y) /\ Goto(q, frame)
    <3> DEFINE f == req[q].file
               frame == [req[q] EXCEPT !.pc = "derive",
                                       !.bytes = object[f]["original"],
                                       !.left = Derived(KindOf[f])]
    <3>1. req[q] \in Frames /\ f \in Files
      BY <2>8, AwaitingFile DEF ScanPass
    <3>2. /\ frame.pc = "derive" /\ frame.file = f
          /\ frame.bytes = object[f]["original"]
          /\ frame.left = Derived(KindOf[f])
      BY <3>1 DEF Frames
    <3>3. Goto(q, frame) BY <2>8 DEF ScanPass
    <3>4. HasRow(f) \/ Gone(f)
      BY <2>8 DEF ScanPass, FrameParts, FramesMatch
    <3>5. /\ fileState[f] = "pending" \/ Gone(f)
          /\ upload[f] = "gone"
          /\ runState[RunOf[f]] \notin {"published", "draft"}
          /\ f \in Y => object[f]["original"] = "declared"
          /\ \A p \in Requests : p # q /\ Processing(p) => req[p].file # f
      BY <2>8 DEF ScanPass, FrameParts, ProcessingHolds, DraftSeen,
         OneProcessor, Processing, ProcessedIn
    <3>6. Fits(q, frame, Y)
      BY <3>1, <3>2, <3>4, <3>5 DEF Fits, AwaitPcs
    <3> QED BY <3>3, <3>6
  <2> QED
    BY <2>1, <2>2, <2>3, <2>4, <2>5, <2>6, <2>7, <2>8 DEF QuietStep
<1> QED BY QuietKeepsRowParts, FitKeepsFrameParts

(* Ending a handler leaves the frames of the others.                       *)
LEMMA GotoIdleReleases ==
  ASSUME TypeOK, NEW q \in Requests, Goto(q, Idle)
  PROVE  Released
  BY DEF TypeOK, Goto, Released

(* The steps that besides that only end a handler.                         *)
LEMMA ReleasingSteps ==
  ASSUME TypeOK, NEW Y \in SUBSET Files, RowParts(Y), FrameParts(Y),
         NEW q \in Requests,
         \/ PartResume(q) \/ AbortResume(q) \/ CallFails(q)
         \/ CrashMidComplete(q)
  PROVE  RowParts(Y)' /\ FrameParts(Y)'
<1>1. QuietRows
  BY DEF PartResume, AbortResume, CallFails, CrashMidComplete, QuietRows, rows,
     minio
<1>2. Released
  BY GotoIdleReleases DEF PartResume, AbortResume, CallFails, CrashMidComplete,
     AllIdle, Released
<1> QED BY <1>1, <1>2, QuietKeepsRowParts, ReleaseKeepsFrameParts

(* The requests that change no state of a run.                             *)
LEMMA QuietRunSteps ==
  ASSUME TypeOK, NEW Y \in SUBSET Files, RowParts(Y), FrameParts(Y),
         NEW r \in Runs,
         \/ InitRejected(r)
         \/ \E p \in PublicIds : Prepare(r, p)
         \/ \E u \in Urls : LinkComment(r, u)
  PROVE  RowParts(Y)' /\ FrameParts(Y)'
<1>1. QuietRows
  BY DEF InitRejected, Prepare, LinkComment, QuietRows, minio
<1>2. Released
  BY DEF InitRejected, Prepare, LinkComment, Released
<1> QED BY <1>1, <1>2, QuietKeepsRowParts, ReleaseKeepsFrameParts

(* A crash between two steps, and stuttering.                              *)
LEMMA CrashAndStutter ==
  ASSUME TypeOK, NEW Y \in SUBSET Files, RowParts(Y), FrameParts(Y),
         Crash \/ UNCHANGED vars
  PROVE  RowParts(Y)' /\ FrameParts(Y)'
<1>1. QuietRows
  BY DEF Crash, QuietRows, vars, rows, minio
<1>2. Released
  BY DEF Crash, AllIdle, Released, vars
<1> QED BY <1>1, <1>2, QuietKeepsRowParts, ReleaseKeepsFrameParts
-----------------------------------------------------------------------------
(* The steps that do change what IndInv looks at, one lemma each.          *)
LEMMA GotoFrames ==
  ASSUME TypeOK, NEW q \in Requests, NEW frame, Goto(q, frame)
  PROVE  req'[q] = frame /\ \A p \in Requests : p # q => req'[p] = req[p]
  BY DEF TypeOK, Goto

(* What Goto and Step do to each frame.                                    *)
LEMMA StepFrames ==
  ASSUME TypeOK, NEW q \in Requests, NEW pc, Step(q, pc)
  PROVE  /\ req'[q].pc = pc
         /\ req'[q].file = req[q].file
         /\ req'[q].draft = req[q].draft
         /\ req'[q].bytes = req[q].bytes
         /\ req'[q].left = req[q].left
         /\ \A p \in Requests : p # q => req'[p] = req[p]
<1>1. req[q] \in Frames BY DEF TypeOK
<1>2. req' = [req EXCEPT ![q] = [req[q] EXCEPT !.pc = pc]] BY DEF Step, Goto
<1> QED BY <1>1, <1>2 DEF TypeOK, Frames

(* What ending a handler does to each frame.                               *)
LEMMA ReleasedFrames ==
  ASSUME TypeOK, NEW q \in Requests, Goto(q, Idle)
  PROVE  /\ req'[q].pc = "idle" /\ req'[q].file = None
         /\ \A p \in Requests : p # q => req'[p] = req[p]
  BY GotoFrames, IdleType

(* A new upload: the file has no row yet, so nothing is said of it.        *)
LEMMA MinioCreateKeeps ==
  ASSUME TypeOK, NEW Y \in SUBSET Files, RowParts(Y), FrameParts(Y),
         NEW q \in Requests, MinioCreate(q)
  PROVE  RowParts(Y)' /\ FrameParts(Y)'
<1> DEFINE f == req[q].file
<1>1. /\ f \in Files /\ ~HasRow(f)
      /\ \A p \in Requests : req[p].file = f => p = q
  BY AwaitingFile DEF MinioCreate, FrameParts, FramesMatch
<1>2. /\ req'[q].pc = "init_done" /\ req'[q].file = f
      /\ \A p \in Requests : p # q => req'[p] = req[p]
  BY StepFrames DEF MinioCreate
<1>3. /\ UNCHANGED <<runState, fileState, findings, object>>
      /\ upload' \in [Files -> Uploads]
      /\ \A g \in Files : g # f => upload'[g] = upload[g]
  BY <1>1 DEF MinioCreate, rows, TypeOK, Uploads
<1>4. RowParts(Y)'
  <2>1. VerdictClosesUpload'
    BY <1>1, <1>3 DEF RowParts, VerdictClosesUpload, HasRow, Verdicts
  <2>2. FilesOfRuns' /\ NoReadyFileInDraft'
    BY <1>3 DEF RowParts, FilesOfRuns, NoReadyFileInDraft, HasRow, HasRunRow
  <2>3. PublishedHoldsNoRejected' /\ ServedIn(Y)'
    BY <1>3 DEF RowParts, PublishedHoldsNoRejected, ServedIn,
       FilesOf, HasRow
  <2>4. QuarantineExplained'
    BY <1>3 DEF RowParts, QuarantineExplained, FilesOf, HasRow
  <2> QED BY <2>1, <2>2, <2>3, <2>4 DEF RowParts
<1>5. FrameParts(Y)'
  <2>1. FramesMatch'
    BY <1>1, <1>2, <1>3 DEF FrameParts, FramesMatch, HasRow, Gone
  <2>2. \A p \in Requests : p # q /\ req[p].pc # "idle" =>
          req[p].file \in Files /\ req[p].file # f
    BY <1>1 DEF TypeOK
  <2>3. ProcessingHolds'
    BY <1>2, <1>3, <2>2 DEF FrameParts, ProcessingHolds, Processing, Gone
  <2>4. OneProcessor'
    BY <1>2 DEF FrameParts, OneProcessor, Processing
  <2>5. OpenCompletionHoldsRun' /\ DraftSeen'
    BY <1>2, <1>3, <2>2 DEF FrameParts, OpenCompletionHoldsRun, DraftSeen
  <2>6. ProcessedIn(Y)'
    BY <1>2, <1>3 DEF FrameParts, ProcessedIn
  <2> QED BY <2>1, <2>3, <2>4, <2>5, <2>6 DEF FrameParts
<1> QED BY <1>4, <1>5

(* A new row: pending, of a run that exists; if the run is public by then,
   the file is simply not ready.                                           *)
LEMMA InitResumeKeeps ==
  ASSUME TypeOK, NEW Y \in SUBSET Files, RowParts(Y), FrameParts(Y),
         NEW q \in Requests, InitResume(q)
  PROVE  RowParts(Y)' /\ FrameParts(Y)'
<1> DEFINE f == req[q].file
<1>1. /\ f \in Files /\ ~HasRow(f)
      /\ \A p \in Requests : req[p].file = f => p = q
  BY AwaitingFile DEF InitResume, FrameParts, FramesMatch
<1>2. /\ req'[q].pc = "idle" /\ req'[q].file = None
      /\ \A p \in Requests : p # q => req'[p] = req[p]
  BY ReleasedFrames DEF InitResume
<1>3. UNCHANGED <<runState, findings, upload, object>>
  BY DEF InitResume, minio
<1>4. CASE fileState' = fileState
  <2>1. QuietRows /\ Released
    BY <1>3, <1>4, GotoIdleReleases DEF QuietRows, InitResume
  <2> QED BY <2>1, QuietKeepsRowParts, ReleaseKeepsFrameParts
<1>5. CASE /\ HasRunRow(RunOf[f])
           /\ fileState' = [fileState EXCEPT ![f] = "pending"]
  <2>1. /\ fileState'[f] = "pending" /\ fileState[f] = "none"
        /\ \A g \in Files : g # f => fileState'[g] = fileState[g]
    BY <1>1, <1>5 DEF TypeOK, HasRow
  <2>2. RowParts(Y)'
    <3>1. FilesOfRuns' /\ VerdictClosesUpload' /\ NoReadyFileInDraft'
      BY <1>3, <1>5, <2>1 DEF RowParts, FilesOfRuns, VerdictClosesUpload,
         NoReadyFileInDraft, HasRow, HasRunRow, Verdicts
    <3>2. PublishedHoldsNoRejected' /\ ServedIn(Y)'
      BY <1>3, <2>1 DEF RowParts, PublishedHoldsNoRejected,
         ServedIn, FilesOf, HasRow
    <3>3. QuarantineExplained'
      BY <1>3, <2>1 DEF RowParts, QuarantineExplained, FilesOf, HasRow
    <3> QED BY <3>1, <3>2, <3>3 DEF RowParts
  <2>3. \A p \in Requests : p # q /\ req[p].pc # "idle" =>
          req[p].file \in Files /\ req[p].file # f
    BY <1>1 DEF TypeOK
  <2>4. FrameParts(Y)'
    <3>1. FramesMatch'
      <4>1. FramesMatch BY DEF FrameParts
      <4>2. \A p \in Requests : req[p].pc \in {"init_sent", "init_done"} =>
              req[p].file # None
        BY NoneAssumption DEF TypeOK
      <4> QED
        BY <1>2, <1>3, <2>1, <2>3, <4>1, <4>2 DEF FramesMatch, HasRow, Gone
    <3>2. ProcessingHolds' /\ OneProcessor'
      BY <1>2, <1>3, <2>1, <2>3 DEF FrameParts, ProcessingHolds,
         OneProcessor, Processing, Gone
    <3>3. OpenCompletionHoldsRun' /\ DraftSeen' /\ ProcessedIn(Y)'
      BY <1>2, <1>3 DEF FrameParts, OpenCompletionHoldsRun, DraftSeen,
         ProcessedIn
    <3> QED BY <3>1, <3>2, <3>3 DEF FrameParts
  <2> QED BY <2>2, <2>4
<1> QED BY <1>4, <1>5 DEF InitResume

(* The one completion MinIO accepts: the upload was open, so no verdict and
   no other processing of the file can exist.                              *)
LEMMA MinioCompleteKeeps ==
  ASSUME TypeOK, NEW Y \in SUBSET Files, RowParts(Y), FrameParts(Y),
         NEW q \in Requests, MinioComplete(q)
  PROVE  RowParts(Y)' /\ FrameParts(Y)'
<1> DEFINE f == req[q].file
<1>1. /\ f \in Files /\ upload[f] = "open"
      /\ req[q].pc = "complete_sent"
  BY AwaitingFile DEF MinioComplete
<1>2. /\ req'[q].pc = "complete_done" /\ req'[q].file = f
      /\ req'[q].draft = req[q].draft
      /\ \A p \in Requests : p # q => req'[p] = req[p]
  BY StepFrames DEF MinioComplete
<1>3. /\ UNCHANGED <<runState, fileState, findings>>
      /\ upload'[f] = "gone"
      /\ \A g \in Files : g # f => /\ upload'[g] = upload[g]
                                   /\ object'[g] = object[g]
  BY <1>1 DEF MinioComplete, rows, TypeOK
<1>4. /\ fileState[f] = "pending" \/ Gone(f)
      /\ fileState[f] \notin Verdicts
  BY <1>1 DEF RowParts, VerdictClosesUpload, FrameParts, FramesMatch, HasRow,
     TypeOK, FileStates, Verdicts
<1>5. runState[RunOf[f]] # "published"
  BY <1>1 DEF FrameParts, OpenCompletionHoldsRun
<1>6. \A p \in Requests :
        Processing(p) => req[p].file \in Files /\ req[p].file # f
  BY <1>1 DEF FrameParts, ProcessingHolds, TypeOK, Processing
<1>7. RowParts(Y)'
  <2>1. VerdictClosesUpload' /\ ServedIn(Y)'
    BY <1>3, <1>4 DEF RowParts, VerdictClosesUpload, ServedIn,
       Verdicts
  <2>2. FilesOfRuns' /\ NoReadyFileInDraft'
    BY <1>3 DEF RowParts, FilesOfRuns, NoReadyFileInDraft, HasRow, HasRunRow
  <2>3. PublishedHoldsNoRejected' /\ QuarantineExplained'
    BY <1>3 DEF RowParts, PublishedHoldsNoRejected, QuarantineExplained,
       FilesOf, HasRow
  <2> QED BY <2>1, <2>2, <2>3 DEF RowParts
<1>8. FrameParts(Y)'
  <2>1. FramesMatch'
    <3>1. FramesMatch BY DEF FrameParts
    <3> QED BY <1>1, <1>2, <1>3, <3>1 DEF FramesMatch, HasRow, Gone
  <2>2. ProcessingHolds' /\ OneProcessor'
    BY <1>2, <1>3, <1>4, <1>5, <1>6 DEF FrameParts, ProcessingHolds,
       OneProcessor, Processing, Gone
  <2>3. OpenCompletionHoldsRun' /\ DraftSeen'
    BY <1>1, <1>2, <1>3, AwaitingFile DEF FrameParts, OpenCompletionHoldsRun,
       DraftSeen
  <2>4. ProcessedIn(Y)'
    BY <1>2, <1>3, <1>6 DEF FrameParts, ProcessedIn, Processing
  <2> QED BY <2>1, <2>2, <2>3, <2>4 DEF FrameParts
<1> QED BY <1>7, <1>8

(* Processing starts on a pending file of a run that is not public.        *)
LEMMA CompleteResumeKeeps ==
  ASSUME TypeOK, NEW Y \in SUBSET Files, RowParts(Y), FrameParts(Y),
         NEW q \in Requests, CompleteResume(q)
  PROVE  RowParts(Y)' /\ FrameParts(Y)'
<1> DEFINE f == req[q].file
           r == RunOf[f]
<1>1. /\ f \in Files /\ r \in Runs /\ req[q].pc = "complete_done"
  BY AwaitingFile DEF CompleteResume
<1>2. UNCHANGED <<fileState, findings, upload, object>>
  BY DEF CompleteResume, minio
<1>3. CASE Goto(q, Idle) /\ UNCHANGED runState
  <2>1. QuietRows /\ Released
    BY <1>2, <1>3, GotoIdleReleases DEF QuietRows
  <2> QED BY <2>1, QuietKeepsRowParts, ReleaseKeepsFrameParts
<1>4. CASE /\ Step(q, "verify") /\ HasRow(f)
           /\ runState'[r] # "draft"
           /\ \/ UNCHANGED runState
              \/ /\ runState[r] = "draft"
                 /\ runState' = [runState EXCEPT ![r] = "processing"]
  <2>1. /\ req'[q].pc = "verify" /\ req'[q].file = f
        /\ \A p \in Requests : p # q => req'[p] = req[p]
    BY <1>4, StepFrames
  <2>2. \A s \in Runs :
          \/ runState'[s] = runState[s]
          \/ runState[s] = "draft" /\ runState'[s] = "processing"
    BY <1>1, <1>4 DEF TypeOK
  <2>3. RowParts(Y)'
    <3>1. FilesOfRuns' /\ VerdictClosesUpload' /\ NoReadyFileInDraft'
      BY <1>2, <2>2, ConstantsAssumption DEF RowParts, FilesOfRuns, HasRow,
         VerdictClosesUpload, NoReadyFileInDraft, HasRunRow, RunStates
    <3>2. PublishedHoldsNoRejected' /\ ServedIn(Y)'
      BY <1>2, <2>2 DEF RowParts, PublishedHoldsNoRejected,
         ServedIn, FilesOf, HasRow
    <3>3. QuarantineExplained'
      BY <1>2, <2>2 DEF RowParts, QuarantineExplained, FilesOf, HasRow
    <3> QED BY <3>1, <3>2, <3>3 DEF RowParts
  <2>4. \A p \in Requests : req[p].pc # "idle" => RunOf[req[p].file] \in Runs
    BY AwaitingFile
  <2>5. FrameParts(Y)'
    <3>1. FramesMatch'
      <4>1. FramesMatch BY DEF FrameParts
      <4> QED
        BY <1>1, <1>2, <1>4, <2>1, <2>2, <2>4, <4>1
           DEF FramesMatch, HasRow, Gone
    <3>2. ProcessingHolds' /\ OneProcessor'
      BY <1>1, <1>2, <2>1, <2>2, <2>4 DEF FrameParts, ProcessingHolds,
         OneProcessor, Processing, Gone
    <3>3. OpenCompletionHoldsRun'
      BY <1>2, <2>1, <2>2, <2>4 DEF FrameParts, OpenCompletionHoldsRun
    <3>4. DraftSeen'
      BY <1>4, <2>1, <2>2, <2>4 DEF FrameParts, DraftSeen
    <3>5. ProcessedIn(Y)'
      BY <1>2, <2>1 DEF FrameParts, ProcessedIn
    <3> QED BY <3>1, <3>2, <3>3, <3>4, <3>5 DEF FrameParts
  <2> QED BY <2>3, <2>5
<1>5. ASSUME MovesRun(q), CanMove(r, "processing"),
             runState' = [runState EXCEPT ![r] = "processing"]
      PROVE  runState'[r] # "draft" /\ runState[r] = "draft"
  BY <1>1, <1>5 DEF CanMove, RunTransitions, TypeOK, RunStates
<1>6. ASSUME ~MovesRun(q), UNCHANGED runState
      PROVE  runState'[r] # "draft"
  BY <1>1, <1>6 DEF FrameParts, DraftSeen, MovesRun
<1> QED BY <1>3, <1>4, <1>5, <1>6 DEF CompleteResume

(* An aborted upload: no completion of it can be accepted any more.        *)
LEMMA MinioAbortKeeps ==
  ASSUME TypeOK, NEW Y \in SUBSET Files, RowParts(Y), FrameParts(Y),
         NEW q \in Requests, MinioAbort(q)
  PROVE  RowParts(Y)' /\ FrameParts(Y)'
<1> DEFINE f == req[q].file
<1>1. f \in Files /\ req[q].pc = "abort_sent"
  BY AwaitingFile DEF MinioAbort
<1>2. /\ req'[q].pc = "abort_done" /\ req'[q].file = f
      /\ \A p \in Requests : p # q => req'[p] = req[p]
  BY StepFrames DEF MinioAbort
<1>3. /\ UNCHANGED <<runState, fileState, findings, object>>
      /\ \A g \in Files : upload'[g] \in {upload[g], "gone"}
  BY <1>1 DEF MinioAbort, rows, TypeOK
<1>4. RowParts(Y)'
  <2>1. VerdictClosesUpload' /\ ServedIn(Y)'
    BY <1>3 DEF RowParts, VerdictClosesUpload, ServedIn
  <2>2. FilesOfRuns' /\ NoReadyFileInDraft'
    BY <1>3 DEF RowParts, FilesOfRuns, NoReadyFileInDraft, HasRow, HasRunRow
  <2>3. PublishedHoldsNoRejected' /\ QuarantineExplained'
    BY <1>3 DEF RowParts, PublishedHoldsNoRejected, QuarantineExplained,
       FilesOf, HasRow
  <2> QED BY <2>1, <2>2, <2>3 DEF RowParts
<1>5. \A p \in Requests : req[p].pc # "idle" => req[p].file \in Files
  BY DEF TypeOK
<1>6. FrameParts(Y)'
  <2>1. FramesMatch'
    <3>1. FramesMatch BY DEF FrameParts
    <3> QED BY <1>1, <1>2, <1>3, <3>1 DEF FramesMatch, HasRow, Gone
  <2>2. ProcessingHolds' /\ OneProcessor'
    BY <1>2, <1>3, <1>5 DEF FrameParts, ProcessingHolds, OneProcessor,
       Processing, Gone
  <2>3. OpenCompletionHoldsRun' /\ DraftSeen'
    BY <1>2, <1>3, <1>5 DEF FrameParts, OpenCompletionHoldsRun, DraftSeen
  <2>4. ProcessedIn(Y)'
    BY <1>2, <1>3 DEF FrameParts, ProcessedIn
  <2> QED BY <2>1, <2>2, <2>3, <2>4 DEF FrameParts
<1> QED BY <1>4, <1>6

(* A derived object is made from the bytes that were verified.             *)
LEMMA DeriveKeeps ==
  ASSUME TypeOK, NEW Y \in SUBSET Files, RowParts(Y), FrameParts(Y),
         NEW q \in Requests, NEW v \in Variants,
         Derive(q, v)
  PROVE  RowParts(Y)' /\ FrameParts(Y)'
<1> DEFINE f == req[q].file
           frame == [req[q] EXCEPT !.left = @ \ {v}]
<1>1. /\ f \in Files /\ req[q] \in Frames /\ req[q].pc = "derive"
      /\ v \in req[q].left
      /\ f \in Y => req[q].bytes = "declared"
  BY AwaitingFile DEF Derive, FrameParts, ProcessedIn
<1>2. /\ req'[q].pc = "derive" /\ req'[q].file = f
      /\ req'[q].bytes = req[q].bytes /\ req'[q].left = req[q].left \ {v}
      /\ \A p \in Requests : p # q => req'[p] = req[p]
  <2>1. Goto(q, frame) BY DEF Derive
  <2> QED BY <1>1, <2>1, GotoFrames DEF Frames
<1>3. /\ UNCHANGED <<runState, fileState, findings, upload>>
      /\ \A g \in Y, w \in Variants :
           object'[g][w] \in {object[g][w], "declared"}
      /\ f \in Y => object'[f][v] = "declared"
  BY <1>1 DEF Derive, rows, TypeOK
<1>4. RowParts(Y)'
  <2>1. FilesOfRuns' /\ VerdictClosesUpload' /\ NoReadyFileInDraft'
    BY <1>3 DEF RowParts, FilesOfRuns, VerdictClosesUpload,
       NoReadyFileInDraft, HasRow, HasRunRow
  <2>2. PublishedHoldsNoRejected' /\ QuarantineExplained'
    BY <1>3 DEF RowParts, PublishedHoldsNoRejected, QuarantineExplained,
       FilesOf, HasRow
  <2>3. ServedIn(Y)'
    <3>1. \A g \in Files : Served(KindOf[g]) \subseteq Variants
      BY ConstantsAssumption DEF Served, Derived, Kinds, Variants
    <3> QED BY <1>3, <3>1 DEF RowParts, ServedIn
  <2> QED BY <2>1, <2>2, <2>3 DEF RowParts
<1>5. FrameParts(Y)'
  <2>1. FramesMatch'
    <3>1. FramesMatch BY DEF FrameParts
    <3> QED BY <1>1, <1>2, <1>3, <3>1 DEF FramesMatch, HasRow, Gone
  <2>2. ProcessingHolds' /\ OneProcessor'
    BY <1>1, <1>2, <1>3 DEF FrameParts, ProcessingHolds, OneProcessor,
       Processing, Gone
  <2>3. OpenCompletionHoldsRun' /\ DraftSeen'
    BY <1>1, <1>2, <1>3 DEF FrameParts, OpenCompletionHoldsRun, DraftSeen
  <2>4. ProcessedIn(Y)'
    <3>1. ProcessedIn(Y) BY DEF FrameParts
    <3>2. \A g \in Files : Derived(KindOf[g]) \subseteq Variants
      BY ConstantsAssumption, DerivedType
    <3>3. ASSUME NEW g \in Y, NEW w \in Variants, object[g][w] = "declared"
          PROVE  object'[g][w] = "declared"
      BY <1>3, <3>3
    <3>4. ASSUME NEW p \in Requests, p # q, req[p].file \in Y
          PROVE  /\ req[p].pc \in {"scan", "derive"} =>
                      object'[req[p].file]["original"] = "declared"
                 /\ req[p].pc = "derive" =>
                      \A w \in Derived(KindOf[req[p].file]) \ req[p].left :
                        object'[req[p].file][w] = "declared"
      BY <3>1, <3>2, <3>3, <3>4 DEF ProcessedIn, Variants
    <3>5. ASSUME f \in Y
          PROVE  /\ object'[f]["original"] = "declared"
                 /\ req[q].bytes = "declared"
                 /\ \A w \in Derived(KindOf[f]) \ (req[q].left \ {v}) :
                      object'[f][w] = "declared"
      <4>1. /\ object[f]["original"] = "declared" /\ req[q].bytes = "declared"
            /\ \A w \in Derived(KindOf[f]) \ req[q].left :
                 object[f][w] = "declared"
        BY <1>1, <3>1, <3>5 DEF ProcessedIn
      <4>2. object'[f][v] = "declared" /\ f \in Files
        BY <1>1, <1>3, <3>5
      <4> QED BY <3>2, <3>3, <3>5, <4>1, <4>2 DEF Variants
    <3>6. \A p \in Requests : p # q /\ req[p].file \in Y /\ req[p].pc = "derive"
            => req[p].bytes = "declared"
      BY <3>1 DEF ProcessedIn
    <3> QED
      BY <1>2, <3>4, <3>5, <3>6 DEF ProcessedIn
  <2> QED BY <2>1, <2>2, <2>3, <2>4 DEF FrameParts
<1> QED BY <1>4, <1>5

(* A file being processed gets its verdict and its handler ends, while the *)
(* runs stay or are quarantined.                                           *)
LEMMA VerdictKeepsFrameParts ==
  ASSUME TypeOK, NEW Y \in SUBSET Files, FrameParts(Y), Released,
         NEW q \in Requests, Processing(q), req'[q] = Idle,
         UNCHANGED <<upload, object>>,
         \A g \in Files : g # req[q].file => fileState'[g] = fileState[g],
         fileState'[req[q].file] # "none",
         \A r \in Runs : \/ runState'[r] = runState[r]
                        \/ /\ runState[r] # "deleted"
                           /\ runState'[r] = "quarantined"
  PROVE  FrameParts(Y)'
<1> DEFINE f == req[q].file
<1>1. \A p \in Requests :
        \/ req'[p] = req[p]
        \/ req'[p].pc = "idle" /\ req'[p].file = None
  BY IdleType DEF Released
<1>2. req'[q].pc = "idle" /\ req'[q].file = None
  BY IdleType
<1>3. /\ f \in Files
      /\ \A p \in Requests : Processing(p) /\ p # q => req[p].file # f
      /\ \A p \in Requests : req[p].pc \in {"init_sent", "init_done"} =>
           req[p].file # f
  BY AwaitingFile DEF FrameParts, FramesMatch, OneProcessor, Processing
<1>4. \A p \in Requests : req[p].pc # "idle" =>
        /\ req[p].file \in Files /\ req[p].file # None
        /\ RunOf[req[p].file] \in Runs
  BY AwaitingFile, NoneAssumption
<1>5. FramesMatch'
  <2>1. FramesMatch BY DEF FrameParts
  <2> QED BY <1>1, <1>2, <1>3, <1>4, <2>1 DEF FramesMatch, HasRow, Gone
<1>6. ProcessingHolds' /\ OneProcessor'
  BY <1>1, <1>2, <1>3, <1>4 DEF FrameParts, ProcessingHolds, OneProcessor,
     Processing, Gone
<1>7. OpenCompletionHoldsRun' /\ DraftSeen' /\ ProcessedIn(Y)'
  BY <1>1, <1>4 DEF FrameParts, OpenCompletionHoldsRun, DraftSeen,
     ProcessedIn
<1> QED BY <1>5, <1>6, <1>7 DEF FrameParts

(* If the row went while the file was being processed, its handler ends    *)
(* and changes nothing: there is no row to mark and no run to move.        *)
LEMMA GoneFileKeeps ==
  ASSUME TypeOK, NEW Y \in SUBSET Files, RowParts(Y), FrameParts(Y),
         NEW q \in Requests, Finish(q) \/ Reject(q) \/ CrashMidReject(q),
         Gone(req[q].file)
  PROVE  RowParts(Y)' /\ FrameParts(Y)'
<1> DEFINE f == req[q].file
<1>1. f \in Files /\ RunOf[f] \in Runs
  BY AwaitingFile DEF Finish, Reject, CrashMidReject, Refused
<1>2. ~HasRow(f) /\ ~HasRunRow(RunOf[f]) /\ ~CanMove(RunOf[f], "quarantined")
  BY <1>1 DEF Gone, RowParts, FilesOfRuns, HasRunRow, CanMove, RunTransitions,
     RunStates
<1>3. QuietRows
  BY <1>1, <1>2 DEF Finish, Reject, CrashMidReject, SetRejected, AddFinding,
     QuietRows, minio, TypeOK
<1>4. Released
  BY GotoIdleReleases DEF Finish, Reject, CrashMidReject, AllIdle, Released
<1> QED BY <1>3, <1>4, QuietKeepsRowParts, ReleaseKeepsFrameParts

(* A file becomes ready when all its objects are written,                  *)
LEMMA FinishKeeps ==
  ASSUME TypeOK, NEW Y \in SUBSET Files, RowParts(Y), FrameParts(Y),
         NEW q \in Requests, Finish(q), ~Gone(req[q].file)
  PROVE  RowParts(Y)' /\ FrameParts(Y)'
<1> DEFINE f == req[q].file
<1>1. /\ f \in Files /\ req[q].pc = "derive" /\ req[q].left = {}
      /\ fileState[f] = "pending" /\ upload[f] = "gone"
      /\ runState[RunOf[f]] # "draft"
      /\ f \in Y =>
           /\ object[f]["original"] = "declared"
           /\ \A v \in Derived(KindOf[f]) : object[f][v] = "declared"
  BY AwaitingFile DEF Finish, FrameParts, ProcessingHolds, DraftSeen,
     ProcessedIn, Processing
<1>2. /\ UNCHANGED <<runState, findings, upload, object>>
      /\ fileState'[f] = "ready"
      /\ \A g \in Files : g # f => fileState'[g] = fileState[g]
  BY <1>1 DEF Finish, minio, TypeOK, HasRow
<1>3. RowParts(Y)'
  <2>1. FilesOfRuns' /\ VerdictClosesUpload' /\ NoReadyFileInDraft'
    BY <1>1, <1>2 DEF RowParts, FilesOfRuns, VerdictClosesUpload,
       NoReadyFileInDraft, HasRow, HasRunRow
  <2>2. PublishedHoldsNoRejected'
    BY <1>1, <1>2 DEF RowParts, PublishedHoldsNoRejected, FilesOf, HasRow
  <2>3. ServedIn(Y)'
    BY <1>1, <1>2 DEF RowParts, ServedIn, Served
  <2>4. QuarantineExplained'
    BY <1>1, <1>2 DEF RowParts, QuarantineExplained, FilesOf, HasRow
  <2> QED BY <2>1, <2>2, <2>3, <2>4 DEF RowParts
<1>4. Processing(q) /\ req'[q] = Idle /\ Released
  BY <1>1, GotoFrames, GotoIdleReleases DEF Finish, Processing
<1> QED BY <1>2, <1>3, <1>4, VerdictKeepsFrameParts

(* or is rejected, and its run, if it moves, has the finding that says why.*)
LEMMA RejectKeeps ==
  ASSUME TypeOK, NEW Y \in SUBSET Files, RowParts(Y), FrameParts(Y),
         NEW q \in Requests,
         Reject(q) \/ CrashMidReject(q), ~Gone(req[q].file)
  PROVE  RowParts(Y)' /\ FrameParts(Y)'
<1> DEFINE f == req[q].file
           r == RunOf[f]
<1>1. /\ f \in Files /\ r \in Runs
      /\ fileState[f] = "pending" /\ upload[f] = "gone"
      /\ runState[r] # "published"
      /\ Processing(q)
  BY AwaitingFile DEF Reject, CrashMidReject, Refused, FrameParts,
     ProcessingHolds, Processing
<1>2. HasRow(f) /\ HasRunRow(r)
  BY <1>1 DEF RowParts, FilesOfRuns, HasRow
<1>3. /\ UNCHANGED <<upload, object>>
      /\ findings \subseteq findings'
      /\ fileState'[f] = "rejected"
      /\ \A g \in Files : g # f => fileState'[g] = fileState[g]
  BY <1>1, <1>2 DEF Reject, CrashMidReject, SetRejected, AddFinding, minio,
     TypeOK
<1>4. /\ \A s \in Runs : s # r => runState'[s] = runState[s]
      /\ \/ runState'[r] = runState[r]
         \/ /\ runState'[r] = "quarantined" /\ runState[r] # "deleted"
            /\ <<r, f>> \in findings'
  BY <1>1, <1>2 DEF Gone, Reject, CrashMidReject, AddFinding, TypeOK
<1>5. RowParts(Y)'
  <2>1. FilesOfRuns' /\ VerdictClosesUpload' /\ NoReadyFileInDraft'
    BY <1>1, <1>2, <1>3, <1>4, ConstantsAssumption DEF RowParts, FilesOfRuns,
       VerdictClosesUpload, NoReadyFileInDraft, HasRow, HasRunRow, RunStates
  <2>2. PublishedHoldsNoRejected'
    BY <1>1, <1>3, <1>4 DEF RowParts, PublishedHoldsNoRejected, FilesOf, HasRow
  <2>3. ServedIn(Y)'
    BY <1>1, <1>3 DEF RowParts, ServedIn
  <2>4. QuarantineExplained'
    BY <1>1, <1>3, <1>4 DEF RowParts, QuarantineExplained, FilesOf, HasRow
  <2> QED BY <2>1, <2>2, <2>3, <2>4 DEF RowParts
<1>6. req'[q] = Idle /\ Released
  BY GotoFrames, GotoIdleReleases DEF Reject, CrashMidReject, AllIdle, Released
<1> QED BY <1>1, <1>3, <1>4, <1>5, <1>6, VerdictKeepsFrameParts

(* A new run has no files.                                                 *)
LEMMA CreateRunKeeps ==
  ASSUME TypeOK, NEW Y \in SUBSET Files, RowParts(Y), FrameParts(Y),
         NEW r \in Runs, CreateRun(r)
  PROVE  RowParts(Y)' /\ FrameParts(Y)'
<1>1. /\ UNCHANGED <<fileState, findings, upload, object, req>>
      /\ runState[r] = "none" /\ runState'[r] = "draft"
      /\ \A s \in Runs : s # r => runState'[s] = runState[s]
  BY DEF CreateRun, minio, TypeOK
<1>2. \A f \in Files : HasRow(f) => RunOf[f] \in Runs /\ RunOf[f] # r
  BY <1>1, ConstantsAssumption DEF RowParts, FilesOfRuns, HasRunRow, RunStates
<1>3. RowParts(Y)'
  <2>1. FilesOfRuns' /\ VerdictClosesUpload' /\ NoReadyFileInDraft'
    BY <1>1, <1>2 DEF RowParts, FilesOfRuns, VerdictClosesUpload,
       NoReadyFileInDraft, HasRow, HasRunRow
  <2>2. PublishedHoldsNoRejected' /\ ServedIn(Y)'
    BY <1>1 DEF RowParts, PublishedHoldsNoRejected, ServedIn,
       FilesOf, HasRow
  <2>3. QuarantineExplained'
    BY <1>1 DEF RowParts, QuarantineExplained, FilesOf, HasRow
  <2> QED BY <2>1, <2>2, <2>3 DEF RowParts
<1>4. FrameParts(Y)'
  <2>1. \A q \in Requests :
          req[q].pc \notin {"idle", "init_sent", "init_done"} =>
            RunOf[req[q].file] \in Runs /\ RunOf[req[q].file] # r
    BY <1>1, <1>2, AwaitingFile DEF FrameParts, FramesMatch, Gone
  <2>2. FramesMatch' /\ OneProcessor' /\ ProcessedIn(Y)'
    BY <1>1, <2>1 DEF FrameParts, FramesMatch, OneProcessor, Processing,
       ProcessedIn, HasRow, Gone
  <2>3. ProcessingHolds' /\ OpenCompletionHoldsRun' /\ DraftSeen'
    BY <1>1, <2>1 DEF FrameParts, ProcessingHolds, Processing, Gone,
       OpenCompletionHoldsRun, DraftSeen
  <2> QED BY <2>2, <2>3 DEF FrameParts
<1> QED BY <1>3, <1>4

(* Publishing needs every file ready, so none is being processed.          *)
LEMMA PublishRunKeeps ==
  ASSUME TypeOK, NEW Y \in SUBSET Files, RowParts(Y), FrameParts(Y),
         NEW r \in Runs, NEW p \in PublicIds,
         \/ \E u \in Urls \cup {None} : Commit(r, p, u)
         \/ CrashMidPublish(r, p)
  PROVE  RowParts(Y)' /\ FrameParts(Y)'
<1>1. /\ UNCHANGED <<fileState, findings, upload, object>>
      /\ Released
      /\ Publishable(r)
      /\ runState[r] # "deleted" /\ runState'[r] = "published"
      /\ \A s \in Runs : s # r => runState'[s] = runState[s]
  BY DEF Commit, CrashMidPublish, PublishRun, minio, TypeOK, Released, AllIdle,
     CanMove, RunTransitions, RunStates
<1>2. \A f \in Files : RunOf[f] = r /\ HasRow(f) =>
        fileState[f] = "ready" /\ upload[f] = "gone"
  BY <1>1 DEF Publishable, FilesOf, RowParts, VerdictClosesUpload, Verdicts
<1>3. RowParts(Y)'
  <2>1. FilesOfRuns' /\ VerdictClosesUpload' /\ NoReadyFileInDraft'
    BY <1>1, ConstantsAssumption DEF RowParts, FilesOfRuns, NoReadyFileInDraft,
       VerdictClosesUpload, HasRow, HasRunRow, RunStates
  <2>2. PublishedHoldsNoRejected'
    BY <1>1, <1>2 DEF RowParts, PublishedHoldsNoRejected, FilesOf, HasRow
  <2>3. ServedIn(Y)'
    BY <1>1 DEF RowParts, ServedIn
  <2>4. QuarantineExplained'
    BY <1>1 DEF RowParts, QuarantineExplained, FilesOf, HasRow
  <2> QED BY <2>1, <2>2, <2>3, <2>4 DEF RowParts
<1>4. FrameParts(Y)'
  <2>1. \A q \in Requests :
          \/ req'[q] = req[q]
          \/ req'[q].pc = "idle" /\ req'[q].file = None
    BY <1>1, IdleType DEF Released
  <2>2. \A q \in Requests : req[q].pc # "idle" =>
          /\ req[q].file \in Files /\ req[q].file # None
          /\ RunOf[req[q].file] \in Runs
    BY AwaitingFile, NoneAssumption
  <2>3. FramesMatch'
    <3>1. FramesMatch BY DEF FrameParts
    <3> QED BY <1>1, <2>1, <2>2, <3>1 DEF FramesMatch, HasRow, Gone
  <2>4. ProcessingHolds' /\ OneProcessor'
    BY <1>1, <1>2, <2>1, <2>2 DEF FrameParts, ProcessingHolds,
       OneProcessor, Processing, HasRow, Gone
  <2>5. OpenCompletionHoldsRun'
    <3>1. \A q \in Requests : req[q].pc = "complete_sent" =>
            HasRow(req[q].file) \/ Gone(req[q].file)
      BY DEF FrameParts, FramesMatch
    <3> QED
      BY <1>1, <1>2, <2>1, <2>2, <3>1 DEF FrameParts, OpenCompletionHoldsRun,
         Gone
  <2>6. DraftSeen' /\ ProcessedIn(Y)'
    BY <1>1, <2>1, <2>2 DEF FrameParts, DraftSeen, ProcessedIn
  <2> QED BY <2>3, <2>4, <2>5, <2>6 DEF FrameParts
<1> QED BY <1>3, <1>4

(* Archiving only takes a run out of reach.                                *)
LEMMA ArchiveKeeps ==
  ASSUME TypeOK, NEW Y \in SUBSET Files, RowParts(Y), FrameParts(Y),
         NEW r \in Runs, Archive(r)
  PROVE  RowParts(Y)' /\ FrameParts(Y)'
<1>1. /\ UNCHANGED <<fileState, findings, upload, object, req>>
      /\ \A s \in Runs :
           \/ runState'[s] = runState[s]
           \/ runState[s] # "deleted" /\ runState'[s] = "archived"
  BY DEF Archive, minio, TypeOK, CanMove, RunTransitions, RunStates
<1>2. RowParts(Y)'
  <2>1. FilesOfRuns' /\ VerdictClosesUpload' /\ NoReadyFileInDraft'
    BY <1>1, ConstantsAssumption DEF RowParts, FilesOfRuns, NoReadyFileInDraft,
       VerdictClosesUpload, HasRow, HasRunRow, RunStates
  <2>2. PublishedHoldsNoRejected' /\ ServedIn(Y)'
    BY <1>1 DEF RowParts, PublishedHoldsNoRejected, ServedIn,
       FilesOf, HasRow
  <2>3. QuarantineExplained'
    BY <1>1 DEF RowParts, QuarantineExplained, FilesOf, HasRow
  <2> QED BY <2>1, <2>2, <2>3 DEF RowParts
<1>3. FrameParts(Y)'
  <2>1. \A q \in Requests : req[q].pc # "idle" => RunOf[req[q].file] \in Runs
    BY AwaitingFile
  <2>2. FramesMatch' /\ OneProcessor' /\ ProcessedIn(Y)'
    BY <1>1, <2>1 DEF FrameParts, FramesMatch, OneProcessor, Processing,
       ProcessedIn, HasRow, Gone
  <2>3. ProcessingHolds' /\ OpenCompletionHoldsRun' /\ DraftSeen'
    BY <1>1, <2>1 DEF FrameParts, ProcessingHolds, Processing, Gone,
       OpenCompletionHoldsRun, DraftSeen
  <2> QED BY <2>2, <2>3 DEF FrameParts
<1> QED BY <1>2, <1>3
-----------------------------------------------------------------------------
(* Nothing exists at first, and nothing has been deleted.                  *)
LEMMA InitParts ==
  ASSUME Init, NEW Y \in SUBSET Files
  PROVE  RowParts(Y) /\ FrameParts(Y) /\ NothingDeleted
<1>1. /\ \A f \in Files : fileState[f] = "none"
      /\ \A r \in Runs : runState[r] = "none"
      /\ \A q \in Requests : req[q].pc = "idle"
  BY IdleType DEF Init
<1>2. RowParts(Y)
  BY <1>1, ConstantsAssumption DEF RowParts, FilesOfRuns, VerdictClosesUpload,
     PublishedHoldsNoRejected, ServedIn, QuarantineExplained,
     NoReadyFileInDraft, HasRow, Verdicts
<1>3. FrameParts(Y)
  BY <1>1 DEF FrameParts, FramesMatch, ProcessingHolds, OpenCompletionHoldsRun,
     DraftSeen, ProcessedIn, OneProcessor, Processing
<1> QED BY <1>1, <1>2, <1>3 DEF NothingDeleted

LEMMA InitEstablishes ==
  ASSUME Init
  PROVE  IndInv
BY InitParts, InitTypes, IndInvParts

(* Every step of the gateway keeps the parts, for the same files Y.        *)
LEMMA GatewayKeepsParts ==
  ASSUME TypeOK, NEW Y \in SUBSET Files, RowParts(Y), FrameParts(Y), [Next]_vars
  PROVE  RowParts(Y)' /\ FrameParts(Y)'
<1>1. ASSUME NEW q \in Requests, RequestStep(q)
      PROVE  RowParts(Y)' /\ FrameParts(Y)'
  <2>1. CASE QuietStep(q)
    BY <2>1, QuietSteps
  <2>2. CASE \/ PartResume(q) \/ AbortResume(q) \/ CallFails(q)
             \/ CrashMidComplete(q)
    BY <2>2, ReleasingSteps
  <2>3. CASE MinioCreate(q) \/ InitResume(q)
    BY <2>3, MinioCreateKeeps, InitResumeKeeps
  <2>4. CASE MinioComplete(q) \/ CompleteResume(q) \/ MinioAbort(q)
    BY <2>4, MinioCompleteKeeps, CompleteResumeKeeps, MinioAbortKeeps
  <2>5. CASE \E v \in Variants : Derive(q, v)
    BY <2>5, DeriveKeeps
  <2>6. CASE Finish(q) \/ Reject(q) \/ CrashMidReject(q)
    BY <2>6, FinishKeeps, RejectKeeps, GoneFileKeeps
  <2> QED
    BY <1>1, <2>1, <2>2, <2>3, <2>4, <2>5, <2>6 DEF RequestStep, QuietStep
<1>2. ASSUME NEW r \in Runs, RunStep(r)
      PROVE  RowParts(Y)' /\ FrameParts(Y)'
  BY <1>2, CreateRunKeeps, QuietRunSteps, PublishRunKeeps, ArchiveKeeps
     DEF RunStep
<1>3. CASE Crash \/ UNCHANGED vars
  BY <1>3, CrashAndStutter
<1> QED BY <1>1, <1>2, <1>3 DEF Next

(* No handler deletes a run.                                               *)
LEMMA GatewayDeletesNothing ==
  ASSUME TypeOK, [Next]_vars, NEW r \in Runs, runState'[r] = "deleted"
  PROVE  runState[r] = "deleted"
<1>1. CASE UNCHANGED runState
  BY <1>1
<1>2. ASSUME NEW s, NEW to \in RunStates,
             runState' = [runState EXCEPT ![s] = to]
      PROVE  runState[r] = "deleted"
  BY <1>2 DEF TypeOK, RunStates
<1>3. ASSUME NEW q \in Requests, RequestStep(q)
      PROVE  runState[r] = "deleted"
  <2>1. CASE CompleteResume(q)
    BY <1>1, <1>2, <2>1 DEF CompleteResume, RunStates
  <2>2. CASE Reject(q)
    BY <2>2 DEF Reject, TypeOK
  <2>3. UNCHANGED runState \/ CompleteResume(q) \/ Reject(q)
    BY <1>3 DEF RequestStep, InitFile, CompleteStart, AbortStart, PutPart,
       MinioCreate, InitResume, MinioPart, PartResume, MinioComplete,
       MinioAbort, AbortResume, VerifyPass, ScanPass, Finish, Derive,
       CallFails, CrashMidComplete, CrashMidReject, rows
  <2> QED BY <1>1, <2>1, <2>2, <2>3
<1>4. ASSUME NEW s \in Runs, RunStep(s)
      PROVE  runState[r] = "deleted"
  BY <1>1, <1>2, <1>4 DEF RunStep, CreateRun, InitRejected, Archive, Prepare,
     CrashMidPublish, Commit, PublishRun, LinkComment, RunStates
<1> QED BY <1>1, <1>3, <1>4 DEF Next, Crash, vars, rows

(* Every step keeps the invariant.                                         *)
LEMMA NextPreserves ==
  ASSUME IndInv, [Next]_vars
  PROVE  IndInv'
<1>1. /\ TypeOK /\ NothingDeleted
      /\ RowParts(Files) /\ FrameParts(Files)
  BY IndInvParts
<1>2. TypeOK'
  BY <1>1, NextTypes
<1>3. RowParts(Files)' /\ FrameParts(Files)'
  BY <1>1, GatewayKeepsParts
<1>4. NothingDeleted'
  BY <1>1, GatewayDeletesNothing DEF NothingDeleted
<1> QED BY <1>2, <1>3, <1>4, IndInvParts, PTL

(* The invariant that carries every result below.                          *)
THEOREM InvariantHolds == Spec => []IndInv
BY InitEstablishes, NextPreserves, PTL DEF Spec

(* A published run holds no refused file: publish sees every row between   *)
(* two awaits, and a file whose bytes are still being judged is pending,   *)
(* which publish refuses.                                                  *)
THEOREM NoRejectedFileIsPublished == Spec => []PublishedHoldsNoRejected
BY InvariantHolds, PTL DEF IndInv

(* What readers are sent was verified: a verdict ends the file's upload,   *)
(* and MinIO completes an upload once.                                     *)
THEOREM OnlyVerifiedBytesAreServed == Spec => []ServedBytesVerified
BY InvariantHolds, PTL DEF IndInv

(* A quarantine can always be explained by a refused file.                 *)
THEOREM QuarantineHasAFinding == Spec => []QuarantineExplained
BY InvariantHolds, PTL DEF IndInv

(* Of two complete requests for one file MinIO lets one go on to process.  *)
THEOREM FilesAreProcessedOnce == Spec => []OneProcessor
BY InvariantHolds, PTL DEF IndInv

(* The state complete read before its await is no older than it matters.   *)
THEOREM ReadyFilesLeaveDraft == Spec => []NoReadyFileInDraft
BY InvariantHolds, PTL DEF IndInv
-----------------------------------------------------------------------------
(* What a step can do to one file.                                         *)
FileStep(f) ==
  \/ fileState'[f] = fileState[f]
  \/ fileState[f] = "none" /\ fileState'[f] = "pending"
  \/ /\ fileState[f] = "pending" /\ fileState'[f] \in Verdicts
     /\ runState[RunOf[f]] # "published"

(* Which steps change the state of a file, and from what.                  *)
LEMMA FileSteps ==
  ASSUME TypeOK, NEW Y \in SUBSET Files, RowParts(Y), FrameParts(Y), [Next]_vars
  PROVE  \A f \in Files : FileStep(f)
<1>1. CASE UNCHANGED fileState
  BY <1>1 DEF FileStep
<1>2. ASSUME NEW q \in Requests, InitResume(q)
      PROVE  \A f \in Files : FileStep(f)
  <2>1. req[q].file \in Files /\ fileState[req[q].file] = "none"
    BY <1>2, AwaitingFile DEF FrameParts, InitResume, FramesMatch, HasRow
  <2> QED BY <1>2, <2>1 DEF TypeOK, InitResume, FileStep
<1>3. ASSUME NEW q \in Requests, Finish(q) \/ Reject(q) \/ CrashMidReject(q)
      PROVE  \A f \in Files : FileStep(f)
  <2> DEFINE f == req[q].file
  <2>1. /\ f \in Files /\ RunOf[f] \in Runs
        /\ fileState[f] = "pending" \/ Gone(f)
        /\ runState[RunOf[f]] # "published"
    BY <1>3, AwaitingFile DEF FrameParts, Finish, Reject, CrashMidReject,
       Refused, ProcessingHolds, Processing
  <2>2. fileState[f] = "pending" \/ ~HasRow(f)
    BY <2>1 DEF RowParts, FilesOfRuns, HasRunRow, RunStates, Gone
  <2> QED
    BY <1>3, <2>1, <2>2 DEF TypeOK, Finish, Reject, CrashMidReject,
       SetRejected, HasRow, FileStep, Verdicts
<1>4. ASSUME NEW q \in Requests, RequestStep(q)
      PROVE  \A f \in Files : FileStep(f)
  BY <1>1, <1>2, <1>3, <1>4 DEF RequestStep, InitFile, CompleteStart, AbortStart,
     PutPart, MinioCreate, MinioPart, PartResume, MinioComplete,
     CompleteResume, MinioAbort, AbortResume, VerifyPass, ScanPass, Derive,
     CallFails, CrashMidComplete, rows
<1>5. ASSUME NEW r \in Runs, RunStep(r)
      PROVE  UNCHANGED fileState
  BY <1>5 DEF RunStep, CreateRun, InitRejected, Archive, Prepare,
     CrashMidPublish, Commit, LinkComment
<1>6. ASSUME Crash \/ UNCHANGED vars
      PROVE  UNCHANGED fileState
  BY <1>6 DEF Crash, vars, rows
<1> QED BY <1>1, <1>4, <1>5, <1>6 DEF Next

(* No step of any handler decides again about a file.                      *)
THEOREM VerdictsAreFinal == Spec => VerdictIsFinal
<1>1. ASSUME IndInv, [Next]_vars
      PROVE  [\A f \in Files : fileState[f] \in Verdicts =>
                fileState'[f] = fileState[f]]_vars
  <2>1. \A f \in Files : FileStep(f)
    BY <1>1, FileSteps, IndInvParts
  <2> QED BY <2>1 DEF FileStep, Verdicts
<1> QED BY <1>1, InvariantHolds, PTL DEF Spec, VerdictIsFinal
-----------------------------------------------------------------------------
(* The refinement of EvidencePublication.                                  *)
LEMMA PublicationInit ==
  ASSUME Init
  PROVE  Publication!Init
<1>1. \A r \in Runs : Phase(r) = "private" /\ Shown(r) = {}
  BY DEF Init, Phase, Shown
<1> QED BY <1>1 DEF Init, Publication!Init

(* A run that does not move shows what it showed.                          *)
LEMMA ShownStays ==
  ASSUME NEW r \in Runs, \A f \in Files : FileStep(f),
         runState'[r] = runState[r]
  PROVE  Phase(r)' = Phase(r) /\ Shown(r)' = Shown(r)
<1>1. Phase(r)' = Phase(r)
  BY DEF Phase
<1>2. CASE runState[r] = "published"
  <2>1. \A f \in Files : RunOf[f] = r =>
          (fileState'[f] = "ready" <=> fileState[f] = "ready")
    BY <1>2 DEF FileStep, Verdicts
  <2> QED BY <1>1, <1>2, <2>1 DEF Shown, FilesOf, HasRow
<1>3. CASE runState[r] # "published"
  BY <1>1, <1>3 DEF Shown
<1> QED BY <1>2, <1>3

(* and when every run does, EvidencePublication stutters.                  *)
LEMMA Unseen ==
  ASSUME \A r \in Runs : Phase(r)' = Phase(r) /\ Shown(r)' = Shown(r),
         UNCHANGED publicId
  PROVE  UNCHANGED Publication!vars
  BY DEF Publication!vars

(* Moves between draft and processing are not seen either;                 *)
LEMMA MoveInPrivate ==
  ASSUME TypeOK, NEW r \in Runs, NEW to \in {"draft", "processing"},
         runState[r] \in {"none", "draft", "processing"},
         runState' = [runState EXCEPT ![r] = to],
         UNCHANGED publicId, \A f \in Files : FileStep(f)
  PROVE  UNCHANGED Publication!vars
<1>1. /\ runState'[r] = to
      /\ \A s \in Runs : s # r => runState'[s] = runState[s]
  BY DEF TypeOK
<1>2. Phase(r)' = Phase(r) /\ Shown(r)' = Shown(r)
  BY <1>1 DEF Phase, Shown
<1> QED BY <1>1, <1>2, ShownStays, Unseen

(* a move to quarantine is Hold.                                           *)
LEMMA MoveToHeld ==
  ASSUME TypeOK, NEW r \in Runs, runState[r] \in {"draft", "processing"},
         runState' = [runState EXCEPT ![r] = "quarantined"],
         UNCHANGED publicId, \A f \in Files : FileStep(f)
  PROVE  Publication!Next
<1>1. /\ runState'[r] = "quarantined"
      /\ \A s \in Runs : s # r => runState'[s] = runState[s]
  BY DEF TypeOK
<1>2. Phase(r) = "private" /\ Phase(r)' = "held" /\ Shown(r)' = Shown(r)
  BY <1>1 DEF Phase, Shown
<1>3. \A s \in Runs : s # r => Phase(s)' = Phase(s) /\ Shown(s)' = Shown(s)
  BY <1>1, ShownStays
<1>4. [s \in Runs |-> Phase(s)]' =
        [[s \in Runs |-> Phase(s)] EXCEPT ![r] = "held"]
  BY <1>2, <1>3
<1>5. [s \in Runs |-> Shown(s)]' = [s \in Runs |-> Shown(s)]
  BY <1>2, <1>3
<1>6. Publication!Hold(r)
  BY <1>2, <1>4, <1>5 DEF Publication!Hold
<1> QED BY <1>6 DEF Publication!Next

(* A step of a handler is a stutter or a Hold.                             *)
LEMMA RequestsRefine ==
  ASSUME TypeOK, NEW q \in Requests, RequestStep(q),
         \A f \in Files : FileStep(f)
  PROVE  [Publication!Next]_(Publication!vars)
<1> DEFINE r == RunOf[req[q].file]
<1>1. UNCHANGED publicId
  BY DEF RequestStep, InitFile, CompleteStart, AbortStart, PutPart, MinioCreate,
     InitResume, MinioPart, PartResume, MinioComplete, CompleteResume,
     MinioAbort, AbortResume, VerifyPass, ScanPass, Finish, Reject, Derive,
     CallFails, CrashMidComplete, CrashMidReject, rows
<1>2. CASE UNCHANGED runState
  BY <1>1, <1>2, ShownStays, Unseen
<1>3. CASE CompleteResume(q) /\ runState' # runState
  <2>1. r \in Runs /\ runState[r] = "draft"
        /\ runState' = [runState EXCEPT ![r] = "processing"]
    BY <1>3, AwaitingFile DEF CompleteResume, CanMove, RunTransitions, TypeOK,
       RunStates
  <2> QED BY <1>1, <2>1, MoveInPrivate
<1>4. CASE Reject(q) /\ runState' # runState
  <2>1. r \in Runs /\ runState' =
          [runState EXCEPT ![r] = IF CanMove(r, "quarantined")
                                    THEN "quarantined" ELSE runState[r]]
    BY <1>4, AwaitingFile DEF Reject, Refused
  <2>2. CanMove(r, "quarantined")
    BY <1>4, <2>1 DEF TypeOK
  <2>3. runState[r] \in {"draft", "processing"}
    BY <2>1, <2>2 DEF CanMove, RunTransitions, TypeOK, RunStates
  <2> QED BY <1>1, <2>1, <2>2, <2>3, MoveToHeld
<1>5. UNCHANGED runState \/ CompleteResume(q) \/ Reject(q)
  BY DEF RequestStep, InitFile, CompleteStart, AbortStart, PutPart, MinioCreate,
     InitResume, MinioPart, PartResume, MinioComplete,
     MinioAbort, AbortResume, VerifyPass, ScanPass, Finish, Derive,
     CallFails, CrashMidComplete, CrashMidReject, rows
<1> QED BY <1>2, <1>3, <1>4, <1>5

(* Publishing is Expose, with the ready files of the run, or stutters.     *)
LEMMA PublishRefines ==
  ASSUME TypeOK, NEW r \in Runs, NEW p \in PublicIds, PublishRun(r, p),
         UNCHANGED fileState
  PROVE  [Publication!Next]_(Publication!vars)
<1>1. /\ runState'[r] = "published"
      /\ \A s \in Runs : s # r => runState'[s] = runState[s]
  BY DEF PublishRun, TypeOK
<1>2. \A s \in Runs : s # r => Phase(s)' = Phase(s) /\ Shown(s)' = Shown(s)
  BY <1>1, ShownStays DEF FileStep
<1>3. publicId[r] = p \/ (publicId[r] = None /\ \A s \in Runs : publicId[s] # p)
  BY DEF PublishRun, PublicIdFor, FreshPublicId
<1>4. publicId' = [publicId EXCEPT ![r] = p]
  BY DEF PublishRun
<1>5. CASE runState[r] = "published"
  <2>1. Phase(r)' = Phase(r) /\ Shown(r)' = Shown(r) /\ Phase(r) = "public"
    BY <1>1, <1>5, ShownStays DEF FileStep, Phase
  <2>2. /\ [s \in Runs |-> Phase(s)]' = [s \in Runs |-> Phase(s)]
        /\ [s \in Runs |-> Shown(s)]' = [s \in Runs |-> Shown(s)]
    BY <1>2, <2>1
  <2>3. Publication!Reserve(r, p)
    BY <1>3, <1>4, <2>1, <2>2 DEF Publication!Reserve, Publication!Fits
  <2> QED BY <2>3 DEF Publication!Next
<1>6. CASE runState[r] # "published"
  <2>1. runState[r] = "processing"
    BY <1>6 DEF PublishRun, CanMove, RunTransitions, TypeOK, RunStates
  <2>2. Phase(r) = "private" /\ Phase(r)' = "public"
    BY <1>1, <2>1 DEF Phase
  <2>3. Shown(r)' = FilesOf(r)
    BY <1>1 DEF Shown, FilesOf, HasRow, PublishRun, Publishable
  <2>4. FilesOf(r) \in SUBSET Files /\ FilesOf(r) # {}
    BY DEF FilesOf, PublishRun, Publishable
  <2>5. [s \in Runs |-> Phase(s)]' =
          [[s \in Runs |-> Phase(s)] EXCEPT ![r] = "public"]
    BY <1>2, <2>2
  <2>6. [s \in Runs |-> Shown(s)]' =
          [[s \in Runs |-> Shown(s)] EXCEPT ![r] = FilesOf(r)]
    BY <1>2, <2>3
  <2>7. Publication!Expose(r, p)
    BY <1>3, <1>4, <2>2, <2>4, <2>5, <2>6 DEF Publication!Expose,
       Publication!Fits
  <2> QED BY <2>4, <2>7 DEF Publication!Next
<1> QED BY <1>5, <1>6

(* Every other request is one action of EvidencePublication or a stutter.  *)
LEMMA RunsRefine ==
  ASSUME TypeOK, NEW r \in Runs, RunStep(r), \A f \in Files : FileStep(f)
  PROVE  [Publication!Next]_(Publication!vars)
<1>1. CASE InitRejected(r) \/ \E u \in Urls : LinkComment(r, u)
  BY <1>1, ShownStays, Unseen DEF InitRejected, LinkComment
<1>2. CASE CreateRun(r)
  BY <1>2, MoveInPrivate DEF CreateRun
<1>3. CASE Archive(r)
  <2>1. /\ runState'[r] = "archived"
        /\ runState[r] \in {"draft", "published", "quarantined"}
        /\ \A s \in Runs : s # r => runState'[s] = runState[s]
    BY <1>3 DEF Archive, CanMove, RunTransitions, TypeOK, RunStates
  <2>2. Phase(r) # "withdrawn" /\ Phase(r)' = "withdrawn" /\ Shown(r)' = {}
    BY <2>1 DEF Phase, Shown
  <2>3. \A s \in Runs : s # r => Phase(s)' = Phase(s) /\ Shown(s)' = Shown(s)
    BY <2>1, ShownStays
  <2>4. [s \in Runs |-> Phase(s)]' =
          [[s \in Runs |-> Phase(s)] EXCEPT ![r] = "withdrawn"]
    BY <2>2, <2>3
  <2>5. [s \in Runs |-> Shown(s)]' = [[s \in Runs |-> Shown(s)] EXCEPT ![r] = {}]
    BY <2>2, <2>3
  <2>6. Publication!Withdraw(r)
    BY <1>3, <2>2, <2>4, <2>5 DEF Archive, Publication!Withdraw
  <2> QED BY <2>6 DEF Publication!Next
<1>4. ASSUME NEW p \in PublicIds, Prepare(r, p)
      PROVE  [Publication!Next]_(Publication!vars)
  <2>1. Phase(r) # "held"
    BY <1>4 DEF Prepare, Publishable, Phase
  <2>2. publicId[r] = p \/ (publicId[r] = None /\ \A s \in Runs : publicId[s] # p)
    BY <1>4 DEF Prepare, PublicIdFor, FreshPublicId
  <2>3. \A s \in Runs : Phase(s)' = Phase(s) /\ Shown(s)' = Shown(s)
    BY <1>4, ShownStays DEF Prepare
  <2>4. /\ [s \in Runs |-> Phase(s)]' = [s \in Runs |-> Phase(s)]
        /\ [s \in Runs |-> Shown(s)]' = [s \in Runs |-> Shown(s)]
    BY <2>3
  <2>5. Publication!Reserve(r, p)
    BY <1>4, <2>1, <2>2, <2>4 DEF Prepare, Publication!Reserve,
       Publication!Fits
  <2> QED BY <2>5 DEF Publication!Next
<1>5. CASE \E p \in PublicIds :
             \/ CrashMidPublish(r, p)
             \/ \E u \in Urls \cup {None} : Commit(r, p, u)
  BY <1>5, PublishRefines DEF CrashMidPublish, Commit
<1> QED BY <1>1, <1>2, <1>3, <1>4, <1>5 DEF RunStep

(* Readers of public links get what EvidencePublication promises them.     *)
THEOREM GatewayKeepsPromise == Spec => PublicationPromise
<1>1. ASSUME IndInv, [Next]_vars
      PROVE  [Publication!Next]_(Publication!vars)
  <2>1. TypeOK /\ \A f \in Files : FileStep(f)
    BY <1>1, FileSteps, IndInvParts
  <2>2. ASSUME Crash \/ UNCHANGED vars
        PROVE  [Publication!Next]_(Publication!vars)
    <3>1. UNCHANGED <<runState, publicId>>
      BY <2>2 DEF Crash, vars, rows
    <3> QED BY <2>1, <3>1, ShownStays, Unseen
  <2> QED BY <1>1, <2>1, <2>2, RequestsRefine, RunsRefine DEF Next
<1> QED
  BY <1>1, PublicationInit, InvariantHolds, PTL
     DEF Spec, PublicationPromise, Publication!Spec

-----------------------------------------------------------------------------
(* The ceiling.  A handler between the test of the ceiling and the row of  *)
(* its file will add at most one file, so the files of a run and the       *)
(* handlers about to add one are counted together.                         *)
Adding(r) ==
  {q \in Requests : req[q].pc \in {"init_sent", "init_done"}
                    /\ RunOf[req[q].file] = r}

CeilingInv ==
  \A r \in Runs :
    Cardinality(FilesOf(r)) + Cardinality(Adding(r))
      < RunLimit + Cardinality(Requests)

LEMMA Counts ==
  /\ RunLimit \in Nat \ {0}
  /\ IsFiniteSet(Requests) /\ Cardinality(Requests) \in Nat
  /\ \A r : /\ IsFiniteSet(FilesOf(r)) /\ Cardinality(FilesOf(r)) \in Nat
            /\ IsFiniteSet(Adding(r)) /\ Cardinality(Adding(r)) \in Nat
            /\ Cardinality(Adding(r)) <= Cardinality(Requests)
<1>1. IsFiniteSet(Files) /\ IsFiniteSet(Requests)
  BY ConstantsAssumption
<1>2. ASSUME NEW r
      PROVE  /\ IsFiniteSet(FilesOf(r)) /\ IsFiniteSet(Adding(r))
             /\ Cardinality(Adding(r)) <= Cardinality(Requests)
  <2>1. FilesOf(r) \in SUBSET Files /\ Adding(r) \in SUBSET Requests
    BY DEF FilesOf, Adding
  <2> QED
    BY <1>1, <2>1, FS_Subset
<1> QED
  BY <1>1, <1>2, FS_CardinalityType, ConstantsAssumption

(* The same of the sets a step leads to.                                   *)
LEMMA CountsNext ==
  \A r : /\ IsFiniteSet(FilesOf(r)') /\ Cardinality(FilesOf(r)') \in Nat
         /\ IsFiniteSet(Adding(r)') /\ Cardinality(Adding(r)') \in Nat
         /\ Cardinality(Adding(r)') <= Cardinality(Requests)
<1>1. IsFiniteSet(Files) /\ IsFiniteSet(Requests)
  BY ConstantsAssumption
<1>2. ASSUME NEW r
      PROVE  /\ IsFiniteSet(FilesOf(r)') /\ IsFiniteSet(Adding(r)')
             /\ Cardinality(Adding(r)') <= Cardinality(Requests)
  <2>1. FilesOf(r)' \in SUBSET Files /\ Adding(r)' \in SUBSET Requests
    BY DEF FilesOf, Adding
  <2> QED
    BY <1>1, <2>1, FS_Subset
<1> QED
  BY <1>1, <1>2, FS_CardinalityType

(* What a step does to the two sets of one run: nothing is added to        *)
(* either, or a handler has just seen the run below its ceiling, or a      *)
(* handler turns into the file it was adding.                              *)
NoneAdded(r) == FilesOf(r)' \subseteq FilesOf(r) /\ Adding(r)' \subseteq Adding(r)

HandlerAdded(r) ==
  Cardinality(FilesOf(r)) < RunLimit /\ FilesOf(r)' \subseteq FilesOf(r)

FileAdded(r) ==
  \E q \in Adding(r), f \in Files :
    FilesOf(r)' \subseteq FilesOf(r) \cup {f} /\ Adding(r)' \subseteq Adding(r) \ {q}

LEMMA CountedStep ==
  ASSUME CeilingInv, NEW r \in Runs,
         NoneAdded(r) \/ HandlerAdded(r) \/ FileAdded(r)
  PROVE  Cardinality(FilesOf(r)') + Cardinality(Adding(r)')
           < RunLimit + Cardinality(Requests)
<1>0. Cardinality(FilesOf(r)) + Cardinality(Adding(r))
        < RunLimit + Cardinality(Requests)
  BY DEF CeilingInv
<1>1. CASE NoneAdded(r)
  <2>1. /\ Cardinality(FilesOf(r)') <= Cardinality(FilesOf(r))
        /\ Cardinality(Adding(r)') <= Cardinality(Adding(r))
    BY <1>1, Counts, FS_Subset DEF NoneAdded
  <2> QED
    BY <1>0, <2>1, Counts, CountsNext
<1>2. CASE HandlerAdded(r)
  <2>1. Cardinality(FilesOf(r)') <= Cardinality(FilesOf(r))
    BY <1>2, Counts, FS_Subset DEF HandlerAdded
  <2>2. Cardinality(FilesOf(r)) < RunLimit
    BY <1>2 DEF HandlerAdded
  <2> QED
    BY <2>1, <2>2, Counts, CountsNext
<1>3. CASE FileAdded(r)
  <2>1. PICK q \in Adding(r), f \in Files :
          /\ FilesOf(r)' \subseteq FilesOf(r) \cup {f}
          /\ Adding(r)' \subseteq Adding(r) \ {q}
    BY <1>3 DEF FileAdded
  <2>2. /\ IsFiniteSet(FilesOf(r) \cup {f})
        /\ Cardinality(FilesOf(r) \cup {f}) <= Cardinality(FilesOf(r)) + 1
    BY Counts, FS_AddElement
  <2>3. /\ IsFiniteSet(Adding(r) \ {q})
        /\ Cardinality(Adding(r) \ {q}) = Cardinality(Adding(r)) - 1
    BY <2>1, Counts, FS_RemoveElement
  <2>4. Cardinality(FilesOf(r)') <= Cardinality(FilesOf(r) \cup {f})
    BY <2>1, <2>2, FS_Subset
  <2>5. Cardinality(Adding(r)') <= Cardinality(Adding(r) \ {q})
    BY <2>1, <2>3, FS_Subset
  <2>6. Cardinality(FilesOf(r) \cup {f}) \in Nat
    BY <2>2, FS_CardinalityType
  <2> QED
    BY <1>0, <2>2, <2>3, <2>4, <2>5, <2>6, Counts, CountsNext
<1> QED
  BY <1>1, <1>2, <1>3

(* Most steps give no file a row and put no handler before its createFile. *)
LEMMA NoneAddedBy ==
  ASSUME \A f \in Files : fileState'[f] # "none" => fileState[f] # "none",
         \A q \in Requests :
           req'[q].pc \in {"init_sent", "init_done"} =>
             /\ req[q].pc \in {"init_sent", "init_done"}
             /\ req'[q].file = req[q].file,
         NEW r \in Runs
  PROVE  NoneAdded(r)
BY DEF NoneAdded, FilesOf, HasRow, Adding

(* So a handler that goes on to something else, and a process that ends.   *)
LEMMA NoneAddedByGoing ==
  ASSUME TypeOK, NEW q \in Requests, NEW frame, Goto(q, frame),
         frame.pc \notin {"init_sent", "init_done"},
         \A f \in Files : fileState'[f] # "none" => fileState[f] # "none",
         NEW r \in Runs
  PROVE  NoneAdded(r)
<1>1. req' = [req EXCEPT ![q] = frame] /\ DOMAIN req = Requests
  BY DEF Goto, TypeOK
<1> QED
  BY <1>1, NoneAddedBy

LEMMA NoneAddedByEnd ==
  ASSUME AllIdle \/ req' = req,
         \A f \in Files : fileState'[f] # "none" => fileState[f] # "none",
         NEW r \in Runs
  PROVE  NoneAdded(r)
<1>1. CASE AllIdle
  <2>1. \A q \in Requests : req'[q].pc = "idle"
    BY <1>1, IdleType DEF AllIdle
  <2> QED
    BY <2>1, NoneAddedBy
<1>2. CASE req' = req
  BY <1>2, NoneAddedBy
<1> QED
  BY <1>1, <1>2

LEMMA RequestsCounted ==
  ASSUME TypeOK, NEW q \in Requests, RequestStep(q), NEW r \in Runs
  PROVE  NoneAdded(r) \/ HandlerAdded(r) \/ FileAdded(r)
<1> DEFINE g == req[q].file
           Kept == \A f \in Files : fileState'[f] # "none" => fileState[f] # "none"
<1>a. ASSUME NEW pc, Step(q, pc), pc \notin {"init_sent", "init_done"}, Kept
      PROVE  NoneAdded(r)
  <2>1. [req[q] EXCEPT !.pc = pc].pc = pc
    BY DEF TypeOK, Frames
  <2> QED
    BY <1>a, <2>1, NoneAddedByGoing DEF Step
<1>b. ASSUME Goto(q, Idle), Kept PROVE NoneAdded(r)
  BY <1>b, IdleType, NoneAddedByGoing
<1>c. ASSUME UNCHANGED fileState PROVE Kept
  BY <1>c
<1>1. ASSUME NEW f \in Files, InitFile(q, f)
      PROVE  NoneAdded(r) \/ HandlerAdded(r)
  <2>1. req' = [req EXCEPT ![q] = At("init_sent", f)] /\ fileState' = fileState
    BY <1>1 DEF InitFile, Goto, rows
  <2>2. At("init_sent", f).file = f
    BY AtType DEF AwaitPcs
  <2>3. CASE RunOf[f] = r
    BY <1>1, <2>1, <2>3 DEF InitFile, BelowLimit, HandlerAdded, FilesOf, HasRow
  <2>4. CASE RunOf[f] # r
    BY <2>1, <2>2, <2>4 DEF NoneAdded, FilesOf, HasRow, Adding, TypeOK
  <2> QED
    BY <2>3, <2>4
<1>2. ASSUME NEW f \in Files, CompleteStart(q, f) \/ AbortStart(q, f)
      PROVE  NoneAdded(r)
  <2>1. CASE AbortStart(q, f)
    <3>1. At("abort_sent", f).pc = "abort_sent"
      BY AtType DEF AwaitPcs
    <3> QED
      BY <2>1, <3>1, <1>c, NoneAddedByGoing DEF AbortStart, rows
  <2>2. CASE CompleteStart(q, f)
    <3> DEFINE frame == [At("complete_sent", f) EXCEPT
                           !.draft = (runState[RunOf[f]] = "draft"),
                           !.parts = recorded[f]]
    <3>1. frame.pc = "complete_sent"
      BY AtType DEF AwaitPcs, Frames
    <3>2. Goto(q, frame) /\ Kept
      BY <2>2, <1>c DEF CompleteStart, rows
    <3> QED
      BY <3>1, <3>2, NoneAddedByGoing
  <2> QED
    BY <1>2, <2>1, <2>2
<1>3. ASSUME NEW f \in Files, NEW n \in PartNumbers, NEW b \in Bodies,
             PutPart(q, f, n, b)
      PROVE  NoneAdded(r)
  <2> DEFINE frame == [At("part_sent", f) EXCEPT
                         !.parts = [NoParts EXCEPT ![n] = b]]
  <2>1. frame.pc = "part_sent"
    BY AtType DEF AwaitPcs, Frames
  <2>2. Goto(q, frame) /\ Kept
    BY <1>3, <1>c DEF PutPart, rows
  <2> QED
    BY <2>1, <2>2, NoneAddedByGoing
<1>4. CASE MinioCreate(q)
  <2>1. \A p \in Requests :
          req'[p].pc \in {"init_sent", "init_done"} =>
            /\ req[p].pc \in {"init_sent", "init_done"}
            /\ req'[p].file = req[p].file
    BY <1>4 DEF MinioCreate, Step, Goto, TypeOK, Frames
  <2> QED
    BY <1>4, <2>1, NoneAddedBy DEF MinioCreate, rows
<1>5. CASE InitResume(q)
  <2>1. /\ req[q].pc = "init_done" /\ g \in Files
        /\ req' = [req EXCEPT ![q] = Idle]
    BY <1>5 DEF InitResume, Goto, TypeOK
  <2>2. \A f \in Files \ {g} : fileState'[f] = fileState[f]
    BY <1>5 DEF InitResume, TypeOK
  <2>3. \A p \in Requests : Idle.pc = "idle" /\
          req'[p] = IF p = q THEN Idle ELSE req[p]
    BY <2>1, IdleType DEF TypeOK
  <2>4. CASE RunOf[g] = r
    <3>1. q \in Adding(r)
      BY <2>1, <2>4 DEF Adding
    <3>2. FilesOf(r)' \subseteq FilesOf(r) \cup {g}
      BY <2>2 DEF FilesOf, HasRow
    <3>3. Adding(r)' \subseteq Adding(r) \ {q}
      BY <2>3 DEF Adding
    <3> QED
      BY <2>1, <3>1, <3>2, <3>3 DEF FileAdded
  <2>5. CASE RunOf[g] # r
    BY <2>2, <2>3, <2>5 DEF NoneAdded, FilesOf, HasRow, Adding
  <2> QED
    BY <2>4, <2>5
<1>6. CASE MinioPart(q) \/ MinioComplete(q) \/ MinioAbort(q) \/ VerifyPass(q)
  BY <1>6, <1>a, <1>c
     DEF MinioPart, MinioComplete, MinioAbort, VerifyPass, rows
<1>7. CASE PartResume(q) \/ AbortResume(q) \/ CallFails(q)
  BY <1>7, <1>b, <1>c DEF PartResume, AbortResume, CallFails, rows
<1>8. CASE CompleteResume(q)
  BY <1>8, <1>a, <1>b, <1>c DEF CompleteResume
<1>9. CASE ScanPass(q)
  <2> DEFINE frame == [req[q] EXCEPT !.pc = "derive",
                         !.bytes = object[g]["original"],
                         !.left = Derived(KindOf[g])]
  <2>1. frame.pc = "derive"
    BY DEF TypeOK, Frames
  <2>2. Goto(q, frame) /\ Kept
    BY <1>9, <1>c DEF ScanPass, rows
  <2> QED
    BY <2>1, <2>2, NoneAddedByGoing
<1>10. ASSUME NEW v \in Variants, Derive(q, v) PROVE NoneAdded(r)
  <2> DEFINE frame == [req[q] EXCEPT !.left = @ \ {v}]
  <2>1. frame.pc = "derive"
    BY <1>10 DEF Derive, TypeOK, Frames
  <2>2. Goto(q, frame) /\ Kept
    BY <1>10, <1>c DEF Derive, rows
  <2> QED
    BY <2>1, <2>2, NoneAddedByGoing
<1>11. ASSUME SetRejected(g) PROVE Kept
  BY <1>11 DEF SetRejected, HasRow, TypeOK
<1>12. CASE Finish(q)
  <2>1. Kept
    BY <1>12 DEF Finish, HasRow, TypeOK
  <2> QED
    BY <1>12, <1>b, <2>1 DEF Finish
<1>13. CASE Reject(q)
  BY <1>13, <1>11, <1>b DEF Reject
<1>14. CASE CrashMidReject(q)
  BY <1>14, <1>11, NoneAddedByEnd DEF CrashMidReject
<1>15. CASE CrashMidComplete(q)
  BY <1>15, <1>c, NoneAddedByEnd DEF CrashMidComplete
<1> QED
  BY <1>1, <1>2, <1>3, <1>4, <1>5, <1>6, <1>7, <1>8, <1>9, <1>10, <1>12,
     <1>13, <1>14, <1>15 DEF RequestStep

LEMMA CeilingInit ==
  ASSUME Init
  PROVE  CeilingInv
<1> SUFFICES ASSUME NEW r \in Runs
             PROVE  Cardinality(FilesOf(r)) + Cardinality(Adding(r))
                      < RunLimit + Cardinality(Requests)
  BY DEF CeilingInv
<1>1. FilesOf(r) = {} /\ Adding(r) = {}
  BY IdleType DEF Init, FilesOf, HasRow, Adding
<1> QED
  BY <1>1, FS_EmptySet, Counts

(* Every step of the gateway keeps the count.                              *)
LEMMA CeilingKept ==
  ASSUME TypeOK, CeilingInv, [Next]_vars
  PROVE  CeilingInv'
<1> SUFFICES ASSUME NEW r \in Runs
             PROVE  Cardinality(FilesOf(r)') + Cardinality(Adding(r)')
                      < RunLimit + Cardinality(Requests)
  BY DEF CeilingInv
<1> SUFFICES NoneAdded(r) \/ HandlerAdded(r) \/ FileAdded(r)
  BY CountedStep
<1>1. ASSUME NEW q \in Requests, RequestStep(q)
      PROVE  NoneAdded(r) \/ HandlerAdded(r) \/ FileAdded(r)
  BY <1>1, RequestsCounted
<1>2. ASSUME UNCHANGED fileState, AllIdle \/ req' = req PROVE NoneAdded(r)
  BY <1>2, NoneAddedByEnd
<1>3. ASSUME NEW s \in Runs, RunStep(s) PROVE NoneAdded(r)
  BY <1>2, <1>3 DEF RunStep, CreateRun, InitRejected, Archive, Prepare,
     CrashMidPublish, Commit, LinkComment
<1>4. CASE Crash \/ UNCHANGED vars
  BY <1>2, <1>4 DEF Crash, vars, rows
<1> QED
  BY <1>1, <1>3, <1>4 DEF Next

LEMMA CeilingMeaning ==
  ASSUME CeilingInv
  PROVE  CeilingOvershootBounded
BY Counts DEF CeilingInv, CeilingOvershootBounded

(* Concurrent inits take a run past its ceiling by fewer files than there  *)
(* are handlers, for any number of files and handlers                      *)
(* (CeilingOvershootBounded; security.ts, preflightUpload).                *)
THEOREM OvershootIsBounded == Spec => []CeilingOvershootBounded
BY CeilingInit, CeilingKept, CeilingMeaning, TypesCorrect, PTL DEF Spec
=============================================================================
