------------------------- MODULE EvidencePublisher -------------------------
(***************************************************************************)
(* How a run of evidence reaches its pull request: the command line's      *)
(* upload (cli/index.ts, runUpload) and any number of publish commands on  *)
(* the same run (publishRun), between the gateway, which reserves an       *)
(* address and later makes it reachable, and GitHub, where the comment     *)
(* with the addresses is found by its marker and created or rewritten      *)
(* (cli/github.ts, upsertRunComment).                                      *)
(*                                                                         *)
(* There is one run.  A call is one step of whom it calls and of the       *)
(* caller that has the answer.  A call that does not arrive, an answer     *)
(* that is lost and a process that is killed look alike from outside: the  *)
(* caller ends, and what its calls did before stays (Stop).  gh is stopped *)
(* after two minutes; GitHub may carry its request out later, or not.      *)
(***************************************************************************)
EXTENDS Naturals, Sequences, FiniteSets

CONSTANTS
  Files,       \* the files given to upload
  Publishers,  \* places for processes that publish the run
  PublicIds,   \* what newPublicId can draw
  MaxFaults,   \* bound: calls and processes that fail
  None

VARIABLES
  runState,   \* evidence_runs.state, "none" before there is a row
  publicId,   \* evidence_runs.public_id
  fileState,  \* evidence_files.processing_state, "none" before there is a row
  commentUrl, \* evidence_runs.github_comment_url: a comment, 0 for NULL
  comments,   \* the comments with the run's marker, in GitHub's order
  late,       \* late[p]: a request of a gh that was stopped, or None
  uploader,   \* the upload command: what it does next, and to which file
  job,        \* job[p]: the publish command in place p
  faults,     \* how many calls and processes have failed
  outlived    \* history: creations of a comment that have outlived their gh

gateway == <<runState, publicId, fileState, commentUrl>>
github == <<comments, late>>
vars == <<gateway, github, uploader, job, faults, outlived>>

ASSUME PublisherAssumption ==
  /\ IsFiniteSet(Files) /\ Files # {} /\ IsFiniteSet(Publishers)
  /\ MaxFaults \in Nat
  /\ None \notin PublicIds \cup Files
-----------------------------------------------------------------------------
Bodies == [link : PublicIds, files : SUBSET Files]

(* A write of a comment: over comment number `over`, or a new one for 0.   *)
Writes == [over : Nat, body : Bodies]

Jobs == [pc : {"idle", "prepare", "find", "write", "commit"},
         link : PublicIds \cup {None}, files : SUBSET Files, comment : Nat]

NoJob == [pc |-> "idle", link |-> None, files |-> {}, comment |-> 0]

HasRow(f) == fileState[f] # "none"

Rows == {f \in Files : HasRow(f)}

ReadyFiles == {f \in Files : fileState[f] = "ready"}

IsOpen == runState \in {"draft", "processing"}

Init ==
  /\ runState = "none" /\ publicId = None /\ commentUrl = 0
  /\ fileState = [f \in Files |-> "none"]
  /\ comments = <<>>
  /\ late = [p \in Publishers |-> None]
  /\ uploader = [pc |-> "create", file |-> None]
  /\ job = [p \in Publishers |-> NoJob]
  /\ faults = 0 /\ outlived = 0

UploaderGoes(pc, f) == uploader' = [pc |-> pc, file |-> f]

Goes(p, pc) == job' = [job EXCEPT ![p].pc = pc]

Ends(p) == job' = [job EXCEPT ![p] = NoJob]

Fault == faults < MaxFaults /\ faults' = faults + 1
-----------------------------------------------------------------------------
(* dreambau-evidence upload: a run of its own, then file after file.       *)
CreateRun ==
  /\ uploader.pc = "create"
  /\ runState' = "draft"
  /\ UploaderGoes("next", None)
  /\ UNCHANGED <<publicId, fileState, commentUrl, github, job, faults, outlived>>

InitFile(f) ==
  /\ uploader.pc = "next" /\ IsOpen /\ ~HasRow(f)
  /\ fileState' = [fileState EXCEPT ![f] = "pending"]
  /\ UploaderGoes("complete", f)
  /\ UNCHANGED <<runState, publicId, commentUrl, github, job, faults, outlived>>

(* The parts are there: complete processes the file and answers "ready".   *)
CompleteReady ==
  /\ uploader.pc = "complete" /\ IsOpen
  /\ fileState' = [fileState EXCEPT ![uploader.file] = "ready"]
  /\ runState' = "processing"
  /\ UploaderGoes("next", None)
  /\ UNCHANGED <<publicId, commentUrl, github, job, faults, outlived>>

(* It answers 422: the file was refused, and uploadOneFile throws.         *)
CompleteRejected ==
  /\ uploader.pc = "complete" /\ IsOpen
  /\ fileState' = [fileState EXCEPT ![uploader.file] = "rejected"]
  /\ runState' = "quarantined"
  /\ UploaderGoes("failed", None)
  /\ UNCHANGED <<publicId, commentUrl, github, job, faults, outlived>>

(* Any other answer of the gateway (409, run_not_open) ends it too.        *)
UploadRefused ==
  /\ uploader.pc \in {"next", "complete"} /\ ~IsOpen
  /\ uploader.pc = "next" => Rows # Files
  /\ UploaderGoes("failed", None)
  /\ UNCHANGED <<gateway, github, job, faults, outlived>>

UploadDone ==
  /\ uploader.pc = "next" /\ Rows = Files
  /\ UploaderGoes("done", None)
  /\ UNCHANGED <<gateway, github, job, faults, outlived>>

UploaderStops ==
  /\ uploader.pc \in {"create", "next", "complete"}
  /\ Fault
  /\ UploaderGoes("failed", None)
  /\ UNCHANGED <<gateway, github, job, outlived>>
-----------------------------------------------------------------------------
(* publishRun, by `upload --publish` or by a publish command on the run:   *)
(* getRun finds the run; then prepare.                                     *)
Start(p) ==
  /\ job[p].pc = "idle" /\ runState # "none"
  /\ Goes(p, "prepare")
  /\ UNCHANGED <<gateway, github, uploader, faults, outlived>>

(* A gateway that takes a run whose address is reserved for published.     *)
PublishableOnce ==
  /\ publicId = None
  /\ Rows # {} /\ runState # "quarantined" /\ Rows = ReadyFiles

(* What both stages of POST /publish require of the rows.                  *)
Publishable ==
  Rows # {} /\ runState # "quarantined" /\ Rows = ReadyFiles

(* An UPDATE without COALESCE.                                             *)
OverwrittenId(p) == p

(* reservePublicId and publishRun keep the id the run has.                 *)
KeptId(p) == IF publicId = None THEN p ELSE publicId

(* prepare fixes the address; the comment is rendered from its answer.     *)
Prepare(p, drawn) ==
  /\ job[p].pc = "prepare" /\ Publishable
  /\ publicId' = KeptId(drawn)
  /\ job' = [job EXCEPT ![p] = [pc |-> "find", link |-> KeptId(drawn),
                                files |-> ReadyFiles, comment |-> 0]]
  /\ UNCHANGED <<runState, fileState, commentUrl, github, uploader, faults,
                 outlived>>

PrepareRefused(p) ==
  /\ job[p].pc = "prepare" /\ ~Publishable
  /\ Ends(p)
  /\ UNCHANGED <<gateway, github, uploader, faults, outlived>>

(* A search that does not know the marker.                                 *)
NeverMarked == 0

(* The first comment of the pull request with the run's marker.            *)
FirstMarked == IF comments = <<>> THEN 0 ELSE 1

(* p is about to create a comment.                                         *)
Creating(p) == job[p].pc = "write" /\ job[p].comment = 0

Find(p) ==
  /\ job[p].pc = "find"
  /\ job' = [job EXCEPT ![p].pc = "write", ![p].comment = FirstMarked]
  /\ UNCHANGED <<gateway, github, uploader, faults, outlived>>

Body(p) == [link |-> job[p].link, files |-> job[p].files]

Written(w) == IF w.over = 0 THEN Append(comments, w.body)
                            ELSE [comments EXCEPT ![w.over] = w.body]

(* POST or PATCH, answered.                                                *)
Write(p) ==
  /\ job[p].pc = "write"
  /\ comments' = Written([over |-> job[p].comment, body |-> Body(p)])
  /\ job' = [job EXCEPT ![p].pc = "commit",
               ![p].comment = IF @ = 0 THEN Len(comments) + 1 ELSE @]
  /\ UNCHANGED <<gateway, late, uploader, faults, outlived>>

(* A command line that takes a failed gh for a comment written.            *)
GhRejectsIgnored(p) ==
  /\ job[p].pc \in {"find", "write"}
  /\ Fault
  /\ Goes(p, "commit")
  /\ UNCHANGED <<gateway, github, uploader, outlived>>

(* gh exits with an error and nothing was written: publishRun throws.      *)
GhRejects(p) ==
  /\ job[p].pc \in {"find", "write"}
  /\ Fault
  /\ Ends(p)
  /\ UNCHANGED <<gateway, github, uploader, outlived>>

(* gh is stopped, or left behind, with its request on the way.             *)
GhTimesOut(p) ==
  /\ job[p].pc = "write" /\ late[p] = None
  /\ Fault
  /\ late' = [late EXCEPT ![p] = [over |-> job[p].comment, body |-> Body(p)]]
  /\ outlived' = IF Creating(p) THEN outlived + 1 ELSE outlived
  /\ Ends(p)
  /\ UNCHANGED <<gateway, comments, uploader>>

GithubLate(p) ==
  /\ late[p] # None
  /\ \/ comments' = Written(late[p])
     \/ UNCHANGED comments
  /\ late' = [late EXCEPT ![p] = None]
  /\ UNCHANGED <<gateway, uploader, job, faults, outlived>>

MayPublish == Publishable /\ runState \in {"processing", "published"}

PublishRun(drawn) ==
  /\ MayPublish
  /\ runState' = "published"
  /\ publicId' = KeptId(drawn)

(* commit makes the addresses reachable and records the comment.           *)
Commit(p, drawn) ==
  /\ job[p].pc = "commit"
  /\ PublishRun(drawn)
  /\ commentUrl' = job[p].comment
  /\ Ends(p)
  /\ UNCHANGED <<fileState, github, uploader, faults, outlived>>

CommitRefused(p) ==
  /\ job[p].pc = "commit" /\ ~MayPublish
  /\ Ends(p)
  /\ UNCHANGED <<gateway, github, uploader, faults, outlived>>

(* The gateway stops between publishRun and setGithubCommentUrl.           *)
CrashMidCommit(p, drawn) ==
  /\ job[p].pc = "commit"
  /\ PublishRun(drawn)
  /\ Fault
  /\ Ends(p)
  /\ UNCHANGED <<fileState, commentUrl, github, uploader, outlived>>

(* A call of p fails, loses its answer, or p is killed.                    *)
Stop(p) ==
  /\ job[p].pc # "idle"
  /\ Fault
  /\ Ends(p)
  /\ UNCHANGED <<gateway, github, uploader, outlived>>

(* dreambau-evidence archive                                               *)
Archive ==
  /\ runState \in {"draft", "quarantined", "published"}
  /\ runState' = "archived"
  /\ UNCHANGED <<publicId, fileState, commentUrl, github, uploader, job,
                 faults, outlived>>
-----------------------------------------------------------------------------
UploaderWorks ==
  \/ CreateRun \/ CompleteReady \/ CompleteRejected
  \/ UploadRefused \/ UploadDone
  \/ \E f \in Files : InitFile(f)

PublisherWorks(p) ==
  \/ Start(p) \/ PrepareRefused(p) \/ Find(p) \/ Write(p) \/ CommitRefused(p)
  \/ \E id \in PublicIds : Prepare(p, id) \/ Commit(p, id)

PublisherFails(p) ==
  \/ GhRejects(p) \/ GhTimesOut(p) \/ Stop(p)
  \/ \E id \in PublicIds : CrashMidCommit(p, id)

Next ==
  \/ UploaderWorks \/ UploaderStops \/ Archive
  \/ \E p \in Publishers : PublisherWorks(p) \/ PublisherFails(p) \/ GithubLate(p)

Spec == Init /\ [][Next]_vars

(* Whoever publishes goes on, and tries again when it failed.              *)
FairSpec == Spec /\ \A p \in Publishers : WF_vars(PublisherWorks(p))
-----------------------------------------------------------------------------
(* The rows, comments, requests and processes have the values the code     *)
(* gives them (store.ts; cli/github.ts; cli/index.ts).                     *)
TypeOK ==
  /\ runState \in {"none", "draft", "processing", "quarantined", "published",
                   "archived"}
  /\ publicId \in PublicIds \cup {None}
  /\ fileState \in [Files -> {"none", "pending", "ready", "rejected"}]
  /\ commentUrl \in Nat
  /\ comments \in Seq(Bodies)
  /\ late \in [Publishers -> Writes \cup {None}]
  /\ uploader \in [pc : {"create", "next", "complete", "done", "failed"},
                   file : Files \cup {None}]
  /\ job \in [Publishers -> Jobs]
  /\ faults \in 0..MaxFaults
  /\ outlived \in 0..faults

(* Every comment ever written carries the one address of the run, whoever  *)
(* rendered it and whenever: no link in a pull request goes stale ("so an  *)
(* existing link never changes underneath a comment", store.ts:374-376).   *)
LinksNeverChange ==
  \A i \in DOMAIN comments : comments[i].link = publicId

(* No address is reachable before the pull request records it: a published *)
(* run has a comment, and no comment shows a file that readers cannot open *)
(* (router.ts:245-250; cli/index.ts:244-246).                              *)
PublishedIsAnnounced ==
  runState = "published" =>
    /\ comments # <<>>
    /\ \A i \in DOMAIN comments : comments[i].files \subseteq ReadyFiles

(* However often a run is published and republished, its comments do not   *)
(* multiply: there are never more than commands that may publish it at     *)
(* once, and one for each creation that outlived its gh.  ("the same run   *)
(* always updates its own comment", cli/github.ts:79, is not kept: two     *)
(* commands that look before either writes create a comment each.)         *)
CommentsDoNotMultiply == Len(comments) <= Cardinality(Publishers) + outlived

(* A run whose upload has succeeded is published sooner or later if        *)
(* somebody keeps trying: no failure leaves it where publish is refused    *)
(* ("can simply be published again", router.ts:250).                       *)
RetryPublishes ==
  (uploader.pc = "done" /\ runState = "processing") ~> (runState = "published")
-----------------------------------------------------------------------------
(* What readers see of the run while it is uploaded, announced, published  *)
(* again and archived: EvidencePublication for this one run.               *)
Phase ==
  CASE runState = "published"   -> "public"
    [] runState = "quarantined" -> "held"
    [] runState = "archived"    -> "withdrawn"
    [] OTHER                    -> "private"

Shown == IF runState = "published" THEN ReadyFiles ELSE {}

TheRun == {"run"}

Publication == INSTANCE EvidencePublication WITH
  Runs <- TheRun,
  phase <- [r \in TheRun |-> Phase],
  link <- [r \in TheRun |-> publicId],
  shown <- [r \in TheRun |-> Shown]

(* The gateway the commands call keeps the promise the gateway's own model *)
(* keeps, whatever GitHub, retries and several publishers do around it.    *)
PublicationPromise == Publication!Spec
=============================================================================
