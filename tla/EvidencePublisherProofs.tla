------------------------ MODULE EvidencePublisherProofs ------------------------
(* Proofs about EvidencePublisher, for any files, publishers and ids.           *)
EXTENDS EvidencePublisher, TLAPS, SequenceTheorems, FiniteSetTheorems
-----------------------------------------------------------------------------
(* What a write makes of the comments of a pull request: one more or one     *)
(* rewritten, and the others as they were.                                   *)
LEMMA WrittenIs ==
  ASSUME comments \in Seq(Bodies), NEW w \in Writes
  PROVE  /\ Written(w) \in Seq(Bodies)
         /\ Len(Written(w)) = IF w.over = 0 THEN Len(comments) + 1
                                            ELSE Len(comments)
         /\ \A i \in DOMAIN Written(w) :
              \/ Written(w)[i] = w.body
              \/ i \in DOMAIN comments /\ Written(w)[i] = comments[i]
<1>0. w.over \in Nat /\ w.body \in Bodies
  BY DEF Writes
<1>1. CASE w.over = 0
  BY <1>0, <1>1 DEF Written
<1>2. CASE w.over # 0
  <2>1. Written(w) = [comments EXCEPT ![w.over] = w.body]
    BY <1>2 DEF Written
  <2>2. DOMAIN Written(w) = 1..Len(comments)
    BY <2>1
  <2>3. \A i \in 1..Len(comments) :
          Written(w)[i] = IF i = w.over THEN w.body ELSE comments[i]
    BY <2>1
  <2>4. \A i \in 1..Len(comments) : Written(w)[i] \in Bodies
    BY <1>0, <2>3
  <2>5. Written(w) = [i \in 1..Len(comments) |-> Written(w)[i]]
    BY <2>1, <2>2
  <2>6. Written(w) \in Seq(Bodies) /\ Len(Written(w)) = Len(comments)
    <3>1. Len(comments) \in Nat
      OBVIOUS
    <3>2. [i \in 1..Len(comments) |-> Written(w)[i]] \in Seq(Bodies)
      BY <2>4, <3>1, IsASeq
    <3> QED
      BY <2>2, <2>5, <3>1, <3>2, LenProperties
  <2> QED
    BY <1>2, <2>2, <2>3, <2>6
<1> QED
  BY <1>1, <1>2

LEMMA ReadyFilesAreFiles == ReadyFiles \in SUBSET Files
  BY DEF ReadyFiles

(* The three ways in which a publish command goes on.                        *)
LEMMA JobsStay ==
  ASSUME job \in [Publishers -> Jobs], NEW p \in Publishers
  PROVE  /\ Ends(p) => job' \in [Publishers -> Jobs]
         /\ \A pc \in {"prepare", "commit"} :
              Goes(p, pc) => job' \in [Publishers -> Jobs]
         /\ \A n \in Nat, pc \in {"write", "commit"} :
              [job EXCEPT ![p].pc = pc, ![p].comment = n]
                \in [Publishers -> Jobs]
<1>1. NoJob \in Jobs
  BY DEF NoJob, Jobs
<1>2. job[p] \in Jobs
  OBVIOUS
<1>3. \A pc \in {"prepare", "commit"} : [job[p] EXCEPT !.pc = pc] \in Jobs
  BY <1>2 DEF Jobs
<1>4. \A n \in Nat, pc \in {"write", "commit"} :
        [job[p] EXCEPT !.pc = pc, !.comment = n] \in Jobs
  BY <1>2 DEF Jobs
<1>5. \A pc \in {"prepare", "commit"} :
        [job EXCEPT ![p].pc = pc] \in [Publishers -> Jobs]
  BY <1>3
<1>6. \A n \in Nat, pc \in {"write", "commit"} :
        [job EXCEPT ![p].pc = pc, ![p].comment = n] \in [Publishers -> Jobs]
  BY <1>4
<1> QED
  BY <1>1, <1>5, <1>6 DEF Ends, Goes

(* A publish command that has prepared has the address of the run.           *)
Linked ==
  \A p \in Publishers :
    job[p].pc \in {"find", "write", "commit"} => job[p].link \in PublicIds

LEMMA WritesAreTyped ==
  ASSUME TypeOK, Linked, NEW p \in Publishers, job[p].pc = "write"
  PROVE  [over |-> job[p].comment, body |-> Body(p)] \in Writes
<1>1. job[p] \in Jobs /\ job[p].link \in PublicIds
  BY DEF TypeOK, Linked
<1> QED
  BY <1>1 DEF Jobs, Writes, Bodies, Body

LEMMA TypedAndLinked == Spec => [](TypeOK /\ Linked)
<1>1. Init => TypeOK /\ Linked
  <2> SUFFICES ASSUME Init PROVE TypeOK /\ Linked
    OBVIOUS
  <2>1. comments \in Seq(Bodies)
    BY EmptySeq DEF Init
  <2>2. faults \in 0..MaxFaults /\ outlived \in 0..faults
    BY PublisherAssumption DEF Init
  <2>3. NoJob \in Jobs
    BY DEF NoJob, Jobs
  <2> QED
    BY <2>1, <2>2, <2>3 DEF Init, TypeOK, Linked, NoJob
<1>2. TypeOK /\ Linked /\ [Next]_vars => TypeOK' /\ Linked'
  <2> SUFFICES ASSUME TypeOK, Linked, [Next]_vars PROVE TypeOK' /\ Linked'
    OBVIOUS
  <2> USE DEF TypeOK, Linked, gateway, github
  <2>0. /\ MaxFaults \in Nat
        /\ Fault => /\ faults' \in 0..MaxFaults
                    /\ outlived \in 0..faults' /\ outlived + 1 \in 0..faults'
    BY PublisherAssumption DEF Fault
  <2>1. CASE UNCHANGED vars
    BY <2>1 DEF vars
  <2>2. CASE CreateRun \/ CompleteReady \/ CompleteRejected
    BY <2>2 DEF CreateRun, CompleteReady, CompleteRejected, UploaderGoes
  <2>3. CASE UploadRefused \/ UploadDone \/ UploaderStops \/ Archive
    BY <2>0, <2>3 DEF UploadRefused, UploadDone, UploaderStops, Archive,
                      UploaderGoes
  <2>4. ASSUME NEW f \in Files, InitFile(f) PROVE TypeOK' /\ Linked'
    BY <2>4 DEF InitFile, UploaderGoes
  <2>5. ASSUME NEW p \in Publishers,
               Start(p) \/ PrepareRefused(p) \/ CommitRefused(p)
        PROVE  TypeOK' /\ Linked'
    <3>1. job' \in [Publishers -> Jobs]
      BY <2>5, JobsStay DEF Start, PrepareRefused, CommitRefused
    <3>2. TypeOK'
      BY <2>5, <3>1 DEF Start, PrepareRefused, CommitRefused
    <3>3. CASE Start(p)
      <4>1. Linked'
        BY <3>3 DEF Start, Goes, Jobs
      <4> QED
        BY <3>2, <4>1
    <3>4. CASE PrepareRefused(p) \/ CommitRefused(p)
      <4>1. Linked'
        BY <3>4 DEF PrepareRefused, CommitRefused, Ends, NoJob
      <4> QED
        BY <3>2, <4>1
    <3> QED
      BY <2>5, <3>3, <3>4
  <2>6. ASSUME NEW p \in Publishers, Find(p) PROVE TypeOK' /\ Linked'
    <3>1. outlived' \in 0..faults'
      BY <2>6 DEF Find
    <3>2. job' \in [Publishers -> Jobs]
      BY <2>6, JobsStay DEF Find, FirstMarked
    <3>3. TypeOK'
      BY <2>6, <3>1, <3>2 DEF Find
    <3>4. Linked'
      BY <2>6 DEF Find, Jobs
    <3> QED
      BY <3>3, <3>4
  <2>7. ASSUME NEW p \in Publishers, NEW id \in PublicIds, Prepare(p, id)
        PROVE  TypeOK' /\ Linked'
    <3>1. KeptId(id) \in PublicIds
      BY DEF KeptId
    <3>2. [pc |-> "find", link |-> KeptId(id), files |-> ReadyFiles,
           comment |-> 0] \in Jobs
      BY <3>1, ReadyFilesAreFiles DEF Jobs
    <3>3. TypeOK'
      BY <2>7, <3>1, <3>2 DEF Prepare
    <3>4. Linked'
      BY <2>7, <3>1 DEF Prepare
    <3> QED
      BY <3>3, <3>4
  <2>8. ASSUME NEW p \in Publishers, Write(p) PROVE TypeOK' /\ Linked'
    <3>1. [over |-> job[p].comment, body |-> Body(p)] \in Writes
      BY <2>8, WritesAreTyped DEF Write
    <3>2. comments' \in Seq(Bodies)
      BY <2>8, <3>1, WrittenIs DEF Write
    <3>3. (IF job[p].comment = 0 THEN Len(comments) + 1 ELSE job[p].comment) \in Nat
      <4>1. Len(comments) \in Nat
        BY LenProperties
      <4>2. job[p].comment \in Nat
        BY DEF Jobs
      <4> QED
        BY <4>1, <4>2
    <3>4. job' \in [Publishers -> Jobs]
      BY <2>8, <3>3, JobsStay DEF Write
    <3>5. TypeOK'
      BY <2>8, <3>2, <3>4 DEF Write
    <3>6. Linked'
      BY <2>8 DEF Write, Jobs
    <3> QED
      BY <3>5, <3>6
  <2>9. ASSUME NEW p \in Publishers, NEW id \in PublicIds,
               Commit(p, id) \/ CrashMidCommit(p, id)
        PROVE  TypeOK' /\ Linked'
    <3>1. KeptId(id) \in PublicIds /\ job[p].comment \in Nat
      BY DEF KeptId, Jobs
    <3>2. job' \in [Publishers -> Jobs]
      BY <2>9, JobsStay DEF Commit, CrashMidCommit
    <3>3. TypeOK'
      BY <2>0, <2>9, <3>1, <3>2 DEF Commit, CrashMidCommit, PublishRun
    <3>4. Linked'
      BY <2>9 DEF Commit, CrashMidCommit, Ends, NoJob
    <3> QED
      BY <3>3, <3>4
  <2>10. ASSUME NEW p \in Publishers, GhRejects(p) \/ Stop(p)
         PROVE  TypeOK' /\ Linked'
    <3>1. job' \in [Publishers -> Jobs]
      BY <2>10, JobsStay DEF GhRejects, Stop
    <3>2. TypeOK'
      BY <2>0, <2>10, <3>1 DEF GhRejects, Stop
    <3>3. Linked'
      BY <2>10 DEF GhRejects, Stop, Ends, NoJob
    <3> QED
      BY <3>2, <3>3
  <2>11. ASSUME NEW p \in Publishers, GhTimesOut(p) PROVE TypeOK' /\ Linked'
    <3>1. [over |-> job[p].comment, body |-> Body(p)] \in Writes
      BY <2>11, WritesAreTyped DEF GhTimesOut
    <3>2. outlived' \in 0..faults'
      BY <2>0, <2>11 DEF GhTimesOut
    <3>3. job' \in [Publishers -> Jobs]
      BY <2>11, JobsStay DEF GhTimesOut
    <3>4. TypeOK'
      BY <2>0, <2>11, <3>1, <3>2, <3>3 DEF GhTimesOut
    <3>5. Linked'
      BY <2>11 DEF GhTimesOut, Ends, NoJob
    <3> QED
      BY <3>4, <3>5
  <2>12. ASSUME NEW p \in Publishers, GithubLate(p) PROVE TypeOK' /\ Linked'
    <3>1. late[p] \in Writes
      BY <2>12 DEF GithubLate
    <3>2. comments' \in Seq(Bodies)
      BY <2>12, <3>1, WrittenIs DEF GithubLate
    <3> QED
      BY <2>12, <3>2 DEF GithubLate
  <2> QED
    BY <2>1, <2>2, <2>3, <2>4, <2>5, <2>6, <2>7, <2>8, <2>9, <2>10, <2>11, <2>12
       DEF Next, UploaderWorks, PublisherWorks, PublisherFails
<1> QED
  BY <1>1, <1>2, PTL DEF Spec

(* Every variable of EvidencePublisher has its type (store.ts; cli/github.ts;*)
(* cli/index.ts).                                                            *)
THEOREM PublisherTypesCorrect == Spec => []TypeOK
  BY TypedAndLinked, PTL
-----------------------------------------------------------------------------
(* Whoever holds a link holds the link of the run.                           *)
OneLink ==
  /\ LinksNeverChange
  /\ \A p \in Publishers :
       /\ job[p].pc \in {"find", "write", "commit"} => job[p].link = publicId
       /\ late[p] # None => late[p].body.link = publicId

(* A link that is held keeps the id of the run where it is.                  *)
LEMMA KeptIdIsKept == publicId # None => \A id : KeptId(id) = publicId
  BY DEF KeptId

LEMMA WrittenKeepsLink ==
  ASSUME TypeOK, LinksNeverChange, NEW w \in Writes, w.body.link = publicId,
         comments' = Written(w), publicId' = publicId
  PROVE  LinksNeverChange'
<1>1. \A i \in DOMAIN Written(w) :
        \/ Written(w)[i] = w.body
        \/ i \in DOMAIN comments /\ Written(w)[i] = comments[i]
  BY WrittenIs DEF TypeOK
<1> QED
  BY <1>1 DEF LinksNeverChange

(* Every comment ever written has the one address of the run, for any number *)
(* of publishers, failures and late requests (LinksNeverChange).             *)
THEOREM LinksAreForGood == Spec => []LinksNeverChange
<1>1. Init => OneLink
  BY DEF Init, OneLink, LinksNeverChange, NoJob
<1>2. TypeOK /\ Linked /\ OneLink /\ [Next]_vars => OneLink'
  <2> SUFFICES ASSUME TypeOK, Linked, OneLink, [Next]_vars PROVE OneLink'
    OBVIOUS
  <2>0. /\ job \in [Publishers -> Jobs] /\ comments \in Seq(Bodies)
        /\ late \in [Publishers -> Writes \cup {None}]
        /\ None \notin PublicIds
    BY PublisherAssumption DEF TypeOK
  <2> USE DEF OneLink, gateway, github
  <2>1. CASE UNCHANGED <<publicId, github, job>>
    BY <2>1 DEF LinksNeverChange
  <2>2. CASE UNCHANGED vars
    BY <2>1, <2>2 DEF vars
  <2>3. CASE UploaderWorks \/ UploaderStops \/ Archive
    BY <2>1, <2>3 DEF UploaderWorks, CreateRun, CompleteReady, CompleteRejected,
       UploadRefused, UploadDone, InitFile, UploaderStops, Archive
  <2>4. ASSUME NEW p \in Publishers,
               \/ Start(p) \/ PrepareRefused(p) \/ CommitRefused(p)
               \/ GhRejects(p) \/ Stop(p)
        PROVE  OneLink'
    <3>1. UNCHANGED <<publicId, comments, late>>
      BY <2>4 DEF Start, PrepareRefused, CommitRefused, GhRejects, Stop
    <3>2. Goes(p, "prepare") \/ Ends(p)
      BY <2>4 DEF Start, PrepareRefused, CommitRefused, GhRejects, Stop
    <3>3. \A q \in Publishers :
            job'[q].pc \in {"find", "write", "commit"} => job'[q] = job[q]
      BY <2>0, <3>2 DEF Goes, Ends, NoJob, Jobs
    <3> QED
      BY <3>1, <3>3 DEF LinksNeverChange
  <2>5. ASSUME NEW p \in Publishers, Find(p) PROVE OneLink'
    <3>1. \A q \in Publishers : job'[q].link = job[q].link
      BY <2>0, <2>5 DEF Find, Jobs
    <3>2. \A q \in Publishers :
            job'[q].pc \in {"find", "write", "commit"}
              => job[q].pc \in {"find", "write", "commit"}
      BY <2>0, <2>5 DEF Find, Jobs
    <3> QED
      BY <2>5, <3>1, <3>2 DEF Find, LinksNeverChange
  <2>6. ASSUME NEW p \in Publishers, NEW id \in PublicIds, Prepare(p, id)
        PROVE  OneLink'
    <3>1. publicId' = KeptId(id) /\ UNCHANGED <<comments, late>>
      BY <2>6 DEF Prepare
    <3>2. job'[p].link = publicId'
      BY <2>0, <2>6 DEF Prepare
    <3>3. \A q \in Publishers \ {p} : job'[q] = job[q]
      BY <2>0, <2>6 DEF Prepare
    <3>4. CASE publicId # None
      BY <3>1, <3>2, <3>3, <3>4, KeptIdIsKept DEF LinksNeverChange
    <3>5. CASE publicId = None
      <4>1. DOMAIN comments = {}
        <5> SUFFICES ASSUME NEW i \in DOMAIN comments PROVE FALSE
          OBVIOUS
        <5>1. comments[i] \in Bodies
          BY <2>0, ElementOfSeq
        <5> QED
          BY <2>0, <3>5, <5>1 DEF Bodies, LinksNeverChange
      <4>2. \A q \in Publishers : late[q] = None
        BY <2>0, <3>5 DEF Writes, Bodies
      <4>3. \A q \in Publishers : job[q].pc \notin {"find", "write", "commit"}
        BY <2>0, <3>5 DEF Linked
      <4> QED
        BY <3>1, <3>2, <3>3, <4>1, <4>2, <4>3 DEF LinksNeverChange
    <3> QED
      BY <3>4, <3>5
  <2>7. ASSUME NEW p \in Publishers, Write(p) PROVE OneLink'
    <3> DEFINE w == [over |-> job[p].comment, body |-> Body(p)]
    <3>1. w \in Writes /\ w.body.link = publicId
      BY <2>7, WritesAreTyped DEF Write, Body
    <3>2. LinksNeverChange'
      <4>1. comments' = Written(w) /\ publicId' = publicId
        BY <2>7 DEF Write
      <4> QED
        BY <3>1, <4>1, WrittenKeepsLink
    <3>3. \A q \in Publishers : job'[q].link = job[q].link
      BY <2>0, <2>7 DEF Write, Jobs
    <3>4. \A q \in Publishers :
            job'[q].pc \in {"find", "write", "commit"}
              => job[q].pc \in {"find", "write", "commit"}
      BY <2>0, <2>7 DEF Write, Jobs
    <3> QED
      BY <2>7, <3>2, <3>3, <3>4 DEF Write
  <2>8. ASSUME NEW p \in Publishers, NEW id \in PublicIds,
               Commit(p, id) \/ CrashMidCommit(p, id)
        PROVE  OneLink'
    <3>1. publicId # None
      BY <2>0, <2>8 DEF Commit, CrashMidCommit, Linked
    <3>2. publicId' = publicId /\ UNCHANGED <<comments, late>>
      BY <2>8, <3>1, KeptIdIsKept DEF Commit, CrashMidCommit, PublishRun
    <3>3. \A q \in Publishers :
            job'[q].pc \in {"find", "write", "commit"} => job'[q] = job[q]
      BY <2>0, <2>8 DEF Commit, CrashMidCommit, Ends, NoJob
    <3> QED
      BY <3>2, <3>3 DEF LinksNeverChange
  <2>9. ASSUME NEW p \in Publishers, GhTimesOut(p) PROVE OneLink'
    <3>1. UNCHANGED <<publicId, comments>>
      BY <2>9 DEF GhTimesOut
    <3>2. \A q \in Publishers :
            job'[q].pc \in {"find", "write", "commit"} => job'[q] = job[q]
      BY <2>0, <2>9 DEF GhTimesOut, Ends, NoJob
    <3>3. \A q \in Publishers :
            late'[q] = late[q] \/ late'[q].body.link = publicId
      BY <2>0, <2>9 DEF GhTimesOut, Body
    <3> QED
      BY <3>1, <3>2, <3>3 DEF LinksNeverChange
  <2>10. ASSUME NEW p \in Publishers, GithubLate(p) PROVE OneLink'
    <3>1. late[p] \in Writes /\ late[p].body.link = publicId
      BY <2>0, <2>10 DEF GithubLate
    <3>2. LinksNeverChange'
      <4>1. CASE comments' = Written(late[p])
        BY <2>10, <3>1, <4>1, WrittenKeepsLink DEF GithubLate
      <4>2. CASE UNCHANGED comments
        BY <2>10, <4>2 DEF GithubLate, LinksNeverChange
      <4> QED
        BY <2>10, <4>1, <4>2 DEF GithubLate
    <3>3. \A q \in Publishers : late'[q] = late[q] \/ late'[q] = None
      BY <2>0, <2>10 DEF GithubLate
    <3> QED
      BY <2>10, <3>2, <3>3 DEF GithubLate
  <2> QED
    BY <2>2, <2>3, <2>4, <2>5, <2>6, <2>7, <2>8, <2>9, <2>10
       DEF Next, PublisherWorks, PublisherFails
<1>3. OneLink => LinksNeverChange
  BY DEF OneLink
<1> QED
  BY <1>1, <1>2, <1>3, TypedAndLinked, PTL DEF Spec
-----------------------------------------------------------------------------
(* Nothing but ready files has ever been named, and a file that is ready     *)
(* stays so: the upload judges a file that is pending.                       *)
NamesReady(body) == body.files \subseteq ReadyFiles

Announced ==
  /\ uploader.pc = "complete" =>
       uploader.file \in Files /\ fileState[uploader.file] = "pending"
  /\ \A i \in DOMAIN comments : NamesReady(comments[i])
  /\ \A p \in Publishers :
       /\ job[p].pc \in {"find", "write", "commit"} => NamesReady(job[p])
       /\ late[p] # None => NamesReady(late[p].body)
       /\ job[p].pc = "write" => job[p].comment = 0 \/ comments # <<>>
       /\ job[p].pc = "commit" => comments # <<>>
  /\ runState = "published" => comments # <<>>

LEMMA WrittenIsAnnounced ==
  ASSUME TypeOK, NEW w \in Writes, NamesReady(w.body),
         \A i \in DOMAIN comments : NamesReady(comments[i]),
         comments' = Written(w)
  PROVE  /\ \A i \in DOMAIN comments' : NamesReady(comments'[i])
         /\ w.over = 0 \/ comments # <<>> => comments' # <<>>
<1>1. comments \in Seq(Bodies) /\ w.over \in Nat
  BY DEF TypeOK, Writes
<1>2. \A i \in DOMAIN comments' :
        \/ comments'[i] = w.body
        \/ i \in DOMAIN comments /\ comments'[i] = comments[i]
  <2>1. \A i \in DOMAIN Written(w) :
          \/ Written(w)[i] = w.body
          \/ i \in DOMAIN comments /\ Written(w)[i] = comments[i]
    BY <1>1, WrittenIs
  <2> QED
    BY <2>1
<1>3. \A i \in DOMAIN comments' : NamesReady(comments'[i])
  BY <1>2
<1>4. Len(comments) \in Nat /\ (comments # <<>> => Len(comments) # 0)
  BY <1>1, EmptySeq, LenProperties
<1>5. w.over = 0 \/ comments # <<>> => Len(comments') # 0
  BY <1>1, <1>4, WrittenIs
<1> QED
  BY <1>3, <1>5

(* A published run has a comment, and every comment names ready files only,  *)
(* whatever fails between reserving the address and the commit               *)
(* (PublishedIsAnnounced).                                                   *)
THEOREM PublishedRunsAreAnnounced == Spec => []PublishedIsAnnounced
<1>1. Init => Announced
  BY DEF Init, Announced, NoJob
<1>2. TypeOK /\ Linked /\ Announced /\ [Next]_vars => Announced'
  <2> SUFFICES ASSUME TypeOK, Linked, Announced, [Next]_vars PROVE Announced'
    OBVIOUS
  <2>0. /\ job \in [Publishers -> Jobs] /\ comments \in Seq(Bodies)
        /\ late \in [Publishers -> Writes \cup {None}]
        /\ fileState \in [Files -> {"none", "pending", "ready", "rejected"}]
        /\ None \notin Files
    BY PublisherAssumption DEF TypeOK
  <2> USE DEF Announced, gateway, github
  <2>1. CASE UNCHANGED vars
    BY <2>1 DEF vars, NamesReady, ReadyFiles
  <2>2. ASSUME /\ \A f \in Files : fileState[f] = "ready" => fileState'[f] = "ready"
               /\ UNCHANGED <<comments, late, job>>
               /\ runState' = "published" => runState = "published"
               /\ uploader'.pc = "complete" =>
                    uploader'.file \in Files /\ fileState'[uploader'.file] = "pending"
        PROVE  Announced'
    <3>1. ReadyFiles \subseteq ReadyFiles'
      BY <2>2 DEF ReadyFiles
    <3>2. \A b : NamesReady(b) => b.files \subseteq ReadyFiles'
      BY <3>1 DEF NamesReady
    <3> QED
      BY <2>2, <3>2 DEF NamesReady
  <2>3. CASE CompleteReady \/ CompleteRejected
    BY <2>0, <2>2, <2>3 DEF CompleteReady, CompleteRejected, UploaderGoes
  <2>4. ASSUME NEW f \in Files, InitFile(f) PROVE Announced'
    BY <2>0, <2>2, <2>4 DEF InitFile, UploaderGoes, HasRow
  <2>5. CASE CreateRun \/ UploadRefused \/ UploadDone \/ UploaderStops \/ Archive
    BY <2>2, <2>5 DEF CreateRun, UploadRefused, UploadDone, UploaderStops,
       Archive, UploaderGoes
  <2>6. ASSUME NEW p \in Publishers, UNCHANGED <<fileState, uploader>>,
               comments # <<>> => comments' # <<>>,
               \A i \in DOMAIN comments' : NamesReady(comments'[i]),
               runState' = "published" => runState = "published" \/ comments # <<>>,
               \A q \in Publishers : late'[q] # None => NamesReady(late'[q].body),
               \A q \in Publishers \ {p} : job'[q] = job[q],
               /\ job'[p].pc \in {"find", "write", "commit"} => NamesReady(job'[p])
               /\ job'[p].pc = "write" => job'[p].comment = 0 \/ comments # <<>>
               /\ job'[p].pc = "commit" => comments' # <<>>
        PROVE  Announced'
    <3>1. ReadyFiles' = ReadyFiles
      BY <2>6 DEF ReadyFiles
    <3>2. \A q \in Publishers :
            /\ job'[q].pc \in {"find", "write", "commit"} => NamesReady(job'[q])
            /\ job'[q].pc = "write" => job'[q].comment = 0 \/ comments' # <<>>
            /\ job'[q].pc = "commit" => comments' # <<>>
      BY <2>6
    <3> QED
      BY <2>6, <3>1, <3>2 DEF NamesReady
  <2>7. ASSUME NEW p \in Publishers,
               \/ Start(p) \/ PrepareRefused(p) \/ CommitRefused(p)
               \/ GhRejects(p) \/ Stop(p)
        PROVE  Announced'
    <3>1. UNCHANGED <<fileState, uploader, comments, late, runState>>
      BY <2>7 DEF Start, PrepareRefused, CommitRefused, GhRejects, Stop
    <3>2. Goes(p, "prepare") \/ Ends(p)
      BY <2>7 DEF Start, PrepareRefused, CommitRefused, GhRejects, Stop
    <3>3. job'[p].pc \in {"prepare", "idle"}
          /\ \A q \in Publishers \ {p} : job'[q] = job[q]
      BY <2>0, <3>2 DEF Goes, Ends, NoJob, Jobs
    <3> QED
      BY <2>6, <3>1, <3>3
  <2>8. ASSUME NEW p \in Publishers, Find(p) PROVE Announced'
    <3>1. /\ job'[p].pc = "write" /\ job'[p].comment = FirstMarked
          /\ job'[p].files = job[p].files
          /\ \A q \in Publishers \ {p} : job'[q] = job[q]
      BY <2>0, <2>8 DEF Find, Jobs
    <3>2. NamesReady(job'[p])
      BY <2>8, <3>1 DEF Find, NamesReady
    <3>3. UNCHANGED <<fileState, uploader, comments, late, runState>>
      BY <2>8 DEF Find
    <3> QED
      BY <2>6, <3>1, <3>2, <3>3 DEF FirstMarked
  <2>9. ASSUME NEW p \in Publishers, NEW id \in PublicIds, Prepare(p, id)
        PROVE  Announced'
    <3>1. /\ job'[p].pc = "find" /\ job'[p].files = ReadyFiles
          /\ \A q \in Publishers \ {p} : job'[q] = job[q]
      BY <2>0, <2>9 DEF Prepare
    <3>2. NamesReady(job'[p])
      BY <3>1 DEF NamesReady
    <3>3. UNCHANGED <<fileState, uploader, comments, late, runState>>
      BY <2>9 DEF Prepare
    <3> QED
      BY <2>6, <3>1, <3>2, <3>3
  <2>10. ASSUME NEW p \in Publishers, Write(p) PROVE Announced'
    <3> DEFINE w == [over |-> job[p].comment, body |-> Body(p)]
    <3>1. w \in Writes /\ NamesReady(w.body)
      BY <2>10, WritesAreTyped DEF Write, Body, NamesReady
    <3>2. comments' = Written(w)
          /\ UNCHANGED <<fileState, uploader, late, runState>>
      BY <2>10 DEF Write
    <3>3. /\ \A i \in DOMAIN comments' : NamesReady(comments'[i])
          /\ comments' # <<>>
      <4>1. w.over = 0 \/ comments # <<>>
        BY <2>10 DEF Write
      <4> QED
        BY <3>1, <3>2, <4>1, WrittenIsAnnounced
    <3>4. /\ job'[p].pc = "commit" /\ job'[p].files = job[p].files
          /\ \A q \in Publishers \ {p} : job'[q] = job[q]
      BY <2>0, <2>10 DEF Write, Jobs
    <3>5. NamesReady(job'[p])
      BY <2>10, <3>4 DEF Write, NamesReady
    <3> QED
      BY <2>6, <3>2, <3>3, <3>4, <3>5
  <2>11. ASSUME NEW p \in Publishers, NEW id \in PublicIds,
                Commit(p, id) \/ CrashMidCommit(p, id)
         PROVE  Announced'
    <3>1. comments # <<>> /\ UNCHANGED <<fileState, uploader, comments, late>>
      BY <2>11 DEF Commit, CrashMidCommit
    <3>2. job'[p].pc = "idle" /\ \A q \in Publishers \ {p} : job'[q] = job[q]
      BY <2>0, <2>11 DEF Commit, CrashMidCommit, Ends, NoJob
    <3> QED
      BY <2>6, <3>1, <3>2
  <2>12. ASSUME NEW p \in Publishers, GhTimesOut(p) PROVE Announced'
    <3>1. UNCHANGED <<fileState, uploader, comments, runState>>
      BY <2>12 DEF GhTimesOut
    <3>2. job'[p].pc = "idle" /\ \A q \in Publishers \ {p} : job'[q] = job[q]
      BY <2>0, <2>12 DEF GhTimesOut, Ends, NoJob
    <3>3. NamesReady(Body(p))
      BY <2>12 DEF GhTimesOut, Body, NamesReady
    <3>4. \A q \in Publishers : late'[q] = late[q] \/ late'[q].body = Body(p)
      BY <2>0, <2>12 DEF GhTimesOut
    <3>5. \A q \in Publishers : late'[q] # None => NamesReady(late'[q].body)
      BY <3>3, <3>4
    <3> QED
      BY <2>6, <3>1, <3>2, <3>5
  <2>13. ASSUME NEW p \in Publishers, GithubLate(p) PROVE Announced'
    <3>1. late[p] \in Writes /\ NamesReady(late[p].body)
      BY <2>0, <2>13 DEF GithubLate
    <3>2. UNCHANGED <<fileState, uploader, job, runState>>
      BY <2>13 DEF GithubLate
    <3>3. /\ \A i \in DOMAIN comments' : NamesReady(comments'[i])
          /\ comments # <<>> => comments' # <<>>
      <4>1. CASE comments' = Written(late[p])
        BY <3>1, <4>1, WrittenIsAnnounced
      <4>2. CASE UNCHANGED comments
        BY <4>2
      <4> QED
        BY <2>13, <4>1, <4>2 DEF GithubLate
    <3>4. \A q \in Publishers : late'[q] = late[q] \/ late'[q] = None
      BY <2>0, <2>13 DEF GithubLate
    <3>5. \A q \in Publishers :
            /\ late'[q] # None => NamesReady(late'[q].body)
            /\ job'[q] = job[q]
      BY <3>2, <3>4
    <3> QED
      BY <2>6, <3>2, <3>3, <3>5
  <2> QED
    BY <2>1, <2>3, <2>4, <2>5, <2>7, <2>8, <2>9, <2>10, <2>11, <2>12, <2>13
       DEF Next, UploaderWorks, PublisherWorks, PublisherFails
<1>3. Announced => PublishedIsAnnounced
  BY DEF Announced, PublishedIsAnnounced, NamesReady
<1> QED
  BY <1>1, <1>2, <1>3, TypedAndLinked, PTL DEF Spec
-----------------------------------------------------------------------------
(* Who is about to create a comment, and whose creation has outlived its gh. *)
Posting == {p \in Publishers : Creating(p)}
Adrift == {p \in Publishers : late[p] # None /\ late[p].over = 0}

(* Once there is a comment nobody new decides to create one: comments and    *)
(* those that may still come do not become more, save by a creation that     *)
(* frees its publisher by outliving its gh.                                  *)
Bounded ==
  /\ Cardinality(Adrift) <= outlived
  /\ Len(comments) + Cardinality(Posting) + Cardinality(Adrift)
       <= Cardinality(Publishers) + outlived

(* The counts are numbers, before a step and after it.                       *)
LEMMA Counted ==
  ASSUME NEW S, S \subseteq Publishers
  PROVE  /\ IsFiniteSet(S) /\ Cardinality(S) \in Nat
         /\ Cardinality(Publishers) \in Nat /\ Cardinality(S) <= Cardinality(Publishers)
  BY PublisherAssumption, FS_Subset, FS_CardinalityType

LEMMA Counts ==
  ASSUME TypeOK
  PROVE  /\ IsFiniteSet(Posting) /\ IsFiniteSet(Adrift)
         /\ Cardinality(Posting) \in Nat /\ Cardinality(Adrift) \in Nat
         /\ Cardinality(Publishers) \in Nat /\ Len(comments) \in Nat /\ outlived \in Nat
<1>1. Posting \subseteq Publishers /\ Adrift \subseteq Publishers
  BY DEF Posting, Adrift
<1>2. Len(comments) \in Nat
  BY LenProperties DEF TypeOK
<1>3. outlived \in Nat
  BY PublisherAssumption DEF TypeOK
<1> QED
  BY <1>1, <1>2, <1>3, Counted

LEMMA CountsAfter ==
  ASSUME TypeOK'
  PROVE  /\ Cardinality(Posting') \in Nat /\ Cardinality(Adrift') \in Nat
         /\ Cardinality(Posting') <= Cardinality(Publishers)
         /\ Len(comments') \in Nat
<1>1. Posting' \subseteq Publishers /\ Adrift' \subseteq Publishers
  BY DEF Posting, Adrift
<1>2. Len(comments') \in Nat
  BY LenProperties DEF TypeOK
<1> QED
  BY <1>1, <1>2, Counted

(* A set that loses an element becomes smaller by one, whatever else it      *)
(* loses; one that gains at most an element grows by one at most.            *)
LEMMA LosesOne ==
  ASSUME NEW S, NEW T, NEW x, IsFiniteSet(S), x \in S, T \subseteq S \ {x}
  PROVE  Cardinality(T) + 1 <= Cardinality(S)
<1>1. IsFiniteSet(S \ {x}) /\ Cardinality(S \ {x}) = Cardinality(S) - 1
  BY FS_RemoveElement
<1>2. Cardinality(T) <= Cardinality(S \ {x}) /\ IsFiniteSet(T)
  BY <1>1, FS_Subset
<1>3. Cardinality(S) \in Nat /\ Cardinality(T) \in Nat
  BY <1>2, FS_CardinalityType
<1> QED
  BY <1>1, <1>2, <1>3

LEMMA GainsOne ==
  ASSUME NEW S, NEW T, NEW x, IsFiniteSet(S), T \subseteq S \cup {x}
  PROVE  Cardinality(T) <= Cardinality(S) + 1
<1>1. /\ IsFiniteSet(S \cup {x})
      /\ Cardinality(S \cup {x}) = IF x \in S THEN Cardinality(S) ELSE Cardinality(S) + 1
  BY FS_AddElement
<1>2. Cardinality(T) <= Cardinality(S \cup {x}) /\ IsFiniteSet(T)
  BY <1>1, FS_Subset
<1>3. /\ Cardinality(S) \in Nat /\ Cardinality(T) \in Nat
      /\ Cardinality(S \cup {x}) \in Nat
  BY <1>1, <1>2, FS_CardinalityType
<1> QED
  BY <1>1, <1>2, <1>3

(* Steps that leave the comments and what is on its way to GitHub alone, and *)
(* by which nobody decides to create a comment.                              *)
LEMMA FewerPosting ==
  ASSUME TypeOK, TypeOK', Bounded, UNCHANGED outlived, Len(comments') = Len(comments),
         \A q \in Publishers : Creating(q)' => Creating(q),
         \A q \in Publishers : late'[q] = late[q] \/ late'[q] = None \/ late'[q].over # 0
  PROVE  Bounded'
<1>1. Posting' \subseteq Posting /\ Adrift' \subseteq Adrift
  BY DEF Posting, Adrift
<1>2. Cardinality(Posting') <= Cardinality(Posting) /\ Cardinality(Adrift') <= Cardinality(Adrift)
  BY <1>1, Counts, FS_Subset
<1>3. /\ Cardinality(Posting') \in Nat /\ Cardinality(Adrift') \in Nat
      /\ Cardinality(Posting) \in Nat /\ Cardinality(Adrift) \in Nat
      /\ Cardinality(Publishers) \in Nat /\ Len(comments) \in Nat /\ outlived \in Nat
  BY Counts, CountsAfter
<1> QED
  BY <1>2, <1>3 DEF Bounded

LEMMA FindBounded ==
  ASSUME TypeOK, TypeOK', Bounded, NEW p \in Publishers, Find(p)
  PROVE  Bounded'
<1>1. /\ job'[p].pc = "write" /\ job'[p].comment = FirstMarked
      /\ \A q \in Publishers \ {p} : job'[q] = job[q]
      /\ UNCHANGED <<comments, late, outlived>>
  BY DEF Find, TypeOK, Jobs, github
<1>2. CASE comments = <<>>
  <2>1. Adrift' = Adrift /\ Len(comments') = 0
    BY <1>1, <1>2, EmptySeq DEF Adrift
  <2>2. /\ Cardinality(Posting') <= Cardinality(Publishers)
        /\ Cardinality(Posting') \in Nat /\ Cardinality(Adrift) \in Nat
        /\ Cardinality(Publishers) \in Nat /\ outlived \in Nat
    BY Counts, CountsAfter
  <2> QED
    BY <1>1, <2>1, <2>2 DEF Bounded
<1>3. CASE comments # <<>>
  <2>1. ~Creating(p)'
    BY <1>1, <1>3 DEF FirstMarked, Creating
  <2>2. \A q \in Publishers : Creating(q)' => Creating(q)
    BY <1>1, <2>1 DEF Creating
  <2> QED
    BY <1>1, <2>2, FewerPosting
<1> QED
  BY <1>2, <1>3

LEMMA WriteBounded ==
  ASSUME TypeOK, TypeOK', Linked, Bounded, NEW p \in Publishers, Write(p)
  PROVE  Bounded'
<1> DEFINE w == [over |-> job[p].comment, body |-> Body(p)]
<1>1. w \in Writes
  BY WritesAreTyped DEF Write
<1>2. comments' = Written(w) /\ UNCHANGED <<late, outlived>> /\ job[p].pc = "write"
  BY DEF Write
<1>3. /\ job'[p].pc = "commit"
      /\ \A q \in Publishers \ {p} : job'[q] = job[q]
  BY DEF Write, TypeOK, Jobs
<1>4. \A q \in Publishers : Creating(q)' => Creating(q) /\ q # p
  BY <1>3 DEF Creating
<1>5. CASE job[p].comment = 0
  <2>1. Creating(p)
    BY <1>2, <1>5 DEF Creating
  <2>2. p \in Posting /\ Posting' \subseteq Posting \ {p} /\ Adrift' = Adrift
    BY <1>2, <1>4, <2>1 DEF Posting, Adrift
  <2>3. Len(comments') = Len(comments) + 1
    BY <1>1, <1>2, <1>5, WrittenIs DEF TypeOK
  <2>4. Cardinality(Posting') + 1 <= Cardinality(Posting)
    BY <2>2, Counts, LosesOne
  <2>5. /\ Cardinality(Posting') \in Nat /\ Cardinality(Posting) \in Nat
        /\ Cardinality(Adrift) \in Nat /\ Cardinality(Publishers) \in Nat
        /\ Len(comments) \in Nat /\ outlived \in Nat
    BY Counts, CountsAfter
  <2> QED
    BY <1>2, <2>2, <2>3, <2>4, <2>5 DEF Bounded
<1>6. CASE job[p].comment # 0
  <2>1. Len(comments') = Len(comments)
    BY <1>1, <1>2, <1>6, WrittenIs DEF TypeOK
  <2> QED
    BY <1>2, <1>4, <2>1, FewerPosting
<1> QED
  BY <1>5, <1>6

LEMMA TimeOutBounded ==
  ASSUME TypeOK, TypeOK', Bounded, NEW p \in Publishers, GhTimesOut(p)
  PROVE  Bounded'
<1>1. /\ UNCHANGED comments /\ job[p].pc = "write"
      /\ late' = [late EXCEPT ![p] = [over |-> job[p].comment, body |-> Body(p)]]
      /\ job' = [job EXCEPT ![p] = NoJob]
  BY DEF GhTimesOut, Ends
<1>2. \A q \in Publishers : Creating(q)' => Creating(q) /\ q # p
  BY <1>1 DEF TypeOK, Creating, NoJob
<1>3. CASE Creating(p)
  <2>1. outlived' = outlived + 1
    BY <1>3 DEF GhTimesOut
  <2>2. p \in Posting /\ Posting' \subseteq Posting \ {p}
    BY <1>2, <1>3 DEF Posting
  <2>3. Adrift' \subseteq Adrift \cup {p}
    BY <1>1 DEF TypeOK, Adrift
  <2>4. /\ Cardinality(Posting') + 1 <= Cardinality(Posting)
        /\ Cardinality(Adrift') <= Cardinality(Adrift) + 1
    BY <2>2, <2>3, Counts, LosesOne, GainsOne
  <2>5. /\ Cardinality(Posting') \in Nat /\ Cardinality(Posting) \in Nat
        /\ Cardinality(Adrift) \in Nat /\ Cardinality(Adrift') \in Nat
        /\ Cardinality(Publishers) \in Nat
        /\ Len(comments) \in Nat /\ outlived \in Nat
    BY Counts, CountsAfter
  <2> QED
    BY <1>1, <2>1, <2>4, <2>5 DEF Bounded
<1>4. CASE ~Creating(p)
  <2>1. UNCHANGED outlived /\ job[p].comment # 0
    BY <1>1, <1>4 DEF GhTimesOut, Creating
  <2>2. \A q \in Publishers : late'[q] = late[q] \/ late'[q].over # 0
    BY <1>1, <2>1 DEF TypeOK
  <2> QED
    BY <1>1, <1>2, <2>1, <2>2, FewerPosting
<1> QED
  BY <1>3, <1>4

LEMMA LateBounded ==
  ASSUME TypeOK, TypeOK', Bounded, NEW p \in Publishers, GithubLate(p)
  PROVE  Bounded'
<1>1. /\ late[p] \in Writes /\ late' = [late EXCEPT ![p] = None]
      /\ comments' = Written(late[p]) \/ UNCHANGED comments
      /\ UNCHANGED <<job, outlived>>
  BY DEF GithubLate, TypeOK
<1>2. \A q \in Publishers : Creating(q)' => Creating(q)
  BY <1>1 DEF Creating
<1>3. CASE late[p].over = 0
  <2>1. p \in Adrift /\ Adrift' \subseteq Adrift \ {p} /\ Posting' \subseteq Posting
    BY <1>1, <1>2, <1>3 DEF TypeOK, Adrift, Posting, GithubLate
  <2>2. Cardinality(Adrift') + 1 <= Cardinality(Adrift)
    BY <2>1, Counts, LosesOne
  <2>3. Cardinality(Posting') <= Cardinality(Posting)
    BY <2>1, Counts, FS_Subset
  <2>4. Len(Written(late[p])) = Len(comments) + 1
    BY <1>1, <1>3, WrittenIs DEF TypeOK
  <2>5. /\ Cardinality(Posting') \in Nat /\ Cardinality(Posting) \in Nat
        /\ Cardinality(Adrift) \in Nat /\ Cardinality(Adrift') \in Nat
        /\ Cardinality(Publishers) \in Nat
        /\ Len(comments) \in Nat /\ outlived \in Nat
    BY Counts, CountsAfter
  <2>6. Len(comments') <= Len(comments) + 1
    BY <1>1, <2>4, <2>5
  <2>7. Len(comments') \in Nat
    BY CountsAfter
  <2> QED
    BY <1>1, <2>2, <2>3, <2>5, <2>6, <2>7 DEF Bounded
<1>4. CASE late[p].over # 0
  <2>1. Len(Written(late[p])) = Len(comments)
    BY <1>1, <1>4, WrittenIs DEF TypeOK
  <2>2. \A q \in Publishers : late'[q] = late[q] \/ late'[q] = None
    BY <1>1 DEF TypeOK
  <2> QED
    BY <1>1, <1>2, <2>1, <2>2, FewerPosting
<1> QED
  BY <1>3, <1>4

LEMMA StepBounded == TypeOK /\ TypeOK' /\ Linked /\ Bounded /\ [Next]_vars => Bounded'
<1> SUFFICES ASSUME TypeOK, TypeOK', Linked, Bounded, [Next]_vars
             PROVE  Bounded'
  OBVIOUS
<1> USE DEF gateway, github
<1>1. ASSUME UNCHANGED <<github, job, outlived>> PROVE Bounded'
  BY <1>1 DEF Bounded, Posting, Adrift, Creating
<1>2. CASE UNCHANGED vars
  BY <1>1, <1>2 DEF vars
<1>3. CASE UploaderWorks \/ UploaderStops \/ Archive
  BY <1>1, <1>3 DEF UploaderWorks, CreateRun, CompleteReady, CompleteRejected,
     UploadRefused, UploadDone, InitFile, UploaderStops, Archive
<1>4. ASSUME NEW p \in Publishers, UNCHANGED <<outlived, github>>,
             Goes(p, "prepare") \/ Ends(p)
      PROVE  Bounded'
  <2>1. \A q \in Publishers :
          job'[q] = job[q] \/ job'[q].pc = "prepare" \/ job'[q].pc = "idle"
    BY <1>4 DEF TypeOK, Goes, Ends, NoJob, Jobs
  <2>2. \A q \in Publishers : Creating(q)' => Creating(q)
    BY <2>1 DEF Creating
  <2> QED
    BY <1>4, <2>2, FewerPosting
<1>5. ASSUME NEW p \in Publishers,
             \/ Start(p) \/ PrepareRefused(p) \/ CommitRefused(p)
             \/ GhRejects(p) \/ Stop(p)
             \/ \E id \in PublicIds : Commit(p, id) \/ CrashMidCommit(p, id)
      PROVE  Bounded'
  BY <1>4, <1>5 DEF Start, PrepareRefused, CommitRefused, GhRejects, Stop,
                    Commit, CrashMidCommit
<1>6. ASSUME NEW p \in Publishers, NEW id \in PublicIds, Prepare(p, id)
      PROVE  Bounded'
  <2>1. \A q \in Publishers : Creating(q)' => Creating(q)
    BY <1>6 DEF TypeOK, Creating, Prepare
  <2>2. UNCHANGED <<outlived, github>>
    BY <1>6 DEF Prepare
  <2> QED
    BY <2>1, <2>2, FewerPosting
<1> QED
  BY <1>2, <1>3, <1>5, <1>6, FindBounded, WriteBounded, TimeOutBounded, LateBounded
     DEF Next, PublisherWorks, PublisherFails

(* A run never has more comments than commands that may publish it at once,  *)
(* and one for each creation that outlived its gh, for any number of         *)
(* commands, retries and failures (cli/github.ts:79-110).                    *)
THEOREM CommentsStayFew == Spec => []CommentsDoNotMultiply
<1>1. Init => Bounded
  <2> SUFFICES ASSUME Init PROVE Bounded
    OBVIOUS
  <2>1. Posting = {} /\ Adrift = {} /\ Len(comments) = 0 /\ outlived = 0
    BY EmptySeq DEF Init, Posting, Adrift, Creating, NoJob
  <2>2. Cardinality(Publishers) \in Nat
    BY PublisherAssumption, FS_CardinalityType
  <2> QED
    BY <2>1, <2>2, FS_EmptySet DEF Bounded
<1>2. TypeOK /\ Bounded => CommentsDoNotMultiply
  <2> SUFFICES ASSUME TypeOK, Bounded PROVE CommentsDoNotMultiply
    OBVIOUS
  <2>1. /\ Cardinality(Posting) \in Nat /\ Cardinality(Adrift) \in Nat
        /\ Cardinality(Publishers) \in Nat /\ Len(comments) \in Nat /\ outlived \in Nat
    BY Counts
  <2> QED
    BY <2>1 DEF Bounded, CommentsDoNotMultiply
<1> QED
  BY <1>1, <1>2, StepBounded, TypedAndLinked, PTL DEF Spec
-----------------------------------------------------------------------------
(* The refinement of EvidencePublication.  The run begins once: as long as   *)
(* it is not created there is nothing to overwrite.                          *)
CreatedOnce == uploader.pc = "create" => runState = "none"

LEMMA RunIsCreatedOnce == Spec => []CreatedOnce
<1>1. Init => CreatedOnce
  BY DEF Init, CreatedOnce
<1>2. CreatedOnce /\ [Next]_vars => CreatedOnce'
  <2> SUFFICES ASSUME CreatedOnce, [Next]_vars PROVE CreatedOnce'
    OBVIOUS
  <2> USE DEF CreatedOnce, gateway, github
  <2>1. CASE UNCHANGED vars
    BY <2>1 DEF vars
  <2>2. CASE UploaderWorks \/ UploaderStops \/ Archive
    BY <2>2 DEF UploaderWorks, CreateRun, CompleteReady, CompleteRejected,
       UploadRefused, UploadDone, InitFile, UploaderStops, Archive, UploaderGoes
  <2>3. ASSUME NEW p \in Publishers,
               PublisherWorks(p) \/ PublisherFails(p) \/ GithubLate(p)
        PROVE  CreatedOnce'
    BY <2>3 DEF PublisherWorks, PublisherFails, GithubLate, Start,
       PrepareRefused, Find, Write, CommitRefused, Prepare, Commit, GhRejects,
       GhTimesOut, Stop, CrashMidCommit, PublishRun, MayPublish
  <2> QED
    BY <2>1, <2>2, <2>3 DEF Next
<1> QED
  BY <1>1, <1>2, PTL DEF Spec

(* Where the run's state for readers, its address and its files stay, the    *)
(* abstract run stutters.                                                    *)
LEMMA ReadersSeeNothing ==
  ASSUME Phase' = Phase, Shown' = Shown, publicId' = publicId
  PROVE  UNCHANGED Publication!vars
  BY DEF Publication!vars

(* A step of the abstract run, from what the readers see before and after.   *)
LEMMA ReadersSee ==
  /\ Phase = "private" /\ Phase' = "held" /\ Shown' = Shown
       /\ publicId' = publicId => Publication!Next
  /\ Phase # "withdrawn" /\ Phase' = "withdrawn" /\ Shown' = {}
       /\ publicId' = publicId => Publication!Next
  /\ \A id \in PublicIds :
       Phase # "held" /\ Phase' = Phase /\ Shown' = Shown
         /\ publicId' = KeptId(id) /\ publicId' \in PublicIds
         => Publication!Next
  /\ \A id \in PublicIds :
       Phase = "private" /\ Phase' = "public" /\ Shown' # {}
         /\ Shown' \in SUBSET Files
         /\ publicId' = KeptId(id) /\ publicId' \in PublicIds
         => Publication!Next
<1> DEFINE r == "run"
<1>1. r \in TheRun /\ \A q \in TheRun : q = r
  BY DEF TheRun
<1>2. ASSUME Phase = "private", Phase' = "held", Shown' = Shown,
             publicId' = publicId
      PROVE  Publication!Next
  <2>1. Publication!Hold(r)
    BY <1>1, <1>2 DEF Publication!Hold
  <2> QED
    BY <1>1, <2>1 DEF Publication!Next
<1>3. ASSUME Phase # "withdrawn", Phase' = "withdrawn", Shown' = {},
             publicId' = publicId
      PROVE  Publication!Next
  <2>1. Publication!Withdraw(r)
    BY <1>1, <1>3 DEF Publication!Withdraw
  <2> QED
    BY <1>1, <2>1 DEF Publication!Next
<1>4. ASSUME NEW id \in PublicIds, publicId' = KeptId(id),
             publicId' \in PublicIds
      PROVE  Publication!Fits(r, publicId')
  BY <1>1, <1>4, PublisherAssumption DEF Publication!Fits, KeptId
<1>5. ASSUME NEW id \in PublicIds, Phase # "held", Phase' = Phase,
             Shown' = Shown, publicId' = KeptId(id), publicId' \in PublicIds
      PROVE  Publication!Next
  <2>1. Publication!Fits(r, publicId')
    BY <1>4, <1>5
  <2>2. Publication!Reserve(r, publicId')
    BY <1>1, <1>5, <2>1 DEF Publication!Reserve
  <2> QED
    BY <1>1, <1>5, <2>2 DEF Publication!Next
<1>6. ASSUME NEW id \in PublicIds, Phase = "private", Phase' = "public",
             Shown' # {}, Shown' \in SUBSET Files, publicId' = KeptId(id),
             publicId' \in PublicIds
      PROVE  Publication!Next
  <2>1. Publication!Fits(r, publicId')
    BY <1>4, <1>6
  <2>2. Publication!Expose(r, publicId')
    BY <1>1, <1>6, <2>1 DEF Publication!Expose
  <2> QED
    BY <1>1, <1>6, <2>2 DEF Publication!Next
<1> QED
  BY <1>2, <1>3, <1>5, <1>6

(* The run as readers see it while it is uploaded, announced, published      *)
(* again and archived keeps what EvidencePublication promises, so this model *)
(* and EvidenceGateway agree on what a link shows (PublicationPromise).      *)
THEOREM PublisherKeepsPromise == Spec => PublicationPromise
<1>1. Init => Publication!Init
  BY DEF Init, Publication!Init, Phase, Shown
<1>2. ASSUME TypeOK, CreatedOnce, [Next]_vars
      PROVE  [Publication!Next]_(Publication!vars)
  <2> USE <1>2 DEF gateway, github
  <2>0. \A id \in PublicIds : KeptId(id) \in PublicIds
    BY DEF TypeOK, KeptId
  <2>1. UNCHANGED <<runState, publicId, fileState>>
          => UNCHANGED Publication!vars
    BY ReadersSeeNothing DEF Phase, Shown, ReadyFiles
  <2>2. CASE UNCHANGED vars
    BY <2>1, <2>2 DEF vars
  <2>3. CASE UploadRefused \/ UploadDone \/ UploaderStops
    BY <2>1, <2>3 DEF UploadRefused, UploadDone, UploaderStops
  <2>4. CASE CreateRun \/ CompleteReady \/ \E f \in Files : InitFile(f)
    <3>1. /\ runState \in {"none", "draft", "processing"}
          /\ runState' \in {"none", "draft", "processing"}
          /\ publicId' = publicId
      BY <2>4 DEF CreateRun, CompleteReady, InitFile, IsOpen, CreatedOnce
    <3> QED
      BY <3>1, ReadersSeeNothing DEF Phase, Shown
  <2>5. CASE CompleteRejected
    <3>1. Phase = "private" /\ Phase' = "held" /\ Shown' = Shown
          /\ publicId' = publicId
      BY <2>5 DEF CompleteRejected, IsOpen, Phase, Shown
    <3> QED
      BY <3>1, ReadersSee
  <2>6. CASE Archive
    <3>1. Phase # "withdrawn" /\ Phase' = "withdrawn" /\ Shown' = {}
          /\ publicId' = publicId
      BY <2>6 DEF Archive, Phase, Shown
    <3> QED
      BY <3>1, ReadersSee
  <2>7. ASSUME NEW p \in Publishers, NEW id \in PublicIds, Prepare(p, id)
        PROVE  Publication!Next
    <3>1. /\ Phase # "held" /\ Phase' = Phase /\ Shown' = Shown
          /\ publicId' = KeptId(id)
      BY <2>7 DEF Prepare, Publishable, Phase, Shown, ReadyFiles
    <3> QED
      BY <2>0, <3>1, ReadersSee
  <2>8. ASSUME NEW p \in Publishers, NEW id \in PublicIds,
               Commit(p, id) \/ CrashMidCommit(p, id)
        PROVE  Publication!Next
    <3>1. /\ MayPublish /\ runState' = "published" /\ publicId' = KeptId(id)
          /\ ReadyFiles' = ReadyFiles
      BY <2>8 DEF Commit, CrashMidCommit, PublishRun, ReadyFiles
    <3>2. CASE runState = "published"
      <4>1. Phase # "held" /\ Phase' = Phase /\ Shown' = Shown
        BY <3>1, <3>2 DEF Phase, Shown
      <4> QED
        BY <2>0, <3>1, <4>1, ReadersSee
    <3>3. CASE runState = "processing"
      <4>1. /\ Phase = "private" /\ Phase' = "public" /\ Shown' # {}
            /\ Shown' \in SUBSET Files
        BY <3>1, <3>3, ReadyFilesAreFiles
           DEF Phase, Shown, MayPublish, Publishable
      <4> QED
        BY <2>0, <3>1, <4>1, ReadersSee
    <3> QED
      BY <3>1, <3>2, <3>3 DEF MayPublish
  <2>9. ASSUME NEW p \in Publishers,
               \/ Start(p) \/ PrepareRefused(p) \/ Find(p) \/ Write(p)
               \/ CommitRefused(p) \/ GhRejects(p) \/ GhTimesOut(p) \/ Stop(p)
               \/ GithubLate(p)
        PROVE  UNCHANGED Publication!vars
    <3>1. UNCHANGED <<runState, publicId, fileState>>
      BY <2>9 DEF Start, PrepareRefused, Find, Write, CommitRefused, GhRejects,
         GhTimesOut, Stop, GithubLate
    <3> QED
      BY <2>1, <3>1
  <2> QED
    BY <2>2, <2>3, <2>4, <2>5, <2>6, <2>7, <2>8, <2>9
       DEF Next, UploaderWorks, PublisherWorks, PublisherFails
<1> QED
  BY <1>1, <1>2, TypedAndLinked, RunIsCreatedOnce, PTL
     DEF Spec, PublicationPromise, Publication!Spec
===============================================================================
