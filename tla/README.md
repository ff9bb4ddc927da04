# TLA+ models of dreambau: evidence, test runs, account changes, sign-in

This directory holds TLA+ specifications of the parts of the repository whose
correctness depends most on ordering: the PR evidence pipeline
(`src/src/evidence`), and, in `src/src/server`, the ledger of test runs, account
leases and product resources, the changes of a test account across the registry
and the product, the grants and e-mailed codes of employees, and the login of a
test account with a headless browser. TLC checks them
on small instances; TLAPS proves the main results for every instance. Paths in
the tables below are relative to `src/`.

## 1. The system

The repository holds several largely separate programs.

| Part | Source | State it keeps | Operations | Talks to |
|---|---|---|---|---|
| Evidence gateway | `src/evidence/server/router.ts`, `store.ts`, `processing.ts` | SQLite rows of runs, files, parts, findings, events | create run, init, put part, complete (and process), publish in two stages, link comment, archive | MinIO (`storage.ts`), an await at each call |
| Evidence viewer | `src/evidence/server/viewer.ts` | none | run page, file, report entry | rows and objects, read only |
| Evidence maintenance | `src/evidence/retention.ts`, `server/maintenance.ts` | none | retention, integrity check, link probe | the same SQLite file and bucket, from another process |
| Evidence CLI | `src/evidence/cli` | watch state file | upload, publish, watch, status | gateway over HTTP, GitHub through `gh` |
| Content checks | `security.ts`, `secret-scan.ts`, `zip.ts`, `media.ts` | none | preflight, scan, strip, normalise | ffmpeg |
| Test runs and leases | `src/server/test-run-*.ts`, `test-resource-store.ts` | SQLite rows of runs, casts, leases, resources, parents | create, start, finish, release a run; plan, move, bind, confirm absent a resource | account directory; a coordinator that acts on the product under test |
| Account changes | `src/server/account-mutation-lock.ts`, `oriso-*.ts`, `infisical-*.ts`, `app.ts` | lock directories, Infisical records, deletion markers | provision, replace a role, link a password, set up, enroll, delete, clear a link | Infisical, ORISO, an operator's command in another process |
| Human sign-in | `src/server/email-otp.ts`, `passkey-auth.ts`, `infisical-human-access.ts`, `deadline-queue.ts` | challenges, sessions, grants, a queue, a cached list of members | request and verify a code, list employees, check access | mail server, Infisical |
| Browser login broker | `src/server/playwright-login-broker.ts` | one page, a state file per login | log in, answer a second factor, store the session | a browser, an identity provider, the hub |
| Other stores | `src/server/db.ts`, `release-list-store.ts`, ... | SQLite rows | mostly single statements | |
| Web client, sites | `src/client`, `apps/*` | browser state | presentation | |

`PROJECT.json` lists each with its status and the hazards line by line. What
makes the evidence pipeline hard is this:

* **Concurrency.** The gateway is one Node process. A handler runs alone
  between two awaits, and at each await any other handler may run. Handlers
  read a row, await MinIO and act on what they read (`init`, `complete`).
  The retention job is a second process on the same rows and objects.
* **Failure.** A MinIO call may fail, or take effect and lose its answer. The
  process may stop between two awaits and also between two statements, since
  `reject`, `complete` and `publish` write several times without a transaction
  around them.
* **Promises to strangers.** A published link is read by anyone; nothing
  refused, unverified or unpublished may appear under it, and what appears may
  not change.

The test-run ledger has the opposite difficulty. Each of its operations is one
SQLite transaction, so nothing interleaves within one. But a call is stamped
and justified by what its caller saw earlier; calls are repeated and held up;
and the product the rows speak of creates an object after its sender has given
up, deletes in the background, and reuses names. The ledger must not lend an
account to another run while anything made with it may still be there, or
appear.

A change of a test account has a third difficulty. Registry and product are two
systems with no transaction over both, and every call to either may take effect
and lose its answer, or take effect after the caller has given up. A
password or a seed that only the product knows cannot be got back, and a record
that says `ready` is handed to tests. The lock keeps requests apart; it does not
keep a request apart from the leftovers of an earlier one.

Access of employees is decided from memberships kept elsewhere. All callers
wait in one queue for one shared read, which may hang; the list of employees
writes everybody's grants and takes them back when one of them could not be
read.

A publication involves three parties, the command line, the gateway and GitHub,
and neither of the latter two knows of the other: the run's address, the comment
that carries it and the publication are three calls, and any may fail, lose its
answer or be made by two publishers at once. The browser login has three
activities of one process on a page that moves by itself, and a click of which
nobody can tell for certain whether it did something.

What each component must do to be correct:

* *Gateway*: process a file once and decide about it once; serve only bytes
  whose digest was declared; never publish a run with an undecided or refused
  file; explain a quarantine; keep a run near its size ceiling.
* *Viewer* (with the gateway): show a run's files all at once, under one
  address, unchanged until the run is archived.
* *Retention*: delete every abandoned run in the end, nothing that was
  published or quarantined, and no object of the rest that is still served.
* *CLI*: few comments per run and one link in them, a comment's links eventually
  open, a recording published once and every finished one in the end.
* *Test runs*: the leases are the accounts of the open runs; a released run
  leaves nothing in the product and nothing of it changes any more; what is
  recorded as deleted is gone; a child does not outlive its parent.
* *Account changes*: the registry can open what the hub has made; a setup is
  sent once; `ready` means verified, and is not lost to a late failure.
* *Sign-in*: a code opens one session; grants are fresh, and those somebody was
  told; nobody waits longer than the time-out.
* *Browser login*: credentials are sent once; a session is handed out only after
  an arrival, and never without one where a session is required; every login ends.

## 2. The modules

| Module | What it is |
|---|---|
| `EvidencePublication` | Abstract: what a reader of public links is promised |
| `EvidenceGateway` | The gateway's rows, MinIO's objects, and the frames of waiting handlers; one action per segment between awaits |
| `EvidenceProofs` | TLAPS proofs about `EvidenceGateway` |
| `EvidenceRetention` | Extends the gateway with the retention job |
| `EvidenceRetentionProofs` | TLAPS proofs about `EvidenceRetention` |
| `EvidencePublisher` | `upload` and `publish`: publishers of one run, the gateway's two stages, GitHub's comments |
| `EvidencePublisherProofs` | TLAPS proofs about `EvidencePublisher` |
| `EvidenceWatch` | The CLI's folder watchers, the recorder, and the state file they share |
| `EvidenceWatchProofs` | TLAPS proofs about `EvidenceWatch` |
| `RunCustody` | Abstract: what the test-run ledger promises about accounts and things |
| `TestRunLedger` | Runs, leases and resources, with the product they are about |
| `RunAccountSelection` | `selectRunAccounts` as a machine with the open calls of `augment`, and what it is asked for |
| `TestRunProofs` | TLAPS proofs about `TestRunLedger` and `RunAccountSelection` |
| `AccountProvisioning` | One test account: its record, its product account, and the requests on both |
| `AccountProvisioningProofs` | TLAPS proofs about `AccountProvisioning` |
| `HumanAccess` | The queue, the shared read of memberships, the grants, and e-mailed codes |
| `HumanAccessProofs` | TLAPS proofs about `HumanAccess` |
| `BrowserLogin` | One login of the broker: the main activity, the wait for the navigation, the watcher of the second factor, and the page |
| `BrowserLoginProofs` | TLAPS proofs about `BrowserLogin` |
| `EvidenceGatewayMC`, `EvidenceRetentionMC`, `EvidencePublisherMC`, `EvidenceWatchMC`, `TestRunLedgerMC`, `AccountProvisioningMC`, `HumanAccessMC`, `BrowserLoginMC` | Constants for TLC |

### EvidenceGateway

`runState`, `publicId`, `commentUrl` are columns of `evidence_runs`;
`fileState`, `uploadId`, `completed` of `evidence_files`; `recorded` is
`evidence_file_parts`; `findings` is `evidence_findings`. `upload`, `stored`,
`object` are what MinIO holds: the multipart upload of a file, its parts, and
the objects of the file. `req[q]` is the frame of a handler that awaits
something: `pc` says what, the other fields are the locals it will use
afterwards.

A file of the model is a file id together with the columns that never change:
`RunOf`, `ShaOf`, `KindOf`. All files have the same size, so the ceiling counts
files and "the received bytes add up" means that every part is there. Contents
are abstracted to what the properties tell apart: the declared bytes, or
others; a part has the right etag or a wrong one.

A MinIO call takes two steps: its effect (`Minio...`) and the handler's going
on (`...Resume`). `CallFails` may come before the effect (the call failed) or
after it (the answer was lost).

| Code | Actions |
|---|---|
| `POST /runs` | `CreateRun` |
| `POST /files/init` | `InitFile`, `MinioCreate`, `InitResume`; `InitRejected` when preflight refuses |
| `PUT /parts/:n` | `PutPart`, `MinioPart`, `PartResume` |
| `POST /complete` | `CompleteStart`, `MinioComplete`, `CompleteResume`; `AbortStart`, `MinioAbort`, `AbortResume` when parts are missing |
| `processFile` | `VerifyPass`, `ScanPass`, `Derive`, `Finish`, or `Reject` |
| `POST /publish` | `Prepare`, `Commit` (row update: `PublishRun`) |
| `PATCH /github-reference`, `POST /archive` | `LinkComment`, `Archive` |
| an error of MinIO | `CallFails` |
| the end of the process | `Crash`, and `CrashMidComplete`, `CrashMidReject`, `CrashMidPublish` inside a segment with several statements |

What is taken from outside the repository: MinIO refuses to complete an upload
it no longer knows and a list of etags it does not hold; an object is visible
as soon as it is put; ids drawn at random are new.

### EvidencePublication and the refinement

The abstract state of a run is its phase (private, public, held, withdrawn),
its link, and the set of files shown. `Phase` and `Shown` compute these from
the rows the way `viewer.ts` does. `PublicationPromise` says that the gateway
implements the abstract specification: every step of the concrete one is a
`Reserve`, `Expose`, `Hold` or `Withdraw`, or changes nothing a reader sees.
`EvidencePublisher` has the same mapping from its own, smaller gateway.

The retention job breaks that promise by design: it ends a public run.
`Expunge` is the one thing it may do to a reader, and `ExpungingSpec` the
specification with it; `PromiseBesideJob` of `EvidenceRetention` says that gateway
and job together implement that one, as far as the rows tell: objects are no part
of the abstract state.

### EvidenceRetention

`sweep` is the position of `runRetention`: the list of drafts it took, the run
in hand, the keys left to delete, the videos left to prune. One object is
deleted per step and the gateway may do anything in between. `old` and
`oldVideos` grow as time passes. `deleteRun` is one transaction. A step of a
gateway handler between two awaits is one step here too, although the job is
another process: `deleteRun` removes every row of the run, so it can be
thought to fall before the segment (the segment's writes then fail or touch
nothing) or after it.

### EvidencePublisher

There is one run. `runState`, `publicId`, `commentUrl`, `fileState` are its
rows; `comments` are the comments of the pull request that carry the run's
marker, in the order GitHub lists them, each with the link and the files it was
rendered from. `uploader` is the upload command, `job[p]` a publish command:
what it does next, and the locals it will use (`prepared`, `comment`). `late[p]`
is the request of a `gh` that `spawnSync` stopped after two minutes
(`index.ts:522`): GitHub may carry it out later, or not. `outlived` is a history
variable for one property: how many creations of a comment were on their way when
their `gh` was stopped.

| Code | Actions |
|---|---|
| `runUpload`, `uploadOneFile` | `CreateRun`, `InitFile`, `CompleteReady`, `CompleteRejected`, `UploadRefused`, `UploadDone`, `UploaderStops` |
| `publishRun`: `getRun`, prepare | `Start`, `Prepare`, `PrepareRefused` |
| `upsertRunComment`: `findRunComment`, `writeComment` | `Find`, `Write`; `GhRejects`, `GhTimesOut`, `GithubLate` |
| `publishRun`: commit | `Commit`, `CommitRefused`; `CrashMidCommit` between `publishRun` and `setGithubCommentUrl` |
| a lost answer, a kill | `Stop` |
| `archive` | `Archive` |

A call and its answer are one step, since nobody else can tell when the answer
arrives; a lost answer is the step followed by `Stop`. The gateway is reduced to
what publishing needs of it: how it processes a file is `EvidenceGateway`.
Publish commands are started by anybody at any time, also while the upload goes
on, so the model covers `upload --publish` as well. Files have different
contents, or the second would be answered as a duplicate of the first.

### EvidenceWatch

`size`, `touched` are the directory: the size of each recording, and how long ago
it was last written. `Barred` are the recordings the gateway refuses before it
takes a byte, for name, type or size (`router.ts:142-158`), `Refusable` those with
content it may quarantine. `todo` and `listed`
are the list a tick took of it (`candidateFiles`); `settling`, `done`, `failed`
are the variables of `runWatch` of these names; `saved` is `watch-state.json`,
which all watchers of a user share; `comments`, `published`, `refused` count
what the gateway and GitHub have of a recording. A watcher has one directory,
so what belongs to one recording needs no index for the watcher.

| Code | Actions |
|---|---|
| `runWatch` up to the loop | `Start` |
| `candidateFiles` | `List` |
| one turn of the loop over files, to its `continue` or its await | `Skip`, `StartUpload` |
| `upload` (`index.ts:313`): `uploadOneFile`, `publishRun` | `FileReady`, `PostComment`, `Commit`; `Fails`, `Rejected`, `TornUpload`, `Quarantined` |
| what follows the await, with `saveState` | `Succeeds`, `TryLater` (of a failure), `Quarantined` |
| `sleep`, the end of a sweep | `EndTick`, `Stop` |
| a kill anywhere, or within `writeFileSync` | `Crash`, `CrashInSave` |
| the recorder | `Write`, appending or in place |

Time is counted in poll intervals and kept as ages up to the window, beyond
which no test of the code tells them apart. `Tick` happens only while every
watcher awaits something, since the code between two awaits takes no time worth
counting; `Write` may happen anywhere, because the recorder is another process.
The gateway is reduced to what the watcher can see of it. A file that grew while
it was read is answered `upload_incomplete`, because the last part reads to the
file's present end; one changed in place fails the digest.

A recording refused at `init` is reported as "the gateway refused the upload"
(`client.ts:146-148`). The watcher takes only a message with "quarantined" for a
verdict (`index.ts:332-335`), so it tries a barred recording again in every sweep,
for ever (`Rejected`, then `TryLater`): such a recording is never done, and a
sweep with one never counts as clean.

### TestRunLedger

`status` and `cast` are `test_runs` and `test_run_accounts`, `lease` is
`account_leases`. `state`, `externalId`, `updatedAt`, `deletionStartedAt` are
columns of `test_resources`, and `intent` holds those that never change, with
the rows of `test_resource_parents`. `object`, `madeAt`, `goneAt` are the
truth about the product that the ledger only hears of.

| Code | Actions |
|---|---|
| `create` with `selectRunAccounts` | `Create` |
| `POST /start`, `POST /finish` (`transition`) | `Start`, `FinishRun` |
| `release` | `Release` |
| `planIntent` | `PlanIntent` |
| `transition` of a resource | `Move` |
| `bindProduct` | `BindProduct` |
| `confirmPhysicalAbsence` | `ConfirmPhysicalAbsence` |
| the product | `ProductMakes`, `ProductPurges` |

Every operation is one transaction and one action. A refused call writes
nothing and is no step; a call that repeats an operation key writes nothing
either. `now` is any instant up to the present, which stands for a call held up
on its way. Which cast `selectRunAccounts` takes of several is left open. A
`kind` is part of an object's identity and otherwise only narrows what is accepted (a
user needs an account, two kinds have numeric ids); the model has identities only. Audit events are left out.

The coordinator is not in the repository: `docs/test-lab/resource-ledger.md`
describes what the ledger expects of it, and the model assumes as much:

* a creation is sent only while its row says so, and makes at most one object;
  it may do so when the row already says `create-uncertain`;
* a binding names the object that was made for the row, and is stamped after
  it was made; making it takes at least an instant;
* an observation of absence is true of the instant it names (the ledger's own
  comment: it "must come from an authoritative coordinator");
* an object is purged only after its deletion was sent, at any time;
* a name is given again only when the object that had it is gone.

A clock of the whole system is assumed too: an instant a caller uses is never
in the future.

### RunCustody and the refinement

The abstract state is the phase of each run, the holder of each account, and
the run whose thing is in the product. `phase` and `maker` compute it from the
detailed state, and the holder is `lease`. `CustodyPromise` says that each
step of the ledger or of the product is an `Open`, `Bring`, `Clear` or `Close`
or changes none of this. `Bring` demands an open run, so the refinement says
that a creation carried out late still finds its run open.

### RunAccountSelection

`selectRunAccounts` as a machine. `augment` calls itself; the record of a selection
holds its open calls as a sequence (the slot each is for, and the candidate its loop
is at), the visited set, and the two directions of the matching (`taker`, `given`).
A `Step` is one turn of the innermost loop or the return of a successful call.
`Enter` is the loop over the slots, from the last to the first. `After` is the
selection after n steps, a recursive function; `Selection` is what is there after
`MaxSteps`. That this is enough is proved, not assumed.

| Code | Operator |
|---|---|
| `slotIndex` loop, `new Set()` | `Enter` |
| `continue` | `GoesOn` |
| `return false` | `GivesUp` |
| `previousSlot === -1` | `Takes` |
| `augment(previousSlot, ...)` | `Displaces` |
| the two assignments, `return true` | `Assigns` |

What was asked for is an injective choice of fitting candidates (`Fits`). The
ledger's `Create` leaves open which of several casts is taken; `SelectionIsComplete`
says that the selection finds one exactly when `Create` has one to take.

### AccountProvisioning

`rec` is the record in Infisical, `account` the account in ORISO, `marker` the
deletion marker in SQLite, `lock` the lock directory on the volume. `call[c]`
is a request: `phase` is the call it makes next, `mine` the copy of the record
it works with, `was` the one to be put back. `stamp` stands for `updatedAt`: it
tells which request wrote the record, and becomes "earlier" when the next one
begins. `unlinked` is the row of `test_access_unlinked_records` for the record.
`adrift` holds the writes of the record, and `late` the requests to ORISO, that
their sender has given up on after its 15 seconds and that may still be carried
out, when the lock has long been somebody else's. `delayed` counts the writes and
deletions that were.

| Code | Actions |
|---|---|
| `withAccountMutationLock` | `Enters` in every request, `Release`, `Crash` (the lock directory stays), `OperatorReview` |
| `POST /accounts/:email/oriso-provisioning` (`app.ts`) | `RequestProvision`, `RequestReplace`, `RequestLink`, `RequestSetup` and what follows |
| `POST /accounts/:email/totp` | `RequestEnroll`, `EnrollByHand` |
| `oriso-account-setup.ts`, `oriso-setup-operator.ts` | `RequestOperatorSetup`, `OperatorBinds`, `Stage`, `DispatchSetup`, `PostSetup` |
| `provision` (`oriso-provisioning.ts`) | `Probe`, `Login`, `Reactivate`, `CreateAccount`, `CreateRefused`, `Confirm`, `StoreSeed`, `KeepSeed`, `Activate`, `Verify` |
| the writes of `infisical-writer.ts` | `CreateRecord`, `ReplaceRole`, `LinkPassword`, `WriteRefused`, `RecordReady`, `FoundLive`, `TakeBack`, `ClearMarker`, `MarkFailed`, `RestoreRole`; `WriteLands` of one that was given up |
| `oriso-admin-deletion.ts` | `RequestDelete`, `Preview`, `MarkPending`, `Erase`, `MarkDeleted`, `RecordDeleted` |
| `POST /accounts/delete-candidate-cleanup`, `unlinkTestAccessRecords`, `allowTestAccessRelink` | `Unlink`, `Relink` |
| ORISO | `CarriesOut` within `Sends`, `CarriedOutLate`; `PersonOnboards`, `ProductSoftDeletes` |

`Unlink` takes no lock. It asks the web process for the mutations it has in progress
(`Registered`), which include neither the operator's command nor a machine's
enrolment; a person's enrolment, which is included, is not told apart from the
latter. Which records are candidates, and which are lent to a run, is left open.

A write to the registry (`Saves`) is applied and known to be, reported as an error
with or without effect, or given up on and applied later (`WriteLands`). It carries
the whole record, as the code read it or was told it, and no condition
(`infisical-writer.ts:296-309, 349-365, 408-421`): landing late it passes over
whatever later requests have written. Only a POST is refused when there is a
record by then. A request to the product (`Sends`) is carried out and answered,
carried out unanswered, never carried out, or carried out later. A login is
refused where the product would accept it, too: every probe may fail.

Assumed of what is outside the repository: a request to ORISO names the account
it changes and dies with it, except a creation; a password a person chooses, and
one the hub generates, is in use nowhere else; ORISO accepts an invitation once,
and activates a second factor only with a token its password was exchanged for.
Everything may be late, a DELETE (`oriso-admin-deletion.ts:102`) included.

Nothing in the code guards a record against a write that lands late, or an account
against a late DELETE. So the properties say which promises they break: what a
record holds and what `ready` means are promised as long as none has landed
(`delayed = 0`); how often a setup is sent, who may write a record whose link is
cleared, who takes `ready` away, and the marker of an account erased in time are
promised whatever lands (section 5).

### HumanAccess

`queue` is the line of `createDeadlineQueue` with the deadline each caller got
when it joined; the first one is served. `syncs` says how far the
synchronizations of the one served are: one employee's, or everybody's for the
employee list. `read` and `cache` are `flight` and `cached` of the provider of
memberships, `before` the snapshot of the employee list. A set of memberships is
represented by the instant it was read at, which is what "fresh" is about.
`answered` is what the hub last told somebody of an employee's grants.

| Code | Actions |
|---|---|
| `createDeadlineQueue` | `Joins`, `Begin`, `Expire` |
| `syncHumanUserUnsafe`, `projectsFor` | `StartSync`, `ReadTaken`, `ReadAnswered`, `ReadFails`, `TimesOut` |
| `GET /auth/users` | `AskForList`, `Listed` |
| `GET /auth/me`, `requireActiveHumanSession` | `AskForAccess`, `Served` |
| `POST /auth/email-otp/request` | `AskForCode`, `CodeMailed`, `MailAccepted`, `MailRefused` |
| `POST /auth/email-otp/verify` | `TryCode`, `SignedIn` |
| the end of the process | `Restart` |

Timers fire on time and the event loop is not held up: `Tick` happens only while
the one served awaits something and its deadline has not come, or nobody is in
line. `Restart` sets `answered` to what is stored, since a new process has told
nobody anything. Whether an employee has any access at all (memberships and
local grants together) is left open at each answer.

### BrowserLogin

`main`, `attempt`, `recovered` are the main activity of `playwrightLogin` with
`activateLoginSubmit` and its callbacks; `nav` is `postLoginNavigation` and
`navHeld` whether somebody awaits it; `otp` is `otpChallenge`. The page is where
it is (`url`), whether its form is filled, whether it shows a field for a code,
and whether a click has reached it that it has yet to act on (`clicked`);
`requested` is `submissionMayHaveStarted`, and `posts` counts how often the page
has sent the credentials for the main activity.

| Code | Actions |
|---|---|
| `activateLoginSubmit` | `Locate`, `LocateFails`, `Click`, `ClickThrows`, `LookAfterClick`, `LookAfterRetry`, `PressEnter` |
| `prepareRetry` (lines 454-466) | `NothingToRecover`, `FindFormReset`, `Refill`, `SubmitThrows` |
| `page.waitForURL` | `NavArrives`, `NavTimesOut` |
| `otpChallenge`, `isOtpChallenge`, `getOtp` | `OtpSeen`, `OtpNeverSeen`, `Judge`, `CodeObtained`, `CodeMissing`, `TypeCode`, `TypingThrows`, `OtpSettles` |
| `Promise.race` and what follows | `RaceWon`, `RaceLost`, `Opened`, `VerifyThrows` |
| the page | `PageSubmits`, `PageMounts`, `PageRefuses`, `PageAsksForCode`, `PageGoes` |

`url` is where the form was filled ("login"), at an identity provider ("idp"), or
at any other address of the application, "app" once the page has stored a session
and "elsewhere" before. The page moves between them as it likes: it may show an
error or a second factor at another address of the application, or go back to the
form. The code cannot tell these from a login that got through: for `waitForURL`
any other address of the application will do (lines 396-399), and only accounts
with `requiredAuthState` are asked for a session afterwards (482-488).
`isOtpChallenge` may or may not take such an address for a challenge, by its path.

Assumed of the page: a form without values is not sent; the late mount happens
once, and before anything was sent; it goes to an identity provider, or stores a
session, only after a POST, and keeps a session it has stored; and it has dealt
with a click by the main activity's last look at what a failed click may have
started (`LookAfterRetry`), which comes at least 100 ms later. Without that last
assumption no code could keep a click from acting after the decision to try again.

## 3. What TLC checks

| Run | Question | Result |
|---|---|---|
| `gateway` | Can two concurrent handlers on two logs and a video of one run, with failing calls and a process that stops anywhere, show a reader anything but verified files of a published run, and by how much can concurrent inits pass the size ceiling? | no, and by fewer files than there are requests: six properties hold |
| `late_file` | Does a closed run gain a file? (`router.ts:209` says it must not) | yes, finding |
| `retention` | What may the job delete beside a working gateway, and does every old draft leave? | four properties hold |
| `retention_race` | Is what was published or quarantined out of the job's reach? (`retention.ts:10`) | no, finding |
| `watch` | What does a watcher upload, repeat or lose, with a recording the gateway never takes and another it may refuse, a failure, a crash and any number of stops, and does the other end on the done list for good once it is finished? | three properties hold |
| `publisher` | With two publishers, lost answers, kills, a stopped `gh` and a gateway that stops in commit: do links change, how many comments can there be, is anything published unannounced, and does trying again help? | no; one for each publisher and for each `gh` stopped with its creation on the way; no; and yes: four properties hold |
| `provisioning` | With two requests at a time on one account, failing, unanswered and late calls to both systems, and processes that end anywhere: until a write lands late, does the record open the account and does ready mean verified; and whatever lands, how often is a setup sent, who takes ready away, who writes a record whose link was cleared? | six properties hold |
| `late_delete` | Can an account that the hub deleted show as ready? (`oriso-admin-deletion.ts:99-100`) | yes, finding |
| `role_contradiction` | Does a ready record agree with the product about the role? (comment at `app.ts:729-731`) | no, finding |
| `access` | Whose grants are stored in the end, how long does anybody wait, and how often does a code count, when reads hang, fail or are abandoned? | five properties hold |
| `browser` | With a page that mounts late, loses clicks, refuses in place or elsewhere, shows fields for codes and moves as it likes: does the main activity send the credentials twice, is a session handed out without an arrival, or without being there where it is required, does every login end? | no, no, and yes: three properties hold |
| `ledger` | Can late and lost creations, background deletion, late calls and early evidence make the ledger free an account that is still used, or lose track of a resource, and does the selection of accounts find a cast whenever there is one? | no, and yes: seven properties hold |

The properties, in words:

* `PublishedHoldsNoRejected`: a published run holds no refused file, also when
  the process stopped inside `reject` before the run was quarantined.
* `ServedBytesVerified`: every object sent for a ready file holds the declared
  bytes or what was made from them.
* `QuarantineExplained`: a quarantined run has a refused file with a finding.
* `VerdictIsFinal`: a file is decided once, although two `complete` requests can
  both pass the guards.
* `PublicationPromise`: see above.
* `CeilingOvershootBounded`: fewer files over the ceiling than requests.
* `YoungRunsAreReadable`, `SettledRunsAreSpared`: whatever the job does and
  wherever it is stopped, a ready file of a young run, or of a run that was
  published, quarantined or archived before the job made its list, keeps
  what its readers are sent.
* `DeletedRunHasNoRows`: a handler that waited while its run was deleted writes
  no row for it.
* `OldDraftsLeave`: an open run past the window is closed or deleted in the end.
* `FaultsExplainDuplicates`: with one watcher, each comment of a recording
  beyond its first goes back to a failure or a crash, never to a restart, and
  no run is public without its comment.
* `NothingLost`: what the state file counts as done was published or refused.
* `FinishedIsSettledForGood`: a recording nobody writes any more stays on the
  done list in the end, unless the gateway bars it; one that is barred is tried
  again for ever and must not keep the others from their turn. Being refused
  counts: a recording written in place while it is uploaded fails its digest and
  is never tried again (`index.ts:143`), as the model shows.
* `NothingLeftBehind`, `ReleasedIsFinal`: a released run has nothing in the
  product, and nothing of it changes there or in the ledger.
* `DeletedIsGone`: evidence from before the creation or the deletion never
  proves an absence.
* `AccountStaysWithObject`: the account of an object in the product is leased
  by the object's run.
* `ParentsOutliveChildren`: in the product, and not only in the ledger.
* `CustodyPromise`: see above.
* `SelectionIsComplete`: the selection ends, finds accounts exactly when there are
  any, and they fit; in every small pool, and with the accounts of the ledger that
  are not leased in every state.
* `CredentialsAreKept`: whatever was lost, cut off or is still under way, once the
  hub has set the account's password or armed its second factor, the registry
  holds what opens it, until a write or a deletion lands late.
* `SetupSentOnce`: over any retries and restarts a required setup is sent once for
  an account, and once more at most for each write that landed late.
* `ErasedInTimeIsMarked`: an account the hub erased in answer to its DELETE never
  shows as ready without the marker, whatever record a late write brings back.
* `ErasedIsMarked` fails: a DELETE that timed out is carried out after a
  provisioning has found the account alive and cleared the marker.
* `ReadyIsVerified`: until a write or a deletion lands late, a record becomes ready
  only if the account accepts exactly its password and seed.
* `ReadyIsNotDowngraded`: no request takes `ready` away for an older attempt; only
  a write of it that lands late can.
* `UnlinkedIsLeftAlone`: while a link is suppressed only a deletion, an enrolment or
  the setup operator writes the record, or a write given up on before lands; no
  provisioning that had started before the clean-up does.
* `RoleAgreesWhenReady` fails: the handler that gives up after the write which
  replaces a role leaves the new role pending when that write was applied, and
  the next request authenticates the account of the old role under it.
* `SettledGrantsWereTold`: between two callers the stored grants are those last
  told; a degraded employee list leaves nothing of itself and takes nothing of
  others back.
* `AnsweredInTime`: nobody waits past the time-out counted from joining the queue.
* `GrantsAreFresh`: grants come from memberships read at most a cache's life and
  a time-out ago, never from older ones than before.
* `CodeOpensOneSession`: also when it is sent in again while the first try waits.
* `CodesAreApart`: two codes of an employee are a cooldown apart.
* `LinksNeverChange`: every comment carries the one address of the run, whoever
  rendered it and whenever.
* `PublishedIsAnnounced`: a published run has a comment, and no comment shows a
  file that readers cannot open.
* `CommentsDoNotMultiply`: a run gets at most one comment for each publisher and
  one for each creation that was on its way when its `gh` was stopped, however
  often each of them tries again. `github.ts:79` says "the same run always updates
  its own comment", which is more than the code keeps (section 5).
* `RetryPublishes`: a run whose upload succeeded is published in the end if
  somebody keeps trying.
* `SubmittedOnce`: neither a request that a failed click has started nor a login
  the page has refused is followed by another.
* `OpenedHasArrived`: a state file means that the wait for the navigation saw the
  page at another address of the application, whatever the watcher of the second
  factor made of it, and that the session is stored where one is required. For the
  other accounts it does not mean that the login got through (section 5).
* `LoginEnds`: though the page may never move and the hub may never answer.

The type invariants and some invariants that carry the proofs
(`NoReadyFileInDraft`, `OneProcessor`, `LeasesAreCasts`) are in no run: they are
proved for every instance (section 4).

### Bounds

* `gateway`: one run, a video (served as two derived objects) and two logs (served
  as they were uploaded), one part, two handlers, two public ids, no comment url.
  Runs share nothing but the public ids, so a second run adds no interaction; two
  handlers are enough for every conflict the code can have, since a handler
  conflicts with others through rows and objects, and a part of the same number may
  be sent twice with other bytes, so one part gives mismatching etags. The ceiling is
  one file: three files and two handlers pass the bound by one if it can be
  passed. The proofs below have no bounds.
* `retention`: one run with one video, two handlers, one comment url, and a job
  that can fail once in any place. One run suffices: the job treats the runs of its list
  independently of each other.
* `MaxFailures` bounds the failures of the job. It is what makes
  `OldDraftsLeave` a liveness property worth having: the job fails finitely
  often, at any moment.
* `watch`: one watcher and two recordings, so that one waits while the other is
  uploaded, the first of them barred and the second refusable, so that what can
  never be done always stands in front of what must be; sizes up to two, the least that lets a
  file grow; a window of two polls, the least that lets a file be written in
  the middle of it; one failure and one crash, stops without bound.
* `publisher`: two publishers, so that one meets what the other does or left; two
  files, so that one may be refused or missing while the other is ready; two
  failures, so that a retry may fail again. A publisher that ends frees its place,
  so any number come one after another.
* `browser`: `MaxPosts` of two, the least that shows a second submission.
* `ledger`: two accounts, one of which can play both roles; two runs, so that
  an account passes from one to the other, of which only the first is for the
  product; two resources (a parent and its child, or rivals for one object), two
  keys, and two identities. Three instants are the least that let an object be
  made, its evidence be too old, and a call be held up; a creation takes an
  instant, so both resources can be made. `Results` has one result: the ledger
  never asks which one a run finished with. The proofs have no bounds.
* `provisioning`: two requests, so that one meets what another left or is in the
  middle of (a crashed one frees its slot, so any number come one after
  another); three passwords, the stored one, the product's and a new one; two
  seeds; three roles, an application role that can be soft-deleted, one that can
  be set up (and whose invitation a person may take up himself) and an
  administrator, which together reach every branch by role. `MaxLate` bounds what
  is outstanding at once, a write or a request to the product, and `MaxDelayed` the
  writes and deletions that are ever carried out late; both are one. The `VIEW`
  forgets what cannot matter any more: what a request that is done held, and when
  the record was written if nobody is at work. `late_delete` and
  `role_contradiction` need one request only.
* `access`: two employees, so that one's failure can undo the other's grants,
  one of whom signs in by code; two callers in line; a time-out of two, a cache's
  life of one and five instants, so that a deadline passes in the queue, in a
  read, and with a cached list that has run out; two codes, two attempts.
* `RunAccountSelection`: all pools of up to three accounts with any of three roles,
  and all demands of up to three slots: the least in which a chain of displacements
  has two links, so that a visited candidate matters. `MaxSlots` bounds what `ledger`
  asks of the accounts of its state. The proof has no bounds.
* Handlers, public ids and the two logs are interchangeable in `gateway`,
  resources, keys and identities in `ledger`, requests, passwords and seeds in
  `provisioning`; symmetry is used in these runs only, which check no liveness.

The gateway's `Crash` is always possible, so the deadlock check says nothing in
its models; that no handler waits for another is visible in the code (there are no
locks in `src/evidence`). A watcher polls for ever, so it cannot stop either.
The ledger does stop when every run is released and time is used up, so `ledger`
does not check for deadlock.

### Fairness

`FairRetentionSpec` assumes weak fairness of the job's own steps.
The CronJob is started daily with `concurrencyPolicy: Forbid`
(`k8s/evidence/cronjob.yaml`), and within a run the loop goes on to the next
object. Nothing is assumed of clients, of MinIO or of the gateway.

`FairSpec` of `EvidenceWatch` assumes that time passes and that a watcher goes
on: its event loop turns, a request is answered (or ends by its timeout, a
`Fails` step), and somebody starts it again after a stop. Failures and crashes
are finite in number, by their bounds; stops and writes in place are not.

`FairSpec` of `EvidencePublisher` assumes that a publish command goes on and that
somebody starts another after one that failed; failures are finite in number by
their bound, and nothing is assumed of the upload.

`FairSpec` of `BrowserLogin` assumes that the main activity goes on, since each
of its waits has a time-out, that the wait for the navigation arrives or times
out (15 s), and that a click is dealt with. Nothing is assumed of the page
otherwise, of the hub's answer to `getOtp`, nor of the watcher.

`TestRunLedger` has safety properties only: nothing in the repository drives a
run to its end, and the code lets a row stay `create-uncertain` for ever, as the
document says it shall.

## 4. What is proved

`EvidenceProofs` proves, for any finite sets of files and handlers, any runs,
parts, kinds and ceiling, from the two assumptions on constants in
`EvidenceGateway` (one is that the null value is none of the real ones):

| Theorem | States |
|---|---|
| `TypesCorrect` | `TypeOK` |
| `InvariantHolds` | `IndInv` |
| `NoRejectedFileIsPublished`, `OnlyVerifiedBytesAreServed`, `QuarantineHasAFinding` | the safety invariants of `gateway` |
| `FilesAreProcessedOnce`, `ReadyFilesLeaveDraft` | `OneProcessor`, `NoReadyFileInDraft`: processing never ends in a draft run, although `complete` decides by the state it read before its await |
| `VerdictsAreFinal` | `VerdictIsFinal` |
| `GatewayKeepsPromise` | `PublicationPromise` |
| `OvershootIsBounded` | `CeilingOvershootBounded` |

The argument. None of the safety invariants is inductive. What holds them
together is that MinIO completes an upload once:

1. A file is pending from its row to its verdict, and a handler between
   `MinioComplete` and the verdict has a pending file whose upload is gone
   (`ProcessingIsPending`). As the upload is gone no second handler can get
   past `MinioComplete` (`OneProcessor`), and after the verdict the upload
   stays gone (`VerdictClosesUpload`), so nothing replaces the original.
2. `publish` refuses a run with a pending file, so a run with a file in
   processing is not published, and neither is one for which MinIO may still
   accept a completion (`OpenCompletionHoldsRun`: such a file is pending as
   well). Hence a verdict is never given in a published run, which gives
   `PublishedHoldsNoRejected` and keeps what is shown fixed.
3. `ProcessedSoFar`: a handler past the digest check has an original with the
   declared bytes, and what it has derived so far was made from them.
4. `DraftSeen`: a handler that saw the run in another state than draft is right
   to leave it alone, since no run returns to draft.

`IndInv` is the conjunction, and implies each invariant of `gateway`. The
refinement is proved by mapping each action to an abstract one under `IndInv`.

Each conjunct about files is stated of a set of them (`RowParts(Y)`, `FrameParts(Y)`),
and that a step keeps it is proved for any set: with all files this is the gateway
alone, and with those the retention job spares it is the gateway beside the job.

The overshoot of the ceiling has an invariant of its own, `CeilingInv`: a
handler between the test of the ceiling and the row of its file will add at most
one file, so the files of a run and the handlers about to add one are counted
together. Only the segment with the test raises that count, by one and from below
the ceiling if no handler is about to add; the sum stays below the ceiling plus
the number of handlers.

`EvidenceWatchProofs` proves, for any recordings, watchers, window and bounds:

| Theorem | States |
|---|---|
| `WatchTypesCorrect` | `TypeOK` |
| `NothingIsLost` | `NothingLost` |
| `OneWatcherRepeatsOnlyForFaults` | `FaultsExplainDuplicates`, for one watcher |

Each has an invariant of its own. `LossInv`: memories as well as the file hold
only what is accounted for, and a watcher whose commit is done has published.
`DuplicateInv`: a comment is for a recording on the done list, for the upload
at hand, or is matched by a fault. It needs that the one watcher remembers all
the file holds (`RemembersFile`), which a second watcher breaks (section 5).

`TestRunProofs` proves, for any accounts, runs, roles, demands, resources and
times, from `LedgerAssumption`:

| Theorem | States |
|---|---|
| `LedgerTypesCorrect` | `TypeOK` |
| `LedgerInvariant` | `IndInv` |
| `LeasesAreAlwaysCasts` | `LeasesAreCasts` |
| `ReleasedRunsAreClean`, `DeletionsAreProved` | `NothingLeftBehind`, `DeletedIsGone` |
| `AccountsStay`, `ParentsStay` | `AccountStaysWithObject`, `ParentsOutliveChildren` |
| `ReleaseIsFinal` | `ReleasedIsFinal` |
| `LedgerKeepsCustody` | `CustodyPromise` |
| `SelectionFindsWhatThereIs` | `FindsWhatThereIs`, for any slots, candidates and roles |
| `SelectionIsAlwaysComplete` | `SelectionIsComplete` |

None of the invariants but `TypeOK` and `IndInv` is inductive, since they speak of
the product and the ledger writes only its own rows. `IndInv` links the two:

1. `RowFacts`, about one row. What the product has of it goes with its state:
   nothing before `creating`, perhaps something while creating, the bound
   object afterwards, nothing any more when `deleted`. And the times are in
   order, creation before binding before the deletion's start:
   `madeAt[x] <= deletionStartedAt[x]`. A proof of absence is no older than the
   deletion's start, hence no older than the object, so it can be true only if
   the object was purged. That order is what the test against `updatedAt` in
   `current` keeps.
2. `RowsHeld`, about a row and its run. A row that is not terminal has an open
   run, and its account is leased to that run.
3. `Families`, about a row and its parents. No parent of a row that is not
   terminal is being deleted, and once the row is past `planned` all its parents
   are present: `creating` asks for that, and `deleting` asks that no child be
   left.

`NothingLeftBehind` and `AccountStaysWithObject` follow from 1 and 2,
`ParentsOutliveChildren` from 1 and 3; that no row but those of open runs is
unfinished gives `ReleasedIsFinal` and the refinement.

The selection is a program that runs to its end, so its proof is one of a loop:
an invariant, what it means at the end, and a measure.

1. `Sound` is the invariant. `Matched`: the slots behind the current one have a
   candidate each, and both directions of the matching agree, but for the one
   candidate that is being passed on. `Chained`: the open calls are a path, each waits
   for the holder of the candidate it visited, and no slot is called twice. That is
   why an assignment, which overwrites one end of two pairs, breaks neither.
   `Explored`: whoever plays a slot the search has come to is visited or lies ahead
   of an open call, and who is visited is taken.
2. A search that has failed has no open call. So all who play any of the slots
   reached are visited; and each of these slots but the current one is the holder of
   exactly one visited candidate. The slots are one more than those who could play
   them, so no assignment exists (`FailedIsImpossible`).
3. `ToGo` counts what is left: for the current slot every candidate not visited may
   still open a call that looks at all candidates, and the open calls look at those
   ahead of them. Every step lowers it (`StepEnds`), and it is at most `MaxSteps`.
   TLC has confirmed both on all pools of up to three candidates of two roles.
4. `After` is defined by recursion, which needs a proof that such a function exists
   (`RunsExist`, `RunsAgree`, `AfterIs`). The inductions are said of sets of numbers
   (`Upwards`), from the well-foundedness of the order, since the theorems of the
   library on induction take an operator.
5. Slots and candidates are finally turned into accounts and the parts they play by
   bijections, role by role (`FitsServes`, `ServesFits`).

`HumanAccessProofs` proves, for any employees, time-out, cache life, cooldown,
number of guesses and length of the line, from `BoundsAreNumbers`:

| Theorem | States |
|---|---|
| `AccessTypesCorrect` | `Types` |
| `CallersAreAnsweredInTime` | `AnsweredInTime` |
| `GrantsStayFresh` | `GrantsAreFresh` |
| `StoredGrantsWereTold` | `SettledGrantsWereTold` |
| `CodesStayApart` | `CodesAreApart` |
| `CodesOpenOneSession` | `CodeOpensOneSession` |

Again each has an invariant of its own:

1. `Punctual`: deadlines are a time-out after joining, and callers join in the
   order of time. So while the deadline of the first one is ahead, all are; and
   time passes only then, since what the first one awaits ends at its deadline.
2. `Fresh`: a read in flight has somebody who waits for it (`ReadIsAwaited`, which
   the abort of an abandoned read keeps), so it belongs to the caller who is
   served. What it finds is newer than the cached list (`ReadIsNewer`), and that
   is newer than all that is stored and than the snapshot (`CacheIsNewest`).
   With `Punctual` the read is at most a time-out old when it is answered.
3. `Truthful`: while a caller is served the stored grants differ from the told
   ones only where it has finished a synchronization; for the employee list the
   snapshot is what was told. It rests on the queue: nobody else writes.
4. `OneMail`: an employee has one request for a code at most, in line or with
   the mail server, which is what the set of requests being worked on is for.
5. `OneStage`: a code is with the mail server, or stored, or tried by one caller
   in line, or used, in one of these at a time and never back.

TLC has checked these invariants on the instance of `access` as well.

`EvidencePublisherProofs` proves, for any files, publishers, addresses and number
of failures, from `PublisherAssumption`:

| Theorem | States |
|---|---|
| `PublisherTypesCorrect` | `TypeOK` |
| `LinksAreForGood` | `LinksNeverChange` |
| `PublishedRunsAreAnnounced` | `PublishedIsAnnounced` |
| `CommentsStayFew` | `CommentsDoNotMultiply` |
| `PublisherKeepsPromise` | `PublicationPromise` of this module |

What a comment will carry is held by a publisher or by a request on its way long
before it is written, so each invariant extends the property to those. `OneLink`:
every link held is the run's, since COALESCE never replaces it. `Announced`: every
body held names ready files only, and a ready file stays ready, as its upload is
over; a publisher past its write has left a comment. `Bounded` counts together the
comments there are, the publishers about to create one and the creations on their
way without a `gh`: a publisher begins to create only when it found no comment, so
while there is one no new creation begins, and at first there are fewer than there
are publishers; only a `gh` that is stopped makes a publisher free to begin again,
and that is counted.

The refinement needs that a run is created once (`RunIsCreatedOnce`) and shows nobody
anything before it is published. It is checked by no run of its own; TLC has
confirmed it on the instance of `publisher`.

`AccountProvisioningProofs` proves, for any requests, passwords, seeds, late
requests and late writes:

| Theorem | States |
|---|---|
| `ProvisioningTypesCorrect` | `TypeOK` |
| `ProvisioningInvariant` | `ProvisioningInv` |
| `CredentialsNeverLost`, `SetupIsSentOnce` | `CredentialsAreKept`, `SetupSentOnce` |
| `ErasureShows` | `ErasedInTimeIsMarked` |
| `ReadyMeansVerified`, `ReadyStays` | `ReadyIsVerified`, `ReadyIsNotDowngraded` |
| `ClearedIsLeftAlone` | `UnlinkedIsLeftAlone` |

It assumes `RolesAreKnown`, `NullsAreDistinct` and `AbsenceIsDistinct` (no record and
no account are values of their own), and nothing of what may be late.
`ProvisioningInv` is the conjunction of a part that holds always,

1. `Types` and `OneAtATime`: only the request whose lock it is is at work.
2. `SentIsNoted`: a setup that was sent is noted in the record, or a write that
   landed late has taken the note back; `Dispatches` counts a request about to send
   one as one that has.
3. `ErasureIsMarked`: an account erased in time has the marker, which a request
   clears only after it saw an account (`Saw`), and then nothing was erased.

and of one that holds until a write or a deletion lands late (`OnTime`),

4. `Copied` and `Knows`: the copy of a request at work has the record's role,
   password, seed and setup, and what it has found out (`Opens`: the account takes
   password and seed) still holds.
5. `Outstanding`: whatever the product may still carry out was sent with the
   password and the seed the record holds, and these are final (`Extending`): once
   the setup is submitted or the seed stored, no write changes either or the
   password. That is why an answer may be lost, or a request carried out after the
   next one.
6. `Kept`: so a product account the hub has touched is opened by the record.

Without `OnTime` 4 to 6 are false: a write that lands while a request is at work
changes the record behind its copy. `StatusMoves` lists how a step may change the
record's status; the two action properties about it follow with 4, unless the step
is a landing. For a cleared link, 1 says that no request the clearing looks for is
at work.

`BrowserLoginProofs` proves from `PostsAssumption`:

| Theorem | States |
|---|---|
| `LoginTypesCorrect` | `TypeOK` |
| `CredentialsAreSentOnce` | `SubmittedOnce` |
| `OpenedLoginsHaveArrived` | `OpenedHasArrived` |

`OnePost`: where the main activity may click again, no click is waiting to be dealt
with and nothing was sent. `requested` is set with the first post and never reset,
and `LookAfterRetry` looks at it before every new click. `TrueArrival`: whichever
of the two waits the main activity goes on from, the wait for the navigation has
arrived; the watcher ends well only with it. Neither proof uses anything assumed of
where the page goes, or when.

`EvidenceRetentionProofs` proves, on top of the gateway's own lemmas,

| Theorem | States |
|---|---|
| `RetentionTypesCorrect` | `RetentionTypeOK` |
| `DeletedRunsStayEmpty` | `DeletedRunHasNoRows` |
| `RetentionInvariantHolds` | `RetentionInv` |
| `YoungRunsStayReadable` | `YoungRunsAreReadable` |
| `SettledRunsStay` | `SettledRunsAreSpared` |
| `JobKeepsGatewaySound` | `PublishedHoldsNoRejected`, `QuarantineExplained`, `NoReadyFileInDraft`, `OneProcessor`, with the job beside the gateway |
| `OvershootIsBoundedBesideJob` | `CeilingOvershootBounded`, likewise |
| `RetentionKeepsPromise` | `PromiseBesideJob` |

`RowsHaveRuns`: rows of files, parts and findings belong to runs that have a row.
The job deletes the rows of a run together, and a handler that waited meanwhile
can only insert where the run's row is still there, which the foreign keys see to.

The gateway's `IndInv` does not hold beside the job, which deletes objects of
published runs. `RetentionInv` is what is left of it: the parts about rows and
handlers of all files, the parts about objects of the files of young runs, which the
job never has in hand (`SweepInv`). A step of the gateway keeps that because its lemmas
are stated of any set of files; a step of the job keeps it because it only takes rows
and objects of old runs away (`GoneFileKeeps`) and prunes originals nobody is sent.
That a run which is no longer a draft when the list is made stays off it, gives
`SettledRunsAreSpared`. The plain `PublicationPromise` is false beside the job, as TLC
shows in a few steps; with `Expunge` it is proved. That is a statement about rows: the
list of a public run, which is computed from them, never shrinks to a part. Whether
the listed objects are still there it does not see; a run that is published in
mid-sweep loses them before its rows, and keeps its rows without them if the sweep
fails (`retention_race`).

Only model-checked: liveness (`OldDraftsLeave`, `FinishedIsSettledForGood`,
`RetryPublishes`, `LoginEnds`), which is out of this prover's reach. Every other
property of the passing runs is a theorem.

## 5. Not modelled

* The audit log (`evidence_events`), metrics, and the scope checks on machine
  identities: they change nothing the handlers read.
* What the scanners look for: their verdict is a choice.
* MinIO effects that come after the process that asked for them has stopped and
  a successor has started; the effect falls before the crash or not at all.
* `processRun`, which nothing calls.
* A watcher without a pull request, whose runs stay drafts; recordings deleted
  or renamed while they are watched; the exit code of `watch`.
* Range requests, HTML, the read API, the integrity check and the probe.
* Of the CLI: how the pull request is found (`resolveTarget`), `status`, and two
  files of the same contents in one upload, the second of which is answered as a
  duplicate whatever state the first is in.
* The formats the resource ledger checks, its audit events, who may
  call the routes of the test runs, their command line and fixture plans.
* Of account changes: the role agency-admin (its binding names a product id, and
  it can be both set up and deleted), usernames chosen for application roles,
  `ensureInvite`, audit events, catalogue fields. How often a login is
  tried and with which back-off: any try may fail.
* Of sign-in: administrators and local grants, which the queue does not serve;
  limits per network address; passkeys and recovery codes, whose use is one
  conditional statement each; the expiry of sessions; changes of an employee's status.
* Of the browser login: how fields are recognised, `waitForChatUnlock` (best
  effort, never fails the login) with whatever the page does in that time, the
  choice of a proxy, the removal of the state file by a detached shell, and what of the credentials the watcher sends again when
  it submits a form with a code.
* The directory, the release list and workspaces: single statements or single
  transactions on one database, which nothing interleaves with. Of the links of
  records only their suppression is modelled (`Unlink`, `Relink`): a reconciliation
  stores again what the registry says.
* The web client, the static sites and their generators: presentation, with no
  state that anything else relies on. They are the larger part of the
  repository's lines.

Known from the models, without a run of its own. The first four contradict a
comment each, as the expected violations do; the runs there are go to those whose
counterexample says most:

* A file that is still being written may be uploaded, although "the watcher waits
  for the size to stop moving" (`watch.ts:4-6`) and `stableMs` is "how long a file's
  size must stay unchanged before it counts as finished" (`:43`): the sizes are
  read before the uploads of the tick, and after a long upload the next file is
  judged settled by its old size and the new time. If it grows while it is read the
  gateway answers `upload_incomplete` and the watcher tries again (`TornUpload`); if
  it does not, what there was is published.
* A run may have several comments, though "the same run always updates its own
  comment" (`github.ts:79`): two publishers that both look before either writes
  make one each, and so does a creation carried out after its `gh` was stopped at
  120 s, when the retry has looked already. `CommentsDoNotMultiply` says how many.
* A write to the registry that is aborted after 15 s (`infisical-writer.ts:97`) may
  be applied when later requests have written the record, and brings back what it
  carries. It undoes newer metadata and a second factor ("preserves concurrent
  metadata and TOTP enrollment", `infisical-writer.ts:341-342`); a late write of
  `failed` takes `ready` from a newer attempt ("A failed older attempt must not
  downgrade a verified account", `:395`); a late write of a binding takes back that a
  setup was sent, which is then sent again ("A lost response must never trigger a
  second password change, even after restart", `oriso-account-setup.ts:108-109`).
  `delayed` in the properties of `provisioning` marks each of these cases.
* For an account without `requiredAuthState` any other address of the application
  is a success, also `/login?error` or a second factor shown there, although the
  comment at `playwright-login-broker.ts:420-426` expects such a login to time out.
  The state file may then hold no session.
* Two watchers of one user overwrite each other's `watch-state.json`: each reads it
  when it starts and afterwards writes its own list over it (`watch.ts:121`,
  `index.ts:483`), so one of them, stopped and started, publishes a recording again,
  although `watch.ts:33` and the test at `tests/evidence/watch.test.ts:133` ("even
  across restarts") promise otherwise. `EvidenceWatch` with a directory for each of
  two watchers shows it with no failure and no crash.
* `keysOf`, "Every key a run could own" (`retention.ts:34`), does not list the
  entries of an unpacked Playwright report (`processing.ts:151-157`), so they stay
  in the bucket after their run was deleted; `SweptVariants` of `EvidenceRetention`
  leaves out "report" as the code does.
* If the browser login's submission throws before the race is reached
  (`SubmitThrows`), nobody awaits `postLoginNavigation`; closing the browser rejects
  it, and Node ends the process for an unhandled rejection (outcome "crashed"). The
  error is not reported.
* An upload of a file whose first upload was cut off is answered as a duplicate
  (`router.ts:138`) in whatever state it is, so the resumption that
  `index.ts:172-173` describes never happens.

And without a property because no document says otherwise:
a file whose `complete` failed after `completeFile` stays pending and blocks the
publication of its run until the retention window ends; an upload whose `init`
failed after MinIO created it is never aborted; `complete` before the last part
aborts the upload; a creation that never reached ORISO leaves a pending record
whose login is refused, which the same role cannot provision again; an employee
disabled while a verification awaits the synchronization still gets a session.

## 6. Plan

All safety properties of the runs are theorems. What proofs could still add is
agreement between the models: that the gateway `EvidencePublisher` and
`EvidenceWatch` reduce to what they need is implemented by `EvidenceGateway`, and an
abstract specification of what a test account's record promises, implemented by
`AccountProvisioning`.

Further modules worth their while are few: passkeys and recovery codes, and the
compare-and-set of the release list.
