# A TLA+ model of the AI Workshop backend

AI Workshop is a FastAPI modular monolith with a Celery worker, PostgreSQL, Elasticsearch, a
file-based object store and a Next.js frontend. Users upload documents to workspaces; the
backend stores and verifies the bytes, and its RAG lab parses, chunks, embeds and indexes
them for search, answers questions about them in conversations, and evaluates its
configurations. This directory holds TLA+ modules that model the part of the
backend in which several processes change shared state and may fail between any two steps,
the TLC runs that check them on small instances, and proofs for every instance.

Source paths below are relative to `src/backend/src/ai_workshop/`. `PROJECT.json` maps each
definition to its lines.

## 1. Inventory

### 1.1 Components

| Component | State it keeps | Operations that change it | What makes it correct |
|---|---|---|---|
| Asset upload (`platform/assets/intake_service.py`, `tracked_uploads.py`, `infrastructure/object_store`) | intake journal, original-upload journal, temporary and canonical files, document and version rows | reserve, write, link, journal, attach, discard, close, clean | a version always has its bytes; every file has a journal row; no duplicate bytes or numbers |
| Asset verification (`platform/assets/dispatch.py`, `tasks.py`, `worker.py`) | job row, version status, active version, Celery messages | claim, send, mark failed, begin, verify, retry, succeed, fail, hand over | READY iff verified; the newest READY version is active; every job ends |
| Jobs (`platform/jobs`) | status, stage, attempt | start, advance, succeed, fail | an outcome is final |
| RAG dispatch (`labs/rag/ingestion/dispatch.py`, `repository.py`) | dispatch rows with claim tokens | ensure, claim_ready, send, mark_sent, mark_failed, cancel | one claim decides a row; every row is sent or cancelled |
| RAG ingestion (`labs/rag/ingestion/tasks.py`, `service.py`, `stages.py`, `artifact_*.py`) | job, projection, artifact slots and attempts, files, index build, alias | the stages parsing, chunking, embedding, indexing, activation, fail, retry | job and projection agree; artifacts come from each other; READY is searchable |
| Asset hand-over and inactive-source recovery (`labs/rag/ingestion/handoff.py`, `recovery.py`, `locking.py`) | ingestion rows, failure ledger | end inactive ingestions, reconcile aliases, ensure, record failure, resolve | healthy hand-overs are not starved; inactive ingestions end |
| Index tracking (`labs/rag/indexing/tracking_service.py`, `recovery.py`) | index registrations, write attempts, cluster observations | register, reserve, finish, reconcile | an alias never points at an index that is not authoritative |
| Alias journal and alias recovery (`labs/rag/indexing/alias_*`) | alias operations with phase and result, the gate of the cluster with its claim, receipts | reserve, dispatch, finish; preview, freeze, recover, release | a closed operation is over; only the open operation of an alias moves it |
| Access epochs of the search cluster (`labs/rag/indexing/access_epoch_*`) | epoch, actions and key events, protected journal, named mutex, floor and private anchor | acquire, reserve, execute, reconcile, settle, issue and invalidate keys, verify, close, admit | every command runs once and in order; one key per role; applications use the deployment of their epoch |
| Asset library, folders (`platform/assets/library.py`, `movement.py`) | folders, labels, positions | create, rename, move | the hierarchy has no cycle |
| Trash and purge inventory (`platform/assets/trash_*`, `purge_*`) | tables only | none is implemented: nothing under `src/` changes a document's lifecycle | - |
| Identity, authorization, workspaces | accounts, roles, memberships | grant, revoke, demote | there is always a master |
| Publishing (`platform/publishing`) | study, revision and command rows; projections and request history of the public SQLite store | create, update, publish, publish_initial, withdraw, deliver, acknowledge, record failure | the public view follows the decisions in order; no confirmation ahead of it |
| Orchestration budgets, executions | counters of one request | spend | - |
| Learning, issue history | private revisions | save | no revision is lost |
| Conversations, attachment drafts (`labs/rag/conversations`) | conversations, turns with leases, executions in the background loop, drafts with a revision, attachments, the ledger of first questions | submit, cancel, detail, rename, delete, execute, finalize; create, reserve, upload, exclude, expire, abandon, start | one inference per conversation; no answer before its execution is known to be over; a draft is bound once, as its owner saw it |
| Codex execution (`labs/rag/generation/codex_*.py`, `windows_process.py`) | slot rows, call approvals, consumptions, open gate transactions, processes | acquire, issue, consume, launch, terminate, complete, cancel, revoke | no more processes than slots; a running process is authorized; slots come back |
| Evidence approvals and reviews (`evidence_approval_*.py`) | grants with generations, events, review rows, receipts | approve, revoke, ask for a review, decide | the events are the history of the grant; repeated requests change nothing |
| Evaluation runs (`labs/rag/evaluation/repository.py`, `service.py`, `dispatch.py`) | runs, candidates, case results, dispatch rows | create, dispatch, claim, heartbeat, add result, complete, fail | results of a completed run are whole; an ended run does not change; every run ends |
| Generative evaluation runs (`generative_*.py`) | runs, attempts, claims | submit, cancel, retry, claim, execute, complete, interrupt | no provider call is repeated unless the owner asks; an unconfirmed end fences the run |
| Retrieval, search, highlighting, configurations, deployments, policies, models | settings; queries have no state | single transactions | - |
| Parsing, OCR, chunking, embeddings, document formats | none | pure transformations | - |
| Local Windows services, frontend | processes, browser state | - | - |

### 1.2 How the parts interact

    HTTP upload --> version STORED + verification job QUEUED
                         | dispatcher claims the job, sends verify_asset
                         v
    Celery verify_asset --> version READY, document's active version
                         | _ensure_rag_job (or reconcile_asset_handoffs, every 5 s)
                         v
    ingestion + projection + dispatch row PENDING
                         | RagDispatchReconciler claims the row, sends ensure_indexed
                         v
    Celery ensure_indexed --> parse -> chunk -> embed -> index -> alias -> READY

    HTTP publish / withdraw --> command row (private database)
                         | thread: LocalPublicationDelivery.deliver
                         v
    public SQLite store --> receipt --> acknowledge (private database)

    HTTP first question (draft + manifest) --> conversation, turn RUNNING with a lease
                         | background loop: dependencies, HTTP attempts or a Codex call
                         v
    finalize: answer, termination proof --> turn COMPLETED / FAILED / CANCELLED

    Codex call --> slot row --> one-time approval --> gate (share locks) --> process
                         ^ evidence approvals, reviews, policies, runner settings

    change of an alias --> journal row --> request to the search node --> read back --> closed
                         | an operation with an unknown end stays open and blocks its alias
                         v
    operator: freeze the gate --> restart of the node, or cutover to a secured deployment
                         --> receipt --> release

    HTTP evaluation run --> dispatch row / PENDING run --> Celery task with a claim

All parts share PostgreSQL and nothing else; publishing also writes the public store. Cooperation is by row locks
(`FOR UPDATE`, partly `SKIP LOCKED`), compare-and-set on claim tokens or attempt counters, and
lifecycle checks repeated under lock (`lock_ingestion_source`). File, broker and Elasticsearch
writes happen outside those transactions, and the code keeps a journal row for each of them.
Celery acknowledges late (`acks_late`, `reject_on_worker_lost`), so every task may be
delivered again and several deliveries may run side by side. Beat tasks run every five
seconds and may overlap.

### 1.3 What is hard

Crashes and lost commit answers between a database row and the file, message or index it
describes; duplicated and late deliveries; claims that are taken over while their first owner
still works; two stores that one request writes one after the other, without a common
transaction; a source that is superseded or fenced while workers write; batches that are cut
before it is known which rows can be handled; model servers and processes that go on after
the request that started them was cancelled, timed out or died; approvals that are withdrawn
between their check and the start of what they approve; request ids that are repeated or used
again; control commands whose process dies or is cut off and that take effect later all the same. `PROJECT.json` lists each hazard at its line
with the properties that would catch it.

## 2. Modules

| Module | Models | Proofs |
|---|---|---|
| `AssetUpload` | one HTTP upload per member of `Uploads`, from the intake reservation to its clean-up | `AssetUploadProofs` |
| `AssetVerification` | dispatcher, `verify_asset`, job lifecycle, promotion of versions | `AssetVerificationProofs` |
| `RagDispatch` | dispatch rows and overlapping runs of `RagDispatchReconciler` | `RagDispatchProofs` |
| `RagIngestion` | one ingestion under overlapping deliveries of `ensure_indexed` | `RagIngestionProofs` |
| `RagHandoff` | overlapping runs of `reconcile_asset_handoffs`, the failure ledger | - |
| `Publishing` | publication requests over the private database and the public store | `PublishingProofs` |
| `PublishedStudy` | what publishing promises: the abstract specification that `Publishing` implements | `PublishingProofs` |
| `EvidenceApprovals` | grants, events, reviews and receipts | `ExecutionProofs` |
| `CodexExecution` | extends `EvidenceApprovals`: calls of the external runner, their slots, approvals, gate and process | `ExecutionProofs` |
| `ConversationTurns` | turns of a conversation, their leases, executions and HTTP attempts | `ConversationProofs` |
| `AttachmentDrafts` | extends `ConversationTurns`: the draft of a first question, its uploads, the start, clean-up | `ConversationProofs` |
| `EvaluationRuns` | dispatch, claims and results of evaluation runs | `ExecutionProofs` |
| `GenerativeRuns` | claims, attempts and provider calls of generative runs | `ExecutionProofs` |
| `AliasRecovery` | the alias journal, the gate of the cluster and the operator's recovery commands | `AccessEpochProofs` |
| `RoleKeys` | the group of API keys of the secured search node | `AccessEpochProofs` |
| `AccessEpoch` | extends `AliasRecovery` and `RoleKeys`: the cutover to a secured deployment and the admission of applications | `AccessEpochProofs` |

`MC*.tla` extend these modules for TLC. The modules meet at narrow interfaces, and each one
models its neighbour by what it may do: `AssetVerification` hands a version over to
`handed`, which is `DirectEnsure` of `RagHandoff`; `EnsureJob` there creates what `Ensure` of
`RagDispatch` makes pending; a row that is sent there is `Deliver` of `RagIngestion`;
`Terminalize` of the last two is `Recover` of `RagHandoff`. `Supersede` of `RagIngestion`, `RagHandoff`
and `CodexExecution` is `MakeReady` of `AssetVerification`. `CodexExecution` composes the calls
with the approvals they depend on, `AttachmentDrafts` composes drafts and clean-up with the
turns of the conversation that a draft becomes, and an upload step there stands for a whole
request of `AssetUpload`. `AccessEpoch` composes the cutover with the alias journal whose
operation it closes; the activation step of `RagIngestion` is a caller of that journal. Publishing
shares nothing with the others.

**Conventions.** One database transaction is one action; a handler is cut where it commits,
awaits I/O or reads without a lock that it later relies on. A process that is between two
steps carries what it has read in its own variable (`pc`, `run`, `task`, `lease`, `claims`).
A transaction that raises may have been applied. Time is abstract: "older than the limit" is
membership in a set (`stale`, `waiting`, `cooling`) that grows by an action of its own.
Operators that no specification uses, named `...Mutant` or for what they get wrong
(`RecoverableForgetsStale`, `BlocksWhileRunning`, `FinalizedLate`, `SilentlyTouched`, ...), are wrong
variants of the definition that follows them. Each one breaks the property
that `PROJECT.json` lists it for, which shows that the property can fail.

### 2.1 AssetUpload

State: `intake` (row of `UploadIntakeRecord`) and `lease` (the request's copy of it),
`attempt` (row of the original-upload journal), `payload`, `temporary`, `canonical` (files),
`owned` (`TrackedOriginalStore._published`), `number`/`pending` (committed and computed
version number), `document` (lifecycle, generation, newest number), `tx` (holder of the
workspace row lock). Actions follow `HttpUploadIntakeService.upload`: `ReserveIntake`,
`CreateWorkspace`, `ParseUpload`, `ReserveOriginal`, then the store's three file steps
(`CreateTemporary`, `LinkCanonical`, `RemoveTemporary`), `JournalPublished`, the attachment
transaction in its three parts (`PrepareAttachment`, `CheckContent`, `CommitAttachment`), the
error path (`AbandonIfAbsent`, `FenceDiscard`, `DiscardOriginal`) and the clean-up
(`CloseIntake`, `StartCleaning`, `DropWorkspace`, `FinishCleaning`). `Crash` ends a request
anywhere. Every commit is acknowledged, lost (applied, but raised) or refused.
`ChangeLifecycle` moves a document's generation; the code checks it although nothing writes
it yet.

### 2.2 AssetVerification

State: `job` (status, stage, attempt), `ready`, `active`, `stale`, the dispatcher's `claims`
and `refused`, the broker's `queue`, the workers' `pc` and `task`, `handed`. `corrupt` is
which stored bytes do not match. Actions: `ClaimRecoverable`, `Send`, `SendRaises`,
`MarkSendFailed`, `DispatcherStops` for the reconciler; `Receive`, `Begin`, `Verify`,
`RetryUnreadable`, `FailMismatch`, `SucceedJob`, `ReadVerified`, `HandOff`, `RecordError`,
`Decide`, `GiveUp`, `WorkerCrash` for the task; `ReconcileHandoff`, `GoStale`. `AlreadyVerified`
is what lets a repeated delivery go on with the hand-over that its predecessor did not reach.
`exhausted` and `unsent` are the two ways in which no delivery is left for that (a last retry,
a retry that could not be published); what becomes of such a version is up to the beat task,
which may be stopped by other rows and is modelled in `RagHandoff`, so `ReconcileHandoff` may
happen here and is not relied on. The initial
states include jobs that an older release left as succeeded and unverified
(the `stage == "stored"` branch of `SqlAlchemyAssetVerificationLifecycle.begin`).

### 2.3 RagDispatch

State: `job`, `row` (status and attempt count; the count stands for the claim token, which
is fresh for each claim), `waiting`, `stale`, `earlier` (order of `available_at`), `active`,
`fenced`, each run's `claims` and `hand`, the broker's `queue`. `ClaimReady` chooses a batch
of at most `BatchSize` candidates in order, leaves out rows that other transactions lock
(`skipped`), and decides for each row as `claim_ready` does: claim, cancel or pass over.
`Send`, `SendRaises`, `Mark`, `DispatcherStops` are a run's further steps; `Ensure`, `Work`,
`Deactivate`, `Fence`, `Terminalize`, `CancelCompleted` are other parts of the system. `Stuck` are
the rows that `claim_ready` selects and never moves; a row is `Blocked` when they fill the
batch before it.

### 2.4 RagIngestion

State: `job`, `proj`, per role a `slot`, the `recorded` digest of the ingestion row and the
`file` under the canonical key; `attempt` (write attempts per role and for the index);
`build`, `journal`, `alias` (the index is a member), `listed` (`is_active` of the build row) and
`other`, the members that another holder of the profile's row has read; per worker a `run`. A content is the sequence of the workers that
made it and its inputs, because a retry may generate new element UUIDs: two deliveries never
make the same bytes, and where bytes came from is visible. Each stage is `Begin`, `Read`,
`Make`, `Reserve`, `Write`, `Close`, `Accept`, `Advance`; indexing is `EnsureBuild`,
`ReserveIndex`, `Prepare`, `FinishIndex`, `CloseIndex`, `Verify`, `CompleteIndexing`. Errors
go through `Decide` and `Fail` as in the task's handler. `Admits` is the lifecycle check of a
stage's last transaction, which for embedding needs an active source. `Supersede`, `Fence` and
`Terminalize` are the environment.

Whoever changes the alias computes its members anew: `verify` of every ingestion of the profile
and the parity reconciler. `OtherReads` is one of them taking the profile's row and reading
the members, with this ingestion's index (`IsTarget`) or without it; `OtherEnds` writes them
later, is turned down, or loses the alias change or the commit after it. `Verify` waits for
the same row (`ProfileFree`). The index of a superseded document so leaves the alias at the
next change, and stays in it until then; `ReadyIsSearchable` speaks of active sources. That
`OtherReads` waits for a prepared index loses nothing: before that it reads and writes that there is
no such member. A request whose outcome is unknown closes the alias (`journal`); when it takes
effect late, and how it is cleared up, is `AliasRecovery`.

### 2.5 RagHandoff

State: the ingestion `job` of each version, `current`, `fenced`, `invalid`, the failure
`ledger` with `cooling`, and each run's `pc`, `commands`, `outcome`. A run is `Recover` (all
inactive ingestions in one transaction, which raises as a whole), `AliasParity`, `Pending`
(select a batch), then per command `EnsureCommand` and `RecordFailure` or `ResolveCommand`.
`DirectEnsure` is the verification task or the API, `EndDelivery` a worker's outcome, `Repair`
an operator who corrects a profile.

### 2.6 Publishing and PublishedStudy

State of the private database: `study` (one row per slug, with what was acknowledged last as
`last`), `revisions`, `commands`, `applied`, `failed`; of the public store: `public` (the
projections) and `history` (its request history); `holder` (who has a study row locked, or
inserted and not committed); per call `pc`, the request `call` that it prepares and the
command `sending` that it delivers. `Create` and `Update` are drafts. A call is
`PrepareCommand` or `PrepareInitial` (replay of a known request, or a new one that keeps the
lock), for a study that is not there `CreateStudy`, then `InsertCommand` or, when another study
took the request id, `InsertConflicts` with `ResolveRequestRace` or `ResolveInitialRace`. The
delivery is `Apply` or `DeliveryFails`, followed by `Acknowledge` or
`RecordDeliveryFailure`. `Cancel` leaves the thread of `asyncio.to_thread` behind, which may
still apply its command; `Crash` ends a call anywhere. Clients repeat requests freely, under
the same or another request id, with any revision and digest.

`PublishedStudy` has no requests and no stores: decisions are numbered in the order in which
they are taken, the public view shows one and never goes back, and a decision is confirmed to
its owner only when the public view has reached it. The mapping takes the command rows for
the decisions, the projections for what is shown, and the study's `applied_*` columns for what
is confirmed.

### 2.7 EvidenceApprovals and CodexExecution

`EvidenceApprovals`: `grant` (generation, status, class), the append-only `events` that are also
the receipts of requests, `review` rows and their `receipts`. Every transaction holds the asset
row and the advisory lock of its receipt throughout, so each is one step: `ApproveEvidence`,
`RevokeEvidence`, `CreateReview`, `DecideApprove`, `DecideReject`. A client may repeat a
request_id with the same or with other content, and expects any generation.

`CodexExecution`: a call is `Begin` (resolve the runner), `Acquire` (slot row), `IssueRequest`
and `IssueCall` (the intent, derived twice), `OpenGate` (the transaction that locks what it
read), `Consume` (on a connection of its own), `Prepare`, `Launch`, `Terminated`, then `Audit` and
`Complete` in nested finally blocks. Each step has its refusal, and the faults are a committed
row whose answer is lost (`AcquireLost`, `IssueLost`, `ConsumeFails`), a termination that cannot be
confirmed, a `complete` that fails, a lost database session and the death of the host. `Withdraw`,
`Supersede`, `ReviewEvidence` and `RevokeCall` wait for the locks of open gates; `Cancel`, `Expire`
and `Reconfigure` do not. `standing` stands for all that `_derive` reads besides evidence and runner.

### 2.8 ConversationTurns and AttachmentDrafts

`ConversationTurns`: per conversation and request a `turn` (status, code, termination proof,
answer), the `work` of its execution and `remote`, the attempts a model server may still be
working on; `handler` is a submission between its check and its reservation. `Busy` and
`Recovered` are `reserve_turn` and the lease recovery of `Conversation`; the reads that recover
(the detail of a conversation, the first transaction of a submission, the replay of a start) do so. An execution is `ReserveDependencies`, then per
attempt `Attempt` and `AttemptAnswered` or `AttemptFails`, `Returns`, and `Finalize`; `Monitor` and
`Shutdown` cut it, `Die` loses it. A cut attempt may still run on the model server; `RemoteEnds`
ends it there.

`AttachmentDrafts`: the owner's `draft` (revision as what was `seen` of it, expiry, binding),
`att` (attachment rows), `upload` (requests of `perform_upload`), `start` (first questions between
check and transaction) and the `ledger` of their request ids. `Reserve`, `ReserveIntake`, `Attach`,
`UploadFails`, `Fail`, `ConfirmReads` and `ConfirmTermination` are one upload; `StartCheck`,
`StartAccept`, `StartRefuse` and `StartReplay` the start of a conversation, which moves the
draft's rows to it; `Abandon`, `ExpireDraft`, `Exclude`, `RestoreLegacy`, `DeleteConversation` and
`ListCleanup` the rest. `Assessed` decides what is a clean-up candidate.

### 2.9 EvaluationRuns and GenerativeRuns

`EvaluationRuns`: the `run` with its claim and the age of its heartbeat, `cand`, `results` (by
which runtime each case was measured), the dispatch `row`, `messages`, and per worker its `work`.
A claim is taken over after thirty minutes, and `LoseClaim` makes a slow worker of it: then two
workers act for one run. `GenerativeRuns`: the run, the `attempts` of each slot, `calls` (how often
a slot was executed, a history variable), the queue and each worker's `task`. The owner submits,
cancels a pending run and retries a failed one; `InterruptStale` ends what a lost worker left.

### 2.10 AliasRecovery

State: of the journal `target`, `phase`, `result`; the `gate` with its last claim; `receipt` by
request; the application process `caller` of each operation; `wire`, the requests the node may
still apply; `live`, what an alias points at; the `server` with its incarnation; `sess`, the
operator's commands. A caller is `Reserve`, `Dispatch`, `Send`, `Observe`, `Finish`, each a step of
`run_alias_operation` on a connection of its own, and may end anywhere (`CallerEnds`). The command
line is `Preview`, `Freeze` and `Recover`, which closes an operation that was not dispatched by a
compare-and-set on its phase (`CloseNotDispatched`), or goes through the controlled restart
(`Identify`, `ObserveClients`, `CheckStop`, `Stop`, `CheckStart`, `Start`, `Prove`, `Revalidate`,
`CloseTerminated`); `Release` admits operations again. The node may die and the operator may start
it by hand at any time. What is read of Docker, Windows and the node is abstracted to what the
code concludes: clients absent, same server, stopped, started. Rows from before the phases existed
(`legacy_unknown`) are among the initial states, with their request perhaps still in flight.

### 2.11 RoleKeys

State: per role the outcome of the latest `issue`, its `revoke`, the number of the issue (`round`),
`active` keys at the node and the `secret` in the private store; `helper` says whether an earlier
helper process has a recorded end, `posts` are commands the node may still carry out.
`KeyGroupNext` is one step of `BootstrapRoleKeyGroup.advance`: recover the unresolved command by a
look-up, otherwise reserve, submit and settle what the first unfinished role needs. Answers are
lost (`AnswerLost`), look-ups fail (`LookupLost`), and a key without its secret is invalidated
before the next one is issued.

### 2.12 AccessEpoch

State: the `epoch` row, `done` (settled actions), `last` and `record` (database outcome and journal
record of the action under way), `inflight` and `applied` (commands and their effects),
`submitted` (how often a command was run, a history variable), `apps` (allowlist of processes to
end), `anchor`, `floor`, the named mutex `lock`, the controllers `ctl`, and `store`, the deployment
a starting application has read. One action of the cutover is `Expected`, `ReserveAction`,
`Execute`, `RunCommand`, `WaitDone`, `ObserveEnd`, `Settle`; `CutOff`, `AdvanceFails`,
`ControllerEnds` and `Lost` are what may go wrong, `Landing` is the effect, which may come
after the controller has given up. `Reconcile` looks again at an unsettled action. `CommitAnchor`,
`MarkVerified` and `CloseEpoch` end the cutover; `LoadNone`, `LoadFloor` and `Admit` are
`AccessEpochAdmission.verify`, cut between the read of the database and of the anchor.

Abstractions: one epoch of one original container, which is also the only one the recovery
command line knows; the allowlist that `Expected` fixes stands for the registered API processes (three
pinned PIDs in the code, which refuses the cutover while a Celery worker runs), so that a process
nobody registered is outside of the model; `Reconcile` needs the end of a command in the journal, except
for the issue of a key, and leaves out that the code runs the read-only audits of the revocation, of
the bootstrap administrator and of the access check again (`access_epoch_control_native.py:1619-1630`),
which changes nothing that is modelled; the start of a process is its first read; a command that exits with an error is
recorded as unknown, as the code does not settle it; the death of the bootstrap container is the
loss of the commands sent to it. The controller is a library without a command line so far, and
`observe_secured` and `commit_anchor` of its backend are protocols; they are modelled by what the
controller requires of them.

## 3. Runs

| Run | Instance | Shows |
|---|---|---|
| `upload` | 2 requests, 1 existing document, 2 contents, 2 lifecycle changes; 0.93 M states | versions keep their bytes, no residue without a fault, and every request ends and frees the lock |
| `verification` | 1 job, 2 workers, 2 dispatcher runs, 1 retry, 2 faults; 0.19 M states | an old claim never queues a newer one; the job ends; a verified version is handed over by a delivery unless its last retry was used up or could not be published |
| `dispatch` | 2 rows, 2 runs, batch 1, 1 fault, both sources may be fenced; 0.21 M states | a current claim is respected; every row is dispatched unless rows that are never moved fill the batch |
| `dispatch_limit` | the same without fences | violation: a completed job whose row stayed claimed stops the row behind it |
| `ingestion` | 2 workers, 2 deliveries, 1 retry, 1 fault, source changes, another one that computes the alias; 1.6 M states up to the names of the workers | job and projection agree, artifacts agree and come from each other, one writer, READY of an active source stays searchable, nothing advances for an inactive source; without a fault every delivered ingestion ends, or its source is fenced |
| `handoff` | 2 versions, 2 runs, batch 1, 2 attempts, 2 faults; 0.39 M states | a healthy version behind a broken, superseded or fenced one is handed over; superseded ingestions end |
| `handoff_fence` | 2 versions, 1 run, one may be fenced | violation: one fenced document stops the recovery of all others |
| `publishing` | 2 calls, 2 studies, 2 request ids, 2 contents, 2 revisions of one study; 0.85 M states | `PublishedStudy` is implemented: the public view follows the decisions in order and no confirmation is ahead of it |
| `codex` | 2 calls, one of which sends evidence, 2 runner settings with 1 and 2 slots, 3 approvals or revocations, 1 fault; or 1 revision, 2 actors, 2 request ids each, 2 reviews, 2 classes, 3 generations; 0.62 M states | processes are bounded by slots and slots by the settings, a running process stays authorized, slots return; events are the history of the grant; a review is approved only together with its revision |
| `evaluation` | 2 candidates, 1 case, 2 workers with different runtimes and 1 fault; or 2 slots, 2 workers, 1 retry and 2 faults; 0.51 M states | whole results, ended runs are frozen and settled, no automatic replay, the fence of an unconfirmed end; both kinds of run end |
| `conversations` | 2 attempts to start, 2 requests, 2 handlers, 2 HTTP attempts, 1 attachment, 1 fault; 0.51 M states | one inference, no late answer, one binding with the manifest that was seen, frozen rows, unused clean-up candidates; turns end |
| `cutover` | 2 operations of one alias, 2 recovery requests, 1 session, 2 controllers, 1 role with 2 issues, 2 gate revisions, 3 incarnations of the node; 2.7 M states up to symmetry | a closed operation is over and only the open one moves the alias; cutover commands run once and in order; one key per role; applications use the deployment of their epoch |

**Bounds.** `MaxRetries`, `MaxFaults`, `MaxGeneration`, `MaxRevision`, `MaxDeliveries`, `MaxAttempts`,
`MaxCalls`, `MaxQueue`, `MaxIssues`, `MaxLife` and their likes are constants of the modules and are in the guards. Two of each actor are enough for every race in these protocols: all interaction is
between the holder of something (a lock, a claim, an attempt, a delivery) and one other that
takes it over, and a third actor would repeat the role of the second. Two versions or rows
are needed for orders and batches, and a batch of one for a full one. Faults are bounded
because each costs a step anywhere; two allow a fault during the handling of another one.
One retry already has a first, a repeated and a last delivery. In `Publishing` two request
ids give one study an older and a newer command, or two studies the same id, and two
revisions of one of them an approval that is out of date. In `codex` three generations let a grant be withdrawn and given again, and
the second settings have more slots than the first. In `cutover` two operations are what a
late request and its successor need; one session is enough because a session races the callers,
the controllers and the operator, and a session that dies leaves a second one in its place; three
incarnations allow a restart and a second start, or the original, bootstrap and secured node; the
roles are handled one after the other by the same steps, so that one role with two issues shows
the loss, the invalidation and the replacement of a key. `ingestion` has one fault so
that safety and liveness fit one run; its safety properties are proved for any number of faults. Five MC modules restrict the
interleavings of an instance, never the steps: `MCRagHandoff` lets only the older version be superseded, so
that what goes wrong stands in front of what is healthy; in `MCEvaluation` a behaviour is about
one run, of either kind, as the two kinds share no row; in `MCCodexExecution` it is about calls or
about approvals with reviews, as calls only see the grant; in `MCConversations` a behaviour has either
attachments or follow-up questions (they meet only through the deletion of a conversation,
which the first turn reaches too), at most one fault, and the first attempt to start has a
fixed name, in which the specification is symmetric; in `MCRagIngestion` the worker that writes the first
file has a fixed name for the same reason. Safety of upload, verification, dispatch, ingestion,
publishing, Codex execution, conversations, evaluation and the cutover does not depend on these bounds: it is
proved (section 4). `CHECK_DEADLOCK FALSE` is
set because each system stops when all work has ended; that it ends is what the liveness
properties check. Symmetry (workers, runs; in `Publishing` also studies, request ids and contents; in `cutover`
operations, requests and controllers) is used only
in runs without liveness.

**Fairness.** `AssetUpload`: a request whose next step is enabled again and again takes it; it
is strong because the row lock that a step waits for is taken and freed by others, and
PostgreSQL queues waiters. `AssetVerification`, `RagDispatch`, `RagHandoff`, `RagIngestion`: beat
tasks run every five seconds, so their first step and their following steps are weakly fair,
and time passes (`GoStale`, `BackoffElapses`, `RetryTime`). Receiving a message is strongly fair
because the idle worker it needs may be taken by another message; the broker is a queue. `Verify` is
strongly fair because it waits for the profile's row, which others take and free (`OtherEnds` is
weakly fair) and for which PostgreSQL queues its waiters. `ReconcileHandoff` has no fairness: the
beat task runs the inactive-source reconciler first, which may raise on every pass (section 5).
`EvaluationRuns`, `GenerativeRuns`: beat starts the reconcilers, workers take messages and go on
with their tasks, and time passes; that a worker is slower than the thirty minutes is a fault.
`CodexExecution`: a call that has begun is carried on, and its process ends by the runner's own
timeout. `ConversationTurns`: the background loop runs its executions to the end; nobody has to
open, cancel or delete a conversation.
`ClaimReady` is strongly fair in the form without skipped rows: rows locked by others are
skipped at that moment only. Nothing is assumed of faults, of source changes, of operators
(`Repair`) or of workers finishing a job in `RagDispatch`. `AccessEpoch` has no fairness either:
recovery and cutover go on only when an operator calls them. `Publishing` has no fairness and no
liveness property: nothing in the code repeats a delivery that failed, so a pending command
waits for its owner. What the code can promise is `PendingDeliverable`: the repetition is
admitted whenever it comes (proved in section 4).

## 4. Proofs

Checked by TLAPS with SMT, Zenon and LS4. Assumptions are the named `ASSUME`s of the modules
and nothing else: bounds are natural numbers, `Jobs` are positive numbers where they are
version numbers, sentinels are not members of their sets (of conversations: also not the words that
stand for the other kinds of parent of an attachment; of controllers: also not the word for an abandoned mutex).

**AssetUploadProofs.** `AttachedHasBytes` and the others depend on where a request stands, so
`Inv` adds: `StepInv` (which journal state and which files go with each step), `RowInv` (what a
journal state says of files and rows), `LockInv` (between check and commit the request holds
the lock, so what it read still holds) and `NumberInv` (the computed number is the newest plus
one while the lock is held). That nothing is left behind needs the path of a request without faults:
`UnfaultedInv` says that its lease is certain and what is left of its files at each step (`OthersKeep`: a step of
one request leaves this alone for the others). Theorems: `TypeCorrect`, `BytesBehindVersions`,
`FilesAreLocated`, `JournalAgreement`, `NoDuplicateContent`, `NoDuplicateNumber`,
`FencedDeletion`, `AttachmentGeneration`, `NoResidue`.

**AssetVerificationProofs.** A worker acts on what earlier transactions read while other
deliveries write the same row. `RowMoves` says what any step may do to any row: leave it, or,
if it is not settled, move it on. `Known` says what a worker has established when it comes to a
step (before `succeed` the bytes matched; before `give up` the job is settled or its retries are
used up); `KnowledgeStays` shows that no `RowMoves` takes this back. `ClaimsHeldOnce` (a claim is
held by one run, in one place, and is no newer than its row) makes `CurrentClaimNotQueued`
inductive. Theorems: `TypeCorrect`, `ReadyMeansSucceeded`, `VerifiedOnly`, `NewestIsActive`,
`ClaimsAreRespected`, `FailuresHaveCauses`, `OutcomesStay`.

**RagDispatchProofs.** `Inv` adds that held claims are counted (`ClaimsCounted`), are in one hand
(`ClaimsUnique`) and that a send that returned is in the broker (`TakenWasAccepted`). Theorems:
`TypeCorrect`, `ClaimsAreKept`, `SentIsTrue`, `RowsStayEnded`.

**PublishingProofs.** Each property relates two stores that are written at different times, so
`Inv` follows a command on its way: it is written under the lock of its study with the package
that the study has (`CallsChecked`, `CommandsCounted`); whatever is being sent, in the history
or shown is the command of a row (`SendsCommand`, `PublicIsLatest`); the store is never behind its
own history (`PublicIsLatest`), which is why an older command that arrives late cannot be
applied; and an acknowledged command is in the history (`AppliedAreCounted`). Theorems:
`TypeCorrect`, `CommandsStayUnique`, `AlwaysReadable`, `AcknowledgedWasPublic`,
`PendingStaysDeliverable`, `PublicStaysDecided`, `AppliedStaysClean`, and `Implementation`: every
step of `Publishing` is a `Decide` (`InsertDecides`), a `Show` (`ApplyShows`), a `Confirm`
(`AcknowledgeConfirms`) or a stutter of `PublishedStudy`.

**ExecutionProofs, Codex.** For the evidence approvals the history alone is inductive: an event is appended in
the transaction that writes the grant, and a request that is repeated finds its event. That a
review is approved only beside an approved revision needs more: an event, and hence a replayed
receipt, is never ahead of the grant, and the decision compares the generation it got with the
grant it locked. For the calls `CallInv` adds `SlotLimit`, `ProcessInv` (a process that may be
live, and a call past `acquire`, has its slot row until its end is verified) and `GateInv` (while
a gate is open, the intent it compared is still the current one, because every writer of
what it read waits for its share locks). Theorems: `HistoryIsKept`, `DecisionsHaveGrants`,
`TypeCorrect`, `ProcessesStayBounded`, `RunningStaysAuthorized`.

**ConversationProofs.** `OneInference` is about executions that outlive the request that began them, so
`TurnInv` says what an execution and its HTTP attempts may still do: an attempt under way keeps its turn
unsettled, whatever expired, cancelled or deleted the turn meanwhile, and `reserve_turn` waits for the unsettled
turn of its conversation; a proof of termination exists only when no attempt is left. `DraftInv` follows a first
question from the manifest it read to the binding: while an upload confirms, the parent it read is the
parent it writes to, and a bound draft, its attachments and the ledger of first questions name the same
conversation. Theorems: `TypeCorrect`, `OneInferenceHolds`, `AnswerOnlyWhenSettledHolds`,
`DraftBoundOnceHolds`, `CandidateIsUnusedHolds`, `BoundRowsStayFrozen`.

**RagIngestionProofs.** Deliveries write files and index outside of their transactions, so `Inv` says of each
delivery what it has read and still holds (`RunFits`): who holds a claim has the only open attempt of its
slot and the slot is empty (`OneHolder`, `OneOpen`); an artifact that is accepted was made from the slot of the
stage before, which does not change once it is filled (`SlotsFit`); an open index attempt goes with a build
that is being made, so that a late `finish` never undoes a ready one (`IndexFits`). For the alias, `AliasFits` says
that members which were read without the index stay right while the profile's row is held, because only the
holder of that row makes a projection READY, and that who
read them with the index found it in the alias already, so that a change for a source that became inactive
meanwhile adds nothing. Theorems: `TypeCorrect`,
`StatusesAgreeHolds`, `ArtifactsAgreeHolds`, `OneWriterHolds`, `ReadyIsSearchableHolds`, `InactiveStops`.

**ExecutionProofs, evaluation.** A worker completes a run when its own list is empty, while others may have held the
claim before or after it. `EvalInv` adds that every open candidate is on the list of whoever holds the claim
(`WorkFits`). For generative runs `GenInv` counts: the executions begun for a slot and the attempts that may
still begin their first one (`Uncalled`: pending, or claimed by a worker that has not called yet) are together
no more than the attempts, which makes `NoAutomaticReplay` inductive; two workers never stand before the call of
the same attempt (`StartsApart`); the owner of a run is at its only running attempt (`TaskFits`), so that the
end of a run leaves nothing open; and an unconfirmed attempt belongs to a failed run (`GenRows`). Theorems:
`EvaluationTypeCorrect`, `CompletedRunIsWholeHolds`, `EndedRunIsFrozenHolds`, `GenerativeTypeCorrect`,
`NoAutomaticReplayHolds`, `EndedRunIsSettledHolds`, `UnconfirmedIsFencedHolds`, of `EvaluationSpec` and
`GenerativeSpec`, whose steps `MCEvaluation` interleaves.

**AccessEpochProofs.** `EpochInv` has one part per piece of state. `KeyInv` says of each role that at most the key
of its latest round exists and that a command is on the way only while its row is unsettled, which is why a
look-up that finds no key is not contradicted later. `AliasInv` adds to the types where the process of an
operation can be (`CallerInv`), that one operation is open per alias (`OneOpen`), and what a session has found
out about its operation and still holds: no client left, nothing on the wire after the stop (`SessionInv`,
`GateInv`). `CutoverInv` says that only the holder of the mutex is inside an action (`HolderInv`), relates
the commands run, on the way and in effect to the sequence in the database (`OrderInv`, `ActionInv`), puts the end
after all actions (`EndInv`), and ties the epoch and its applications together (`ClaimInv`, `AppsInv`). The
journal is safe only through all of them: a cutover closes an operation whose client it never observed, and that
operation is over because its application was on the allowlist and was ended, and the container it wrote to was
stopped (`ClaimIsOver`). Theorems: `EpochTypeCorrect`, `ClosedIsOverHolds`, `OnlyOpenMovesHolds`,
`OneKeyPerRoleHolds`, `CutoverInOrderHolds`, `AppsMatchEpochHolds`.

Beyond the properties that the runs check, these theorems state what only two versions of a
document or longer histories can break: that the newest READY version is active, that an outcome
is never undone, that content and version numbers stay unique, that deletion waits for its fence,
that an ended dispatch row stays ended, that a file always has its journal row, that a pending publication
can always be delivered and that what is public was decided. Their definitions are in the modules and are not repeated
in a run.

**Only model-checked.** All liveness properties (fairness and ENABLED are outside the prover's
reach), and with them `RagHandoff`, whose properties are all about what eventually happens. Every safety property
that a passing run checks is proved. Before it was proved each inductive invariant was checked by TLC on the instance
of its run.

## 5. Findings and observations

**One fenced document stops the recovery of all others** (run `handoff_fence`). The
inactive-source reconciler ends all inactive ingestions in one transaction, and
`lock_ingestion_source` raises for a fenced document also with `require_active=False`
(`labs/rag/ingestion/recovery.py:92`, `locking.py:48-55`). An open superseded ingestion of a
fenced document makes every run roll back before alias parity and hand-overs. `InactiveSettles`
and `HealthyHandoffs` state what holds as long as no such document obstructs the task.

**Rows that are always passed over fill the dispatch batch** (run `dispatch_limit`). `claim_ready`
takes the first `limit` rows and decides afterwards which it can claim
(`labs/rag/ingestion/repository.py:490-516`). A run that dies between send and mark leaves a claimed
row; when its job succeeds, the row is stale, selected and passed over for good, and so are rows
of fenced documents; 100 of them stop the outbox. `HealthyRowsDispatched` states what holds while fewer of
them than a batch are in front.

Met while modelling, and visible in the models although no run is spent on them:

- A duplicate delivery can fail a healthy ingestion. While one delivery completes the embedding
  stage, a second one that read `EMBEDDING` before calls `ProductionEmbeddingStage.embed`, which
  raises the non-retryable `embedding_stage_conflict` (`labs/rag/ingestion/stages.py:501-511`;
  `StageConflict` in `RagIngestion`). The handler then fails the shared job although `worker.py:351-352`
  says that no duplicate delivery owns that right. TLC reaches `failedBy = "conflict"` in 26 steps with
  two deliveries, no fault and an active source.
- A Codex call that is cancelled between the workspace's and the process runner's look at the
  event (`codex_workspace.py:135`, `windows_process.py:125`) gets a result without a process count
  and keeps its slot for good although nothing was started (`NotLaunched` in `CodexExecution`);
  `codex_slot_models.py:1` says that every retained row represents possibly live processes.
- The recovery command line and the cutover close the same operation. A `recover` that restarts
  the original node while a cutover of the same claim is prepared closes the operation; the epoch
  then fails every check of an open operation, stays unfinished, and admission refuses all
  applications (`access_epoch_runtime.py:70`, `access_epoch_repository.py:209`). Safety holds, and
  nothing in the code ends such an epoch.

Design decisions that look like faults and are documented as such: an artifact or index
attempt that a crash leaves open is never taken over, so later deliveries are acknowledged as
busy and the job stays RUNNING (`IngestionSettles` therefore speaks of behaviours without a
fault); a
row marked sent is never sent again; a failure record that is written late may stay
quarantined after another run has handed the version over; slots whose process was not seen to
end, or whose host died, are kept; a turn whose process died is ended by its lease only when
somebody opens the conversation, and fences it until the attempt is confirmed to be over.

## 6. Not modelled

- Parsing, OCR, chunking, embedding, prompts and answer validation: computations on data
  without shared state. They are opaque producers of bytes or free choices to fail.
- Windows process control, credentials, TLS and the frontend: I/O and presentation.
- Trash and purge: only tables exist. The lifecycle generation they will use is checked by
  the upload code and is modelled there.
- Permissions and validation: a request that is turned down is a free choice to reject.
- The limit of 100 inactive ingestions per recovery run: all are chosen.
- The other index builds of a profile: `RagIngestion` has one build and sees of the others only that
  they compute the alias members with or without it.
- The evidence of a cutover (history receipts, inventories, TLS assets, signed packets): each is
  a yes or no of an action of `AccessEpoch`.
- Migrations, offline studies, settings and reports: the
  larger part of the backend's lines are numeric code, native process and credential handling, SQL
  schemas, request and response models and text processing. They have no steps of several actors
  for a model to interleave, which is why the map covers a small share of the repository's lines
  although most of the concurrent protocols of the backend are modelled.
- Everything listed as planned in section 7 and as `not_modelled` in `PROJECT.json`.

## 7. Plan

Done: upload, verification, dispatch, ingestion and hand-over, in the order in which a
document passes them; publishing with its abstract specification; conversations with their
drafts, Codex execution with evidence approvals, both kinds of evaluation runs, and the alias
journal with recovery, cutover and role keys; every safety property that a run checks is proved. Next, most
important first:

1. `Authorization` (last master), `Learning` (optimistic revisions), folder movement.
2. Pure algorithms against reference definitions: the dispatch backoff, reciprocal-rank
   fusion.
