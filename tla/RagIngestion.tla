---------------------------- MODULE RagIngestion ----------------------------
(***************************************************************************)
(* One RAG ingestion: the Celery task ensure_indexed, run by several       *)
(* workers at once when a delivery is duplicated, drives a projection      *)
(* through parsing, chunking, embedding and indexing.  Each of the first   *)
(* three stages publishes an immutable artifact under a reservation, the   *)
(* last one prepares an index and moves the search alias to it.            *)
(*                                                                         *)
(* Every database transaction is one action.  A transaction whose commit   *)
(* is not confirmed may have been applied or not (Then, DatabaseError).    *)
(* Two runs of a parser, chunker or embedder never give the same bytes:    *)
(* a content is the sequence of the workers that made it, the input's      *)
(* makers first, and its digest is the content itself; <<>> is "absent".   *)
(* The alias belongs to the indexing profile: the activations of other     *)
(* documents and the alias parity reconciler compute its members anew from *)
(* the rows, this ingestion's among them, under the profile's row lock.    *)
(***************************************************************************)
EXTENDS Integers, Sequences, FiniteSets

CONSTANTS
    Workers,        \* worker processes of the Celery application
    MaxRetries,     \* max_retries of the task
    MaxDeliveries,  \* bound on what the dispatcher sends: a job may be sent again
    MaxFaults,      \* bound on crashes, database, storage and search errors
    SourceChanges   \* may the source be superseded or fenced while it is ingested

ASSUME IngestionAssumption ==
    /\ MaxRetries \in Nat
    /\ MaxDeliveries \in Nat
    /\ MaxFaults \in Nat
    /\ SourceChanges \in BOOLEAN

VARIABLES
    job,        \* status of the job row
    proj,       \* status of the projection row
    current,    \* the version is READY and the document's active one
    fenced,     \* the document is not active or has an index write fence
    slot,       \* slot[role]: digest of a verified slot, <<>> while it is reserved
    recorded,   \* recorded[role]: digest and rows that the ingestion row vouches for
    file,       \* file[role]: content under the canonical key
    attempt,    \* attempt[kind]: states of the write attempts, oldest first
    build,      \* status of the index build row
    journal,    \* an alias operation is open
    alias,      \* the search alias has the build's index among its members
    listed,     \* is_active of the build row: the member that the rows vouch for
    other,      \* somebody else's alias change under the profile's lock, with or
                \* without the build's index among the members that it has read
    run,        \* run[w]: what a worker does with its message
    queue,      \* queue[r]: messages with r retries in the broker
    sent,       \* messages sent by the dispatcher
    failedBy,   \* history: why the ingestion was failed
    faults      \* faults met so far

source == <<current, fenced>>
artifacts == <<slot, recorded, file>>
index == <<build, journal, alias, listed, other>>
rows == <<job, proj, slot, recorded, attempt, build>>
broker == <<queue, sent>>
vars == <<job, proj, current, fenced, slot, recorded, file, attempt, build, journal, alias,
          listed, other, run, queue, sent, failedBy, faults>>

Stages == {"parsing", "chunking", "embedding", "indexing"}
Terminal == {"ready", "failed"}
Status == {"pending"} \cup Stages \cup Terminal
JobStatus == {"queued", "running", "succeeded", "failed"}
Roles == {"parsed", "chunks", "embeddings"}
AttemptState == {"open", "verified", "failed"}
Reason == {"none", "transient", "error", "inactive", "conflict"}
Step == {"idle", "begin", "read", "make", "reserve", "write", "close", "accept", "advance",
         "ensure build", "reserve index", "prepare", "finish index", "close index",
         "verify", "complete", "raised", "fail"}

\* The order of _require_completed_stage.
Rank == [pending |-> 0, parsing |-> 1, chunking |-> 2, embedding |-> 3, indexing |-> 4,
         ready |-> 5]
NextStage == [parsing |-> "chunking", chunking |-> "embedding", embedding |-> "embedding"]
RoleOf == [parsing |-> "parsed", chunking |-> "chunks", embedding |-> "embeddings"]
InputOf == [chunking |-> "parsed", embedding |-> "chunks", indexing |-> "chunks"]

Retries == 0 .. MaxRetries
Contents == UNION {[1 .. n -> Workers] : n \in 0 .. 3}
Run == [pc : Step, at : Status, tries : Retries, why : Reason, claim : Nat,
        content : Contents]
Resting == [pc |-> "idle", at |-> "pending", tries |-> 0, why |-> "none", claim |-> 0,
            content |-> <<>>]

TypeOK ==
    /\ job \in JobStatus
    /\ proj \in Status
    /\ current \in BOOLEAN
    /\ fenced \in BOOLEAN
    /\ slot \in [Roles -> Contents]
    /\ recorded \in [Roles -> Contents]
    /\ file \in [Roles -> Contents]
    /\ attempt \in [Roles \cup {"index"} -> Seq(AttemptState)]
    /\ build \in {"none", "building", "prepared", "ready"}
    /\ journal \in BOOLEAN
    /\ alias \in BOOLEAN
    /\ listed \in BOOLEAN
    /\ other \in {"idle", "with", "without"}
    /\ run \in [Workers -> Run]
    /\ queue \in [Retries -> Nat]
    /\ sent \in 0 .. MaxDeliveries
    /\ failedBy \in Reason
    /\ faults \in 0 .. MaxFaults

\* ensure creates the job, the projection and a bundle of reserved slots.
Init ==
    /\ job = "queued"
    /\ proj = "pending"
    /\ current = TRUE
    /\ fenced = FALSE
    /\ slot = [role \in Roles |-> <<>>]
    /\ recorded = [role \in Roles |-> <<>>]
    /\ file = [role \in Roles |-> <<>>]
    /\ attempt = [kind \in Roles \cup {"index"} |-> <<>>]
    /\ build = "none"
    /\ journal = FALSE
    /\ alias = FALSE
    /\ listed = FALSE
    /\ other = "idle"
    /\ run = [w \in Workers |-> Resting]
    /\ queue = [r \in Retries |-> 0]
    /\ sent = 0
    /\ failedBy = "none"
    /\ faults = 0

----------------------------------------------------------------------------
(* What every step is made of.                                              *)

\* lock_ingestion_source, with require_active and without it for terminal projections.
ActiveSource == current /\ ~fenced
UsableMutant == ~fenced
Usable == ~fenced /\ (current \/ proj \in Terminal)

Spend == faults < MaxFaults /\ faults' = faults + 1

At(w, step) == run[w].pc = step

Role(w) == RoleOf[run[w].at]

Goto(w, step) == run' = [run EXCEPT ![w].pc = step]

Raise(w, why) == run' = [run EXCEPT ![w].pc = "raised", ![w].why = why]

Acknowledge(w) == run' = [run EXCEPT ![w] = Resting]

EnterMutant(w, status) ==
    run' = [run EXCEPT ![w] =
        CASE status = "ready" -> Resting
          [] status = "failed" -> [@ EXCEPT !.pc = "raised", !.why = "conflict"]
          [] status \in {"parsing", "chunking"} -> [@ EXCEPT !.pc = "make", !.at = status]
          [] OTHER -> [@ EXCEPT !.pc = "read", !.at = status]]

\* The loop of RagIngestionWorkflow.run turns to the status a transaction returned.
Enter(w, status) ==
    run' = [run EXCEPT ![w] =
        CASE status = "ready" -> Resting
          [] status = "failed" -> [@ EXCEPT !.pc = "raised", !.why = "conflict"]
          [] status = "parsing" -> [@ EXCEPT !.pc = "make", !.at = status]
          [] OTHER -> [@ EXCEPT !.pc = "read", !.at = status]]

\* The commit is confirmed and the worker goes on, or it was applied and the
\* connection was lost: safe_database_error makes that a retryable error.
Commit(w, goOn) ==
    \/ goOn /\ UNCHANGED faults
    \/ Spend /\ Raise(w, "transient")

IsOpen(kind) == \E i \in DOMAIN attempt[kind] : attempt[kind][i] = "open"

\* A new attempt, named by its position.
Open(kind) == attempt' = [attempt EXCEPT ![kind] = Append(@, "open")]

Settle(kind, n, state) == attempt' = [attempt EXCEPT ![kind][n] = state]

----------------------------------------------------------------------------
(* The broker and the worker's loop.                                         *)

\* The dispatcher sends the job; it may send it again when a send was unconfirmed.
Deliver ==
    /\ sent < MaxDeliveries
    /\ sent' = sent + 1
    /\ queue' = [queue EXCEPT ![0] = @ + 1]
    /\ UNCHANGED <<job, proj, source, artifacts, attempt, index, run, failedBy, faults>>

Receive(w, r) ==
    /\ At(w, "idle")
    /\ queue[r] > 0
    /\ queue' = [queue EXCEPT ![r] = @ - 1]
    /\ run' = [run EXCEPT ![w] = [Resting EXCEPT !.pc = "begin", !.tries = r]]
    /\ UNCHANGED <<job, proj, source, artifacts, attempt, index, sent, failedBy, faults>>

\* lifecycle.begin.  Its ingestion_state_inconsistent branches need statuses that
\* StatusesAgree excludes.
Begin(w) ==
    /\ At(w, "begin")
    /\ \/ ~Usable /\ Raise(w, "inactive") /\ UNCHANGED <<job, proj, faults>>
       \/ /\ Usable /\ proj = "pending" /\ job = "queued"
          /\ job' = "running"
          /\ proj' = "parsing"
          /\ Commit(w, Enter(w, "parsing"))
       \/ /\ Usable /\ proj # "pending"
          /\ Enter(w, proj)
          /\ UNCHANGED <<job, proj, faults>>
    /\ UNCHANGED <<source, artifacts, attempt, index, broker, failedBy>>

\* _read_artifact: the verified slot's digest against the reference and the file.
Read(w) ==
    /\ At(w, "read")
    /\ run' = [run EXCEPT ![w].content = file[InputOf[run[w].at]],
                          ![w].pc = IF run[w].at = "indexing" THEN "ensure build" ELSE "make"]
    /\ UNCHANGED <<job, proj, source, artifacts, attempt, index, broker, failedBy, faults>>

\* ProductionEmbeddingStage.embed starts with the status that it reads itself.
StageConflict(w) == run[w].at = "embedding" /\ proj # "embedding"

\* The parser, the chunker or the embedder; it may fail, for good or for now.
Make(w) ==
    /\ At(w, "make")
    /\ \/ StageConflict(w) /\ Raise(w, "conflict")
       \/ /\ ~StageConflict(w)
          /\ \/ run' = [run EXCEPT ![w].content = Append(@, w), ![w].pc = "reserve"]
             \/ Raise(w, "error")
             \/ Raise(w, "transient")
    /\ UNCHANGED <<job, proj, source, artifacts, attempt, index, broker, failedBy, faults>>

----------------------------------------------------------------------------
(* Publication of an artifact: RagArtifactPublisher and finalize_artifact.   *)

\* An open attempt makes the delivery busy: it is acknowledged and the owner goes on.
MayReserveMutant(kind) == TRUE
MayReserve(kind) == ~IsOpen(kind)

\* The first transaction of publish; a verified slot stays authoritative.
Reserve(w) ==
    /\ At(w, "reserve")
    /\ \/ job = "failed" /\ Raise(w, "conflict") /\ UNCHANGED <<attempt, faults>>
       \/ /\ job # "failed" /\ ~ActiveSource
          /\ Raise(w, "inactive")
          /\ UNCHANGED <<attempt, faults>>
       \/ /\ job # "failed" /\ ActiveSource /\ slot[Role(w)] # <<>>
          /\ run' = [run EXCEPT ![w].content = file[Role(w)], ![w].claim = 0,
                                ![w].pc = "accept"]
          /\ UNCHANGED <<attempt, faults>>
       \/ /\ job # "failed" /\ ActiveSource /\ slot[Role(w)] = <<>> /\ ~MayReserve(Role(w))
          /\ Acknowledge(w)
          /\ UNCHANGED <<attempt, faults>>
       \/ /\ job # "failed" /\ ActiveSource /\ slot[Role(w)] = <<>> /\ MayReserve(Role(w))
          /\ Open(Role(w))
          /\ Commit(w, run' = [run EXCEPT ![w].claim = Len(attempt[Role(w)]) + 1,
                                          ![w].pc = "write"])
    /\ UNCHANGED <<job, proj, source, artifacts, index, broker, failedBy>>

\* TrackedLocalArtifactStore.publish: the canonical key is linked only when absent.
\* The attempt is closed only when the writer has ended and its temporary file is gone.
Linked(w) == file' = [file EXCEPT ![Role(w)] = run[w].content]

Write(w) ==
    /\ At(w, "write")
    /\ \/ /\ file[Role(w)] = <<>>
          /\ Linked(w)
          /\ Goto(w, "accept")
          /\ UNCHANGED faults
       \/ file[Role(w)] # <<>> /\ Raise(w, "error") /\ UNCHANGED <<file, faults>>
       \/ /\ file[Role(w)] = <<>>
          /\ Spend
          /\ Linked(w) \/ UNCHANGED file
          /\ Goto(w, "close") \/ Raise(w, "error")
    /\ UNCHANGED <<job, proj, source, slot, recorded, attempt, index, broker, failedBy>>

\* close_failed_attempt
Close(w) ==
    /\ At(w, "close")
    /\ Settle(Role(w), run[w].claim, "failed")
    /\ Commit(w, Raise(w, "error"))
    /\ UNCHANGED <<job, proj, source, artifacts, index, broker, failedBy>>

\* finalize_artifact: only the claim of an open attempt changes the slot.
Finalize(w) ==
    IF run[w].claim = 0
    THEN UNCHANGED <<slot, attempt>>
    ELSE /\ slot' = [slot EXCEPT ![Role(w)] = run[w].content]
         /\ Settle(Role(w), run[w].claim, "verified")

\* The rows that complete_parsing, complete_chunking and embed write.
Record(w) == recorded' = [recorded EXCEPT ![Role(w)] = run[w].content]

\* The last transaction of embed needs an active source, whatever the projection's status.
Admits(w) == IF run[w].at = "embedding" THEN ActiveSource ELSE Usable

\* complete_parsing, complete_chunking and the last transaction of embed.  A stage
\* that somebody completed meanwhile is accepted as a replay of its verified artifact.
Accept(w) ==
    /\ At(w, "accept")
    /\ \/ /\ ~Admits(w)
          /\ Raise(w, "inactive")
          /\ UNCHANGED <<proj, slot, recorded, attempt, faults>>
       \/ /\ Admits(w) /\ proj = run[w].at
          /\ Finalize(w)
          /\ Record(w)
          /\ proj' = NextStage[proj]
          /\ Commit(w, IF run[w].at = "embedding" THEN Goto(w, "advance")
                       ELSE Enter(w, NextStage[proj]))
       \/ /\ Admits(w) /\ proj # run[w].at
          /\ IF proj = "failed" THEN Raise(w, "conflict")
             ELSE IF run[w].at = "embedding" THEN Goto(w, "advance")
             ELSE Enter(w, proj)
          /\ UNCHANGED <<proj, slot, recorded, attempt, faults>>
    /\ UNCHANGED <<job, source, file, index, broker, failedBy>>

\* complete_embedding
Advance(w) ==
    /\ At(w, "advance")
    /\ \/ ~Usable /\ Raise(w, "inactive") /\ UNCHANGED <<proj, faults>>
       \/ /\ Usable /\ proj = "embedding"
          /\ proj' = "indexing"
          /\ Commit(w, Enter(w, "indexing"))
       \/ Usable /\ proj # "embedding" /\ Enter(w, proj) /\ UNCHANGED <<proj, faults>>
    /\ UNCHANGED <<job, source, artifacts, attempt, index, broker, failedBy>>

----------------------------------------------------------------------------
(* Indexing: ProductionIndexingStage, prepare_tracked_index and              *)
(* ProductionReadinessVerifier.                                              *)

\* _ensure_build
EnsureBuild(w) ==
    /\ At(w, "ensure build")
    /\ \/ ~ActiveSource /\ Raise(w, "inactive") /\ UNCHANGED <<build, faults>>
       \/ /\ ActiveSource /\ proj # "indexing"
          /\ Raise(w, "conflict")
          /\ UNCHANGED <<build, faults>>
       \/ /\ ActiveSource /\ proj = "indexing"
          /\ build' = IF build = "none" THEN "building" ELSE build
          /\ Commit(w, Goto(w, "reserve index"))
    /\ UNCHANGED <<job, proj, source, artifacts, attempt, journal, alias, listed, other, broker,
                   failedBy>>

\* The first transaction of prepare_tracked_index; a prepared build is only observed.
ReserveIndex(w) ==
    /\ At(w, "reserve index")
    /\ \/ ~ActiveSource /\ Raise(w, "inactive") /\ UNCHANGED <<attempt, faults>>
       \/ /\ ActiveSource /\ ~MayReserve("index")
          /\ Acknowledge(w)
          /\ UNCHANGED <<attempt, faults>>
       \/ /\ ActiveSource /\ MayReserve("index") /\ build # "building"
          /\ Goto(w, "verify")
          /\ UNCHANGED <<attempt, faults>>
       \/ /\ ActiveSource /\ MayReserve("index") /\ build = "building"
          /\ Open("index")
          /\ Commit(w, run' = [run EXCEPT ![w].claim = Len(attempt["index"]) + 1,
                                          ![w].pc = "prepare"])
    /\ UNCHANGED <<job, proj, source, artifacts, index, broker, failedBy>>

\* adapter.prepare, with on_identity, which refuses an inactive source.  A writer whose
\* end is not confirmed keeps its attempt open: the task neither retries nor fails.
Prepare(w) ==
    /\ At(w, "prepare")
    /\ \/ ActiveSource /\ Goto(w, "finish index") /\ UNCHANGED faults
       \/ ~ActiveSource /\ Acknowledge(w) /\ UNCHANGED faults
       \/ Spend /\ (Acknowledge(w) \/ Goto(w, "close index") \/ Raise(w, "error"))
    /\ UNCHANGED <<job, proj, source, artifacts, attempt, index, broker, failedBy>>

\* The last transaction of prepare_tracked_index; an unconfirmed commit is reported as
\* rag_index_writer_unconfirmed.
FinishIndex(w) ==
    /\ At(w, "finish index")
    /\ \/ ~ActiveSource /\ Raise(w, "inactive") /\ UNCHANGED <<attempt, build, faults>>
       \/ /\ ActiveSource
          /\ build' = "prepared"
          /\ Settle("index", run[w].claim, "verified")
          /\ (Goto(w, "verify") /\ UNCHANGED faults) \/ (Spend /\ Acknowledge(w))
    /\ UNCHANGED <<job, proj, source, artifacts, journal, alias, listed, other, broker, failedBy>>

\* The attempt of a writer that is known to have ended is closed with its code.
CloseIndex(w) ==
    /\ At(w, "close index")
    /\ \/ ~ActiveSource /\ Acknowledge(w) /\ UNCHANGED <<attempt, faults>>
       \/ /\ ActiveSource
          /\ Settle("index", run[w].claim, "failed")
          /\ \/ (Raise(w, "transient") \/ Raise(w, "error")) /\ UNCHANGED faults
             \/ Spend /\ Acknowledge(w)
    /\ UNCHANGED <<job, proj, source, artifacts, index, broker, failedBy>>

\* verify locks the profile's row before it reads the members of the alias, and keeps
\* the lock until its transaction ends.
ProfileFreeMutant == TRUE
ProfileFree == other = "idle"

\* verify moves the alias inside the transaction that makes the projection READY.
Activate ==
    /\ alias' = TRUE
    /\ listed' = TRUE
    /\ build' = "ready"
    /\ proj' = "ready"
    /\ job' = "succeeded"

\* A READY projection is only validated: the alias must agree with is_active.
Verify(w) ==
    /\ At(w, "verify")
    /\ \/ /\ proj \notin {"indexing", "ready"}
          /\ Raise(w, "conflict")
          /\ UNCHANGED <<job, proj, index, faults>>
       \/ /\ proj \in {"indexing", "ready"} /\ ~Usable
          /\ Raise(w, "inactive")
          /\ UNCHANGED <<job, proj, index, faults>>
       \/ /\ proj \in {"indexing", "ready"} /\ Usable /\ ProfileFree /\ journal
          /\ Acknowledge(w)
          /\ UNCHANGED <<job, proj, index, faults>>
       \/ /\ proj = "ready" /\ Usable /\ ProfileFree /\ ~journal
          /\ IF alias = listed THEN Goto(w, "complete") ELSE Raise(w, "error")
          /\ UNCHANGED <<job, proj, index, faults>>
       \/ /\ proj = "indexing" /\ Usable /\ ProfileFree /\ ~journal
          /\ \/ Activate /\ UNCHANGED journal /\ Commit(w, Goto(w, "complete"))
             \/ /\ Spend
                /\ \/ journal' = TRUE /\ Acknowledge(w) /\ (alias' = TRUE \/ UNCHANGED alias)
                   \/ alias' = TRUE /\ UNCHANGED journal /\ Raise(w, "transient")
                   \/ Raise(w, "error") /\ UNCHANGED <<journal, alias>>
                /\ UNCHANGED <<job, proj, build, listed>>
          /\ UNCHANGED other
    /\ UNCHANGED <<source, artifacts, attempt, broker, failedBy>>

\* complete_indexing finds the projection READY: verify has made it so.
CompleteIndexing(w) ==
    /\ At(w, "complete")
    /\ \/ fenced /\ Raise(w, "inactive")
       \/ ~fenced /\ Enter(w, proj)
    /\ UNCHANGED <<job, proj, source, artifacts, attempt, index, broker, failedBy, faults>>

----------------------------------------------------------------------------
(* Errors, retries and the end of a delivery.                                *)

\* A transaction that was not applied; the last steps of the index writer report it
\* as an unconfirmed writer.
DatabaseError(w) ==
    /\ \/ /\ run[w].pc \in {"begin", "read", "make", "reserve", "close", "accept", "advance",
                            "ensure build", "reserve index", "verify", "complete"}
          /\ Raise(w, "transient")
       \/ run[w].pc \in {"finish index", "close index"} /\ Acknowledge(w)
    /\ Spend
    /\ UNCHANGED <<job, proj, source, artifacts, attempt, index, broker, failedBy>>

\* task.retry, or the end of what retries may repair.
Decide(w) ==
    /\ At(w, "raised")
    /\ IF run[w].why = "transient" /\ run[w].tries < MaxRetries
       THEN /\ queue' = [queue EXCEPT ![run[w].tries + 1] = @ + 1]
            /\ Acknowledge(w)
       ELSE Goto(w, "fail") /\ UNCHANGED queue
    /\ UNCHANGED <<job, proj, source, artifacts, attempt, index, sent, failedBy, faults>>

\* lifecycle.fail leaves a terminal projection alone and needs an active source.
MayFail == Usable /\ proj \notin Terminal

FailBothMutant(why) ==
    /\ proj' = "failed"
    /\ failedBy' = why
    /\ UNCHANGED job
FailBoth(why) ==
    /\ proj' = "failed"
    /\ job' = "failed"
    /\ failedBy' = why

\* workflow.fail by the task; its own errors are swallowed.
Fail(w) ==
    /\ At(w, "fail")
    /\ \/ MayFail /\ FailBoth(run[w].why) /\ UNCHANGED faults
       \/ ~MayFail /\ UNCHANGED <<job, proj, failedBy, faults>>
       \/ MayFail /\ Spend /\ UNCHANGED <<job, proj, failedBy>>
    /\ Acknowledge(w)
    /\ UNCHANGED <<source, artifacts, attempt, index, broker>>

\* The worker process dies: acks_late and reject_on_worker_lost return the message.
WorkerCrash(w) ==
    /\ ~At(w, "idle")
    /\ Spend
    /\ queue' = [queue EXCEPT ![run[w].tries] = @ + 1]
    /\ Acknowledge(w)
    /\ UNCHANGED <<job, proj, source, artifacts, attempt, index, sent, failedBy>>

----------------------------------------------------------------------------
(* The world outside the task.                                               *)

\* A newer version becomes the document's active one.
Supersede ==
    /\ SourceChanges /\ current
    /\ current' = FALSE
    /\ UNCHANGED <<job, proj, fenced, artifacts, attempt, index, run, broker, failedBy, faults>>

\* block_index_writes, or the document leaves its active lifecycle.
Fence ==
    /\ SourceChanges /\ ~fenced
    /\ fenced' = TRUE
    /\ UNCHANGED <<job, proj, current, artifacts, attempt, index, run, broker, failedBy, faults>>

\* SqlAlchemyInactiveRagIngestionReconciler._terminalize
TerminalizeMutant == FALSE
Terminalize ==
    /\ ~current /\ ~fenced /\ proj \notin Terminal
    /\ FailBoth("inactive")
    /\ UNCHANGED <<source, artifacts, attempt, index, run, broker, faults>>

\* The build is a member of the alias by the rows: active_rows, _authoritative_targets.
IsTarget == build = "ready" /\ proj = "ready" /\ ActiveSource

\* verify of another document's ingestion, or a run of the alias parity reconciler,
\* locks the profile and reads the members.  It matters once an index is prepared.
OtherReads ==
    /\ ProfileFree /\ ~journal /\ build \in {"prepared", "ready"}
    /\ other' = IF IsTarget THEN "with" ELSE "without"
    /\ UNCHANGED <<job, proj, source, artifacts, attempt, build, journal, alias, listed, run,
                   broker, failedBy, faults>>

\* It is turned down before the alias changes; or it gives the alias the members that
\* it read and ends; or the outcome of the change, or the commit after it, is lost.
OtherEnds ==
    /\ other # "idle"
    /\ other' = "idle"
    /\ \/ UNCHANGED <<journal, alias, listed, faults>>
       \/ /\ alias' = (other = "with")
          /\ listed' = (other = "with")
          /\ UNCHANGED <<journal, faults>>
       \/ /\ Spend
          /\ \/ journal' = TRUE /\ alias' \in {alias, other = "with"}
             \/ UNCHANGED journal /\ alias' = (other = "with")
          /\ UNCHANGED listed
    /\ UNCHANGED <<job, proj, source, artifacts, attempt, build, run, broker, failedBy>>

WorkerStep(w) ==
    \/ Begin(w) \/ Read(w) \/ Make(w) \/ Reserve(w) \/ Write(w) \/ Close(w) \/ Accept(w)
    \/ Advance(w) \/ EnsureBuild(w) \/ ReserveIndex(w) \/ Prepare(w) \/ FinishIndex(w)
    \/ CloseIndex(w) \/ Verify(w) \/ CompleteIndexing(w) \/ Decide(w) \/ Fail(w)

Next ==
    \/ Deliver \/ Supersede \/ Fence \/ Terminalize \/ OtherReads \/ OtherEnds
    \/ \E w \in Workers :
        \/ \E r \in Retries : Receive(w, r)
        \/ WorkerStep(w) \/ DatabaseError(w) \/ WorkerCrash(w)

\* The dispatcher sends, workers take messages and finish their steps, and the beat
\* schedule runs the inactive-source reconciler every five seconds.  Every alias change
\* ends, and a worker that waits for the profile's row gets it: the database queues locks.
Fairness ==
    /\ WF_vars(Deliver)
    /\ WF_vars(Terminalize)
    /\ WF_vars(OtherEnds)
    /\ SF_vars(\E w \in Workers, r \in Retries : Receive(w, r))
    /\ \A w \in Workers : WF_vars(WorkerStep(w)) /\ SF_vars(Verify(w))

Spec == Init /\ [][Next]_vars /\ Fairness

----------------------------------------------------------------------------
(* Properties.                                                               *)

\* Job and projection tell the same story, so ingestion_state_inconsistent is never
\* raised, whichever of begin, verify, fail and the reconciler wrote last.
StatusesAgree ==
    /\ job = "queued" <=> proj = "pending"
    /\ job = "succeeded" <=> proj = "ready"
    /\ job = "failed" <=> proj = "failed"

\* Past its stage an artifact is verified, and slot, ingestion row and canonical file
\* hold the same bytes, although every delivery makes bytes of its own.  Verified chunks
\* were made from the verified parse and verified vectors from the verified chunks,
\* never from the bytes of a delivery that lost.
ArtifactsAgree ==
    /\ \A stage \in DOMAIN RoleOf : LET role == RoleOf[stage] IN
        /\ proj # "failed" /\ Rank[proj] > Rank[stage] => slot[role] # <<>>
        /\ slot[role] # <<>> => recorded[role] = slot[role] /\ file[role] = slot[role]
    /\ slot["chunks"] # <<>> => SubSeq(slot["chunks"], 1, 1) = slot["parsed"]
    /\ slot["embeddings"] # <<>> => SubSeq(slot["embeddings"], 1, 2) = slot["chunks"]

\* One writer at a time: at most one open attempt per slot and per index, and none is
\* left beside a verified slot, whatever crashes and duplicated deliveries came before.
OneWriter ==
    /\ \A kind \in DOMAIN attempt :
        Cardinality({i \in DOMAIN attempt[kind] : attempt[kind][i] = "open"}) <= 1
    /\ \A role \in Roles : slot[role] # <<>> => ~IsOpen(role)

\* A READY projection of an active source is searchable: its index is a member of the
\* alias, the build row says so, the build is ready and no index writer is left open.
\* Others that compute the members anew never drop it, whatever they read before it was
\* activated and whichever alias change or commit is lost.
ReadyIsSearchable ==
    proj = "ready" /\ ActiveSource => alias /\ listed /\ build = "ready" /\ ~IsOpen("index")

\* Once the source is superseded or fenced nothing advances any more: no stage, no
\* verified artifact and no index build, and the alias never gets the index as a member
\* again, although workers that write outside a transaction started before and others
\* have read the alias members before.
NothingAdvances ==
    ~current \/ fenced =>
        /\ proj' \in {proj, "failed"}
        /\ UNCHANGED <<slot, recorded, build>>
        /\ alias' => alias
InactiveStopsWriters == [][NothingAdvances]_vars

\* Without faults every delivered ingestion ends, whatever deliveries overlap and
\* whenever the source is superseded; a fence leaves it as it is.
IngestionSettles == [](faults = 0) => <>(proj \in Terminal \/ fenced)
============================================================================
