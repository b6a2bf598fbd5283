------------------------- MODULE AssetVerification -------------------------
(***************************************************************************)
(* Verification of uploaded versions in the background: the dispatcher     *)
(* that claims jobs and sends them to the broker, the Celery task          *)
(* verify_asset with its retries, the job lifecycle it drives and the      *)
(* hand-over of a verified version to RAG ingestion.                       *)
(*                                                                         *)
(* The versions of one document are named by their numbers, and there is   *)
(* one verification job per version, so a job is its version's number.     *)
(* Every database transaction is one action; a worker that meets a         *)
(* database error does not know whether its transaction was applied.       *)
(* A started_at older than the two-minute limit is membership in "stale".  *)
(***************************************************************************)
EXTENDS Integers, FiniteSets

CONSTANTS
    Jobs,          \* numbers of the versions that wait for verification
    Workers,       \* worker processes of the Celery application
    Dispatchers,   \* concurrent runs of AssetVerificationDispatchReconciler
    MaxRetries,    \* max_retries of the task
    MaxFaults      \* bound on crashes, database errors, failed sends and slow deliveries

ASSUME VerificationAssumption ==
    /\ Jobs \subseteq Nat \ {0}
    /\ MaxRetries \in Nat
    /\ MaxFaults \in Nat

VARIABLES
    job,        \* job[j]: status, stage and attempt of the job row
    ready,      \* versions whose status is READY; the others are STORED
    active,     \* number of the document's active version, 0 when there is none
    stale,      \* jobs whose started_at is older than the stale limit; a queued job is never
                \* in it: it has no started_at, or a fresh one as soon as it starts
    claims,     \* claims[d]: claims that a dispatcher run has yet to send
    refused,    \* refused[d]: the claim whose send raised, before it is marked
    queue,      \* queue[j][r]: messages for job j with r retries in the broker
    pc,         \* what each worker does
    task,       \* task[w]: the message that a worker has not acknowledged
    handed,     \* versions for which an ingestion job exists
    corrupt,    \* versions whose stored bytes do not match their digest
    exhausted,  \* history: jobs that a delivery gave up after its last retry
    unsent,     \* history: jobs whose retry could not be published, which drops the message
    faults      \* faults met so far

jobVars == <<job, ready, active, stale>>
dispatchVars == <<claims, refused>>
vars == <<job, ready, active, stale, claims, refused, queue, pc, task, handed,
          corrupt, exhausted, unsent, faults>>

Retries == 0 .. MaxRetries
Status == {"queued", "running", "succeeded", "failed"}
Stage == {"queued", "dispatching_verification", "verifying_object", "retrying_verification",
          "verification_dispatch_retry", "stored", "ready", "failed"}
Row == [status : Status, stage : Stage, attempt : Nat]
Claim == [job : Jobs, attempt : Nat]
Message == [job : Jobs, retries : Retries]
Step == {"idle", "begin", "verify", "verified", "retry", "fail", "succeed", "handoff",
         "error", "decide", "give up"}

TypeOK ==
    /\ job \in [Jobs -> Row]
    /\ ready \subseteq Jobs
    /\ active \in Jobs \cup {0}
    /\ stale \subseteq Jobs
    /\ claims \in [Dispatchers -> SUBSET Claim]
    /\ refused \in [Dispatchers -> SUBSET Claim]
    /\ queue \in [Jobs -> [Retries -> Nat]]
    /\ pc \in [Workers -> Step]
    /\ task \in [Workers -> SUBSET Message]
    /\ handed \subseteq Jobs
    /\ corrupt \subseteq Jobs
    /\ exhausted \subseteq Jobs
    /\ unsent \subseteq Jobs
    /\ faults \in 0 .. MaxFaults

QueuedRow == [status |-> "queued", stage |-> "queued", attempt |-> 0]

\* A job left by an older release: it succeeded before verification existed, and a
\* message for it may still be in the broker.
LegacyRow == [status |-> "succeeded", stage |-> "stored", attempt |-> 1]

Init ==
    /\ job \in [Jobs -> {QueuedRow, LegacyRow}]
    /\ ready = {}
    /\ active = 0
    /\ stale = {j \in Jobs : job[j] = LegacyRow}
    /\ claims = [d \in Dispatchers |-> {}]
    /\ refused = [d \in Dispatchers |-> {}]
    /\ \E old \in SUBSET stale :
        queue = [j \in Jobs |-> [r \in Retries |-> IF j \in old /\ r = 0 THEN 1 ELSE 0]]
    /\ pc = [w \in Workers |-> "idle"]
    /\ task = [w \in Workers |-> {}]
    /\ handed = {}
    /\ corrupt \in SUBSET Jobs
    /\ exhausted = {}
    /\ unsent = {}
    /\ faults = 0

----------------------------------------------------------------------------
(* The job lifecycle.                                                       *)

Terminal(row) == row.status \in {"succeeded", "failed"}

\* Job.start, Job.advance, Job.succeed and Job.fail.
Start(row, stage) == [status |-> "running", stage |-> stage, attempt |-> row.attempt + 1]
AdvanceStage(row, stage) == [row EXCEPT !.stage = stage]
Succeed(row, stage) == [row EXCEPT !.status = "succeeded", !.stage = stage]
FailRow(row) == [row EXCEPT !.status = "failed", !.stage = "failed"]

\* A job is entered: started when it is queued, moved on when it runs.
Enter(row, stage) ==
    IF row.status = "queued" THEN Start(row, stage) ELSE AdvanceStage(row, stage)

\* SqlAlchemyAssetVerificationLifecycle.fail and retry leave terminal jobs alone.
Failed(row) == IF Terminal(row) THEN row ELSE FailRow(Enter(row, "verifying_object"))
Retried(row) == IF Terminal(row) THEN row ELSE Enter(row, "retrying_verification")

\* A legacy success whose version was never verified is open again.
Unverified(j) == job[j].status = "succeeded" /\ job[j].stage = "stored" /\ j \notin ready

\* SqlAlchemyAssetVerificationLifecycle.begin
Begun(j) ==
    IF Unverified(j) THEN Start(job[j], "verifying_object")
    ELSE IF Terminal(job[j]) THEN job[j]
    ELSE Enter(job[j], "verifying_object")

\* Which jobs claim_recoverable selects.
RecoverableForgetsStale == {j \in Jobs : job[j].status = "queued" \/ Unverified(j)}
Recoverable ==
    {j \in Jobs : \/ job[j].status = "queued"
                  \/ job[j].status = "running" /\ j \in stale
                  \/ Unverified(j)}

----------------------------------------------------------------------------
SetRow(j, row) == job' = [job EXCEPT ![j] = row]

Goto(w, step) == pc' = [pc EXCEPT ![w] = step]

Acknowledge(w) == Goto(w, "idle") /\ task' = [task EXCEPT ![w] = {}]

Spend == faults < MaxFaults /\ faults' = faults + 1

Enqueue(j, r) == queue' = [queue EXCEPT ![j][r] = @ + 1]

\* Somebody still works on the job: a claim, a message or a worker.
Outstanding(j) ==
    \/ \E d \in Dispatchers : \E c \in claims[d] \cup refused[d] : c.job = j
    \/ \E r \in Retries : queue[j][r] > 0
    \/ \E w \in Workers : \E m \in task[w] : m.job = j

\* Two minutes pass since started_at: at no cost once nobody works on the job.
GoStale(j) ==
    /\ job[j].status = "running" /\ j \notin stale
    /\ IF Outstanding(j) THEN Spend ELSE UNCHANGED faults
    /\ stale' = stale \cup {j}
    /\ UNCHANGED <<job, ready, active, dispatchVars, queue, pc, task, handed, corrupt,
                   exhausted, unsent>>

----------------------------------------------------------------------------
(* AssetVerificationDispatchReconciler.run_once                              *)

ClaimRow(row) == Start(row, "dispatching_verification")

\* claim_recoverable: other runs' row locks are skipped, the API asks for one job.
ClaimRecoverable(d, chosen) ==
    /\ claims[d] = {} /\ refused[d] = {}
    /\ chosen # {} /\ chosen \subseteq Recoverable
    /\ job' = [j \in Jobs |-> IF j \in chosen THEN ClaimRow(job[j]) ELSE job[j]]
    /\ stale' = stale \ chosen
    /\ claims' = [claims EXCEPT ![d] =
          {[job |-> j, attempt |-> job[j].attempt + 1] : j \in chosen}]
    /\ UNCHANGED <<ready, active, refused, queue, pc, task, handed, corrupt, exhausted,
                   unsent, faults>>

\* sender.send returns.
Send(d) ==
    /\ refused[d] = {}
    /\ \E c \in claims[d] :
        /\ Enqueue(c.job, 0)
        /\ claims' = [claims EXCEPT ![d] = @ \ {c}]
    /\ UNCHANGED <<jobVars, refused, pc, task, handed, corrupt, exhausted, unsent, faults>>

\* sender.send raises; the broker may have accepted the message all the same.
SendRaises(d) ==
    /\ refused[d] = {}
    /\ Spend
    /\ \E c \in claims[d] :
        /\ Enqueue(c.job, 0) \/ UNCHANGED queue
        /\ claims' = [claims EXCEPT ![d] = @ \ {c}]
        /\ refused' = [refused EXCEPT ![d] = {c}]
    /\ UNCHANGED <<jobVars, pc, task, handed, corrupt, exhausted, unsent>>

\* mark_send_failed acts only on the attempt that the claim made.
StillClaimedMutant(c) ==
    job[c.job].status = "running" /\ job[c.job].stage = "dispatching_verification"
StillClaimed(c) ==
    /\ job[c.job].status = "running"
    /\ job[c.job].stage = "dispatching_verification"
    /\ job[c.job].attempt = c.attempt

Requeued(row) == [row EXCEPT !.status = "queued", !.stage = "verification_dispatch_retry"]

MarkSendFailed(d) ==
    /\ \E c \in refused[d] :
        IF StillClaimed(c)
        THEN SetRow(c.job, Requeued(job[c.job])) /\ stale' = stale \ {c.job}
        ELSE UNCHANGED <<job, stale>>
    /\ refused' = [refused EXCEPT ![d] = {}]
    /\ UNCHANGED <<ready, active, claims, queue, pc, task, handed, corrupt, exhausted,
                   unsent, faults>>

\* The run dies, or mark_send_failed raises: the remaining claims are not sent.
DispatcherStops(d) ==
    /\ claims[d] \cup refused[d] # {}
    /\ Spend
    /\ claims' = [claims EXCEPT ![d] = {}]
    /\ refused' = [refused EXCEPT ![d] = {}]
    /\ UNCHANGED <<jobVars, queue, pc, task, handed, corrupt, exhausted, unsent>>

----------------------------------------------------------------------------
(* The Celery task verify_asset.                                             *)

Receive(w, j, r) ==
    /\ pc[w] = "idle"
    /\ queue[j][r] > 0
    /\ queue' = [queue EXCEPT ![j][r] = @ - 1]
    /\ task' = [task EXCEPT ![w] = {[job |-> j, retries |-> r]}]
    /\ Goto(w, "begin")
    /\ UNCHANGED <<jobVars, dispatchVars, handed, corrupt, exhausted, unsent, faults>>

\* A database error of a worker's transaction, applied or not, is retryable.
DatabaseError(w) == Spend /\ Goto(w, "error")

AlreadyVerified(j) == job[j].status = "succeeded" /\ j \in ready

\* lifecycle.begin: verify; or nothing to verify; or a non-retryable AssetTaskError.
Begin(w) ==
    /\ pc[w] = "begin"
    /\ \E m \in task[w] : LET j == m.job IN
        \/ /\ SetRow(j, Begun(j))
           /\ IF job[j].status \in {"queued", "running"} \/ Unverified(j)
              THEN Goto(w, "verify") /\ UNCHANGED task
              ELSE IF AlreadyVerified(j)
              THEN Goto(w, "verified") /\ UNCHANGED task
              ELSE Acknowledge(w)
           /\ UNCHANGED faults
        \/ /\ DatabaseError(w)
           /\ SetRow(j, Begun(j)) \/ UNCHANGED job
           /\ UNCHANGED task
    /\ UNCHANGED <<ready, active, stale, dispatchVars, queue, handed, corrupt, exhausted,
                   unsent>>

\* The digest and the size that were read are the recorded ones.
Matches(j) == j \notin corrupt

\* verify_stored_asset reads the object and compares size and digest.
Verify(w) ==
    /\ pc[w] = "verify"
    /\ \E m \in task[w] :
        \/ Goto(w, "retry")
        \/ ~Matches(m.job) /\ Goto(w, "fail")
        \/ Matches(m.job) /\ Goto(w, "succeed")
    /\ UNCHANGED <<jobVars, dispatchVars, queue, task, handed, corrupt, exhausted, unsent,
                   faults>>

\* lifecycle.retry inside run: the object could not be read.
RetryUnreadable(w) ==
    /\ pc[w] = "retry"
    /\ \E m \in task[w] :
        \/ /\ SetRow(m.job, Retried(job[m.job]))
           /\ Goto(w, "decide")
           /\ UNCHANGED faults
        \/ /\ DatabaseError(w)
           /\ SetRow(m.job, Retried(job[m.job])) \/ UNCHANGED job
    /\ UNCHANGED <<ready, active, stale, dispatchVars, queue, task, handed, corrupt,
                   exhausted, unsent>>

\* lifecycle.fail inside run: the digest does not match, which no retry repairs.
FailMismatch(w) ==
    /\ pc[w] = "fail"
    /\ \E m \in task[w] :
        \/ SetRow(m.job, Failed(job[m.job])) /\ Acknowledge(w) /\ UNCHANGED faults
        \/ /\ DatabaseError(w)
           /\ SetRow(m.job, Failed(job[m.job])) \/ UNCHANGED job
           /\ UNCHANGED task
    /\ UNCHANGED <<ready, active, stale, dispatchVars, queue, handed, corrupt, exhausted,
                   unsent>>

\* The document moves to the verified version unless a newer one is active.
Promoted(j) == IF j > active THEN j ELSE active

\* lifecycle.succeed: version, document and job change in one transaction.
MakeReady(j) ==
    /\ ready' = ready \cup {j}
    /\ active' = Promoted(j)
    /\ SetRow(j, Succeed(job[j], "ready"))

SucceedJob(w) ==
    /\ pc[w] = "succeed"
    /\ \E m \in task[w] : LET j == m.job IN
        \/ /\ Terminal(job[j])
           /\ Goto(w, "handoff")
           /\ UNCHANGED <<job, ready, active, task, faults>>
        \/ /\ job[j].status = "queued" \/ (job[j].status = "running" /\ j \in ready)
           /\ Acknowledge(w)
           /\ UNCHANGED <<job, ready, active, faults>>
        \/ /\ job[j].status = "running" /\ j \notin ready
           /\ MakeReady(j)
           /\ Goto(w, "handoff")
           /\ UNCHANGED <<task, faults>>
        \/ /\ job[j].status = "running" /\ j \notin ready
           /\ MakeReady(j)
           /\ DatabaseError(w)
           /\ UNCHANGED task
        \/ /\ DatabaseError(w)
           /\ UNCHANGED <<job, ready, active, task>>
    /\ UNCHANGED <<stale, dispatchVars, queue, handed, corrupt, exhausted, unsent>>

\* verified_asset_version_id, in a transaction of its own.
ReadVerified(w) ==
    /\ pc[w] = "verified"
    /\ \E m \in task[w] :
        \/ job[m.job].status = "succeeded" /\ Goto(w, "handoff") /\ UNCHANGED <<task, faults>>
        \/ job[m.job].status # "succeeded" /\ Acknowledge(w) /\ UNCHANGED faults
        \/ DatabaseError(w) /\ UNCHANGED task
    /\ UNCHANGED <<jobVars, dispatchVars, queue, handed, corrupt, exhausted, unsent>>

\* lock_ingestion_source admits only the document's active READY version.
Admitted(j) == j \in ready /\ active = j

\* _ensure_rag_job: an inactive source is a non-retryable RagIngestionError.
HandOff(w) ==
    /\ pc[w] = "handoff"
    /\ \E m \in task[w] :
        \/ /\ Admitted(m.job)
           /\ handed' = handed \cup {m.job}
           /\ Acknowledge(w)
           /\ UNCHANGED faults
        \/ ~Admitted(m.job) /\ Goto(w, "give up") /\ UNCHANGED <<handed, task, faults>>
        \/ /\ DatabaseError(w)
           /\ \/ UNCHANGED handed
              \/ Admitted(m.job) /\ handed' = handed \cup {m.job}
           /\ UNCHANGED task
    /\ UNCHANGED <<jobVars, dispatchVars, queue, corrupt, exhausted, unsent>>

\* The task's handler records a retryable error; its own database errors are suppressed.
RecordError(w) ==
    /\ pc[w] = "error"
    /\ \E m \in task[w] :
        \/ SetRow(m.job, Retried(job[m.job])) /\ UNCHANGED faults
        \/ Spend /\ UNCHANGED job
    /\ Goto(w, "decide")
    /\ UNCHANGED <<ready, active, stale, dispatchVars, queue, task, handed, corrupt,
                   exhausted, unsent>>

\* task.retry publishes the message again and acknowledges this one; the publication
\* may be lost.  After the last retry the job is given up.
Decide(w) ==
    /\ pc[w] = "decide"
    /\ \E m \in task[w] :
        \/ /\ m.retries < MaxRetries
           /\ \/ Enqueue(m.job, m.retries + 1) /\ UNCHANGED <<unsent, faults>>
              \/ Spend /\ unsent' = unsent \cup {m.job} /\ UNCHANGED queue
           /\ Acknowledge(w)
           /\ UNCHANGED exhausted
        \/ /\ m.retries = MaxRetries
           /\ exhausted' = exhausted \cup {m.job}
           /\ Goto(w, "give up")
           /\ UNCHANGED <<queue, task, unsent, faults>>
    /\ UNCHANGED <<jobVars, dispatchVars, handed, corrupt>>

\* workflow.fail by the task's handler; a database error is suppressed.
GiveUp(w) ==
    /\ pc[w] = "give up"
    /\ \E m \in task[w] :
        \/ SetRow(m.job, Failed(job[m.job])) /\ UNCHANGED faults
        \/ Spend /\ UNCHANGED job
    /\ Acknowledge(w)
    /\ UNCHANGED <<ready, active, stale, dispatchVars, queue, handed, corrupt, exhausted,
                   unsent>>

\* The worker process dies: acks_late and reject_on_worker_lost return the message.
WorkerLost(w) == \E m \in task[w] : Enqueue(m.job, m.retries)

WorkerCrash(w) ==
    /\ pc[w] # "idle"
    /\ Spend
    /\ WorkerLost(w)
    /\ Acknowledge(w)
    /\ UNCHANGED <<jobVars, dispatchVars, handed, corrupt, exhausted, unsent>>

\* RagAssetHandoffReconciler: an active READY version without an ingestion job.  The
\* beat task that runs it may raise before it comes to any version, see RagHandoff.
ReconcileHandoff(j) ==
    /\ Admitted(j) /\ j \notin handed
    /\ handed' = handed \cup {j}
    /\ UNCHANGED <<jobVars, dispatchVars, queue, pc, task, corrupt, exhausted, unsent,
                   faults>>

----------------------------------------------------------------------------
WorkerStep(w) ==
    \/ Begin(w) \/ Verify(w) \/ RetryUnreadable(w) \/ FailMismatch(w) \/ SucceedJob(w)
    \/ ReadVerified(w) \/ HandOff(w) \/ RecordError(w) \/ Decide(w) \/ GiveUp(w)

DispatcherStep(d) == Send(d) \/ SendRaises(d) \/ MarkSendFailed(d) \/ DispatcherStops(d)

ClaimJob(j) ==
    \E d \in Dispatchers : \E chosen \in SUBSET Jobs :
        j \in chosen /\ ClaimRecoverable(d, chosen)

ReceiveJob(j) == \E w \in Workers, r \in Retries : Receive(w, j, r)

Next ==
    \/ \E j \in Jobs : ClaimJob(j) \/ ReceiveJob(j) \/ GoStale(j) \/ ReconcileHandoff(j)
    \/ \E d \in Dispatchers : DispatcherStep(d)
    \/ \E w \in Workers : WorkerStep(w) \/ WorkerCrash(w)

\* The beat schedule runs the dispatcher every five seconds, workers take messages and
\* finish them, and time passes.  Nothing makes the hand-over reconciler reach a version.
Fairness ==
    /\ \A j \in Jobs : /\ WF_vars(ClaimJob(j))
                       /\ SF_vars(ReceiveJob(j))
                       /\ WF_vars(GoStale(j))
    /\ \A d \in Dispatchers : WF_vars(DispatcherStep(d))
    /\ \A w \in Workers : WF_vars(WorkerStep(w))

Spec == Init /\ [][Next]_vars /\ Fairness

----------------------------------------------------------------------------
(* Properties.                                                              *)

\* A version is READY exactly when its job has succeeded at stage "ready", so
\* asset_version_not_stored and verification_state_inconsistent are never raised.
ReadyIffSucceeded ==
    \A j \in Jobs : j \in ready <=> job[j].status = "succeeded" /\ job[j].stage = "ready"

\* Bytes that do not match their digest never become READY, whatever deliveries
\* of the job run side by side.
ReadyWasVerified == ready \cap corrupt = {}

\* The document's active version is the newest READY one, in whatever order the
\* verifications of its versions end.
ActiveIsNewestReady ==
    /\ active \in ready \cup {0}
    /\ \A j \in ready : j <= active

\* While a dispatcher holds the claim that made a job's current attempt, nobody
\* queues the job again: a failed send of an older claim leaves the newer one alone.
CurrentClaimNotQueued ==
    \A d \in Dispatchers : \A c \in claims[d] :
        c.attempt = job[c.job].attempt => job[c.job].status # "queued"

\* A job fails only for bad bytes or after a delivery used up its retries: a
\* hand-over that is turned down, a lost claim or a crash never fails it.
FailedForCause ==
    \A j \in Jobs : job[j].status = "failed" => j \in corrupt \cup exhausted

\* A verified version stays verified and a failed job stays failed, whatever stale
\* deliveries, retries and claims arrive afterwards.
OutcomeKept ==
    \A j \in Jobs : (job[j].status = "failed" \/ j \in ready) =>
        job'[j] = job[j] /\ (j \in ready' <=> j \in ready)
OutcomesAreFinal == [][OutcomeKept]_vars

\* Every job ends, succeeded and READY or failed, despite lost messages, crashes
\* between claim and send, and suppressed database errors.
JobsSettle ==
    \A j \in Jobs : <>[](j \in ready \/ job[j].status = "failed")

============================================================================
