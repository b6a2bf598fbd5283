----------------------- MODULE AssetVerificationProofs -----------------------
(***************************************************************************)
(* Proofs about AssetVerification for any number of versions, workers,     *)
(* dispatcher runs, retries and faults.  The properties of the job rows    *)
(* become inductive once the invariant says what each worker has already   *)
(* established about its job: a step of the task acts on what an earlier   *)
(* transaction read, and other deliveries change the row in between.       *)
(***************************************************************************)
EXTENDS AssetVerification, TLAPS

\* The outcome of the job is final: no claim, delivery or retry changes the row.
Settled(j) == Terminal(job[j]) /\ job[j].stage # "stored"

\* A failed row is at stage "failed", so it is settled.
FailedRows == \A j \in Jobs : job[j].status = "failed" => job[j].stage = "failed"

\* What a worker knows of its job when it comes to a step.
Known(step, j) ==
    /\ step = "succeed" => j \notin corrupt
    /\ step = "fail" => j \in corrupt
    /\ step \in {"verify", "retry", "succeed", "fail", "verified"} => job[j].stage # "stored"
    /\ step = "handoff" => Settled(j)
    /\ step = "give up" => Settled(j) \/ j \in exhausted

WorkersKnow ==
    \A w \in Workers : \A m \in task[w] : Known(pc[w], m.job) /\ \A n \in task[w] : n = m

\* A claim that is not sent, or whose failure is not recorded, is held by one run in
\* one place and is no newer than its row.
Held(d) == claims[d] \cup refused[d]
ClaimsHeldOnce ==
    /\ \A d \in Dispatchers : claims[d] \cap refused[d] = {}
    /\ \A d, e \in Dispatchers : d # e => Held(d) \cap Held(e) = {}
    /\ \A d \in Dispatchers : \A c \in Held(d) : c.attempt <= job[c.job].attempt

JobInv ==
    /\ FailedRows
    /\ ReadyIffSucceeded
    /\ ReadyWasVerified
    /\ FailedForCause
    /\ WorkersKnow

ClaimInv == ClaimsHeldOnce /\ CurrentClaimNotQueued

Inv == TypeOK /\ JobInv /\ ActiveIsNewestReady /\ ClaimInv

----------------------------------------------------------------------------
(* Types.                                                                    *)

\* The rows that the job lifecycle writes.
LEMMA RowTypes ==
    ASSUME NEW row \in Row, NEW stage \in Stage
    PROVE  /\ Start(row, stage) \in Row /\ AdvanceStage(row, stage) \in Row
           /\ Succeed(row, stage) \in Row /\ FailRow(row) \in Row /\ Enter(row, stage) \in Row
           /\ Failed(row) \in Row /\ Retried(row) \in Row /\ Requeued(row) \in Row
           /\ ClaimRow(row) \in Row
  <1>. USE DEF Row, Status, Stage
  <1>1. Start(row, stage) \in Row /\ AdvanceStage(row, stage) \in Row
    BY DEF Start, AdvanceStage
  <1>2. Enter(row, stage) \in Row
    BY <1>1 DEF Enter
  <1>3. Succeed(row, stage) \in Row /\ FailRow(row) \in Row /\ Requeued(row) \in Row
    BY DEF Succeed, FailRow, Requeued
  <1>4. Failed(row) \in Row
    <2>1. Enter(row, "verifying_object") \in Row
      BY DEF Enter, Start, AdvanceStage
    <2>2. \A r \in Row : FailRow(r) \in Row
      BY DEF FailRow
    <2>. QED
      BY <2>1, <2>2 DEF Failed
  <1>5. Retried(row) \in Row
    BY DEF Retried, Enter, Start, AdvanceStage, Terminal
  <1>6. ClaimRow(row) \in Row
    BY DEF ClaimRow, Start
  <1>. QED
    BY <1>1, <1>2, <1>3, <1>4, <1>5, <1>6

LEMMA BegunType ==
    ASSUME TypeOK, NEW j \in Jobs
    PROVE  Begun(j) \in Row
  <1>1. job[j] \in Row /\ "verifying_object" \in Stage
    BY DEF TypeOK, Stage
  <1>. QED
    BY <1>1, RowTypes DEF Begun

LEMMA RowWrite ==
    ASSUME TypeOK, NEW j \in Jobs, NEW row \in Row, SetRow(j, row)
    PROVE  /\ job' \in [Jobs -> Row]
           /\ job'[j] = row
           /\ \A k \in Jobs : k # j => job'[k] = job[k]
  BY DEF TypeOK, SetRow

LEMMA EnqueueType ==
    ASSUME TypeOK, NEW j \in Jobs, NEW r \in Retries, Enqueue(j, r)
    PROVE  queue' \in [Jobs -> [Retries -> Nat]]
  BY DEF TypeOK, Enqueue

LEMMA MessageType ==
    ASSUME TypeOK, NEW w \in Workers, NEW m \in task[w]
    PROVE  m \in Message /\ m.job \in Jobs /\ m.retries \in Retries
  BY DEF TypeOK, Message

LEMMA ClaimTypes ==
    ASSUME TypeOK, NEW d \in Dispatchers
    PROVE  Held(d) \subseteq Claim /\ \A c \in Held(d) : c.job \in Jobs /\ c.attempt \in Nat
  BY DEF TypeOK, Held, Claim

LEMMA GotoType ==
    ASSUME TypeOK, NEW w \in Workers, NEW step \in Step, Goto(w, step)
    PROVE  pc' \in [Workers -> Step]
  BY DEF TypeOK, Goto

LEMMA AcknowledgeType ==
    ASSUME TypeOK, NEW w \in Workers, Acknowledge(w)
    PROVE  pc' \in [Workers -> Step] /\ task' \in [Workers -> SUBSET Message]
  BY DEF TypeOK, Acknowledge, Goto, Step

LEMMA SpendType ==
    ASSUME TypeOK, Spend \/ UNCHANGED faults
    PROVE  faults' \in 0 .. MaxFaults
  BY VerificationAssumption DEF TypeOK, Spend

LEMMA InitType == Init => TypeOK
  <1>. SUFFICES ASSUME Init PROVE TypeOK
    OBVIOUS
  <1>1. QueuedRow \in Row /\ LegacyRow \in Row
    BY DEF QueuedRow, LegacyRow, Row, Status, Stage
  <1>2. job \in [Jobs -> Row]
    BY <1>1 DEF Init
  <1>3. queue \in [Jobs -> [Retries -> Nat]]
    BY DEF Init
  <1>. QED
    BY <1>2, <1>3, VerificationAssumption DEF Init, TypeOK, Step

LEMMA ClaimRecoverableType ==
    ASSUME TypeOK, NEW d \in Dispatchers, NEW chosen \in SUBSET Jobs, ClaimRecoverable(d, chosen)
    PROVE  TypeOK'
  <1>1. \A j \in Jobs : job[j] \in Row /\ ClaimRow(job[j]) \in Row /\ job[j].attempt + 1 \in Nat
    <2>. SUFFICES ASSUME NEW j \in Jobs
                  PROVE  job[j] \in Row /\ ClaimRow(job[j]) \in Row /\ job[j].attempt + 1 \in Nat
      OBVIOUS
    <2>1. "stored" \in Stage /\ job[j] \in Row
      BY DEF Stage, TypeOK
    <2>2. ClaimRow(job[j]) \in Row
      BY <2>1, RowTypes
    <2>. QED
      BY <2>1, <2>2 DEF Row
  <1>2. job' \in [Jobs -> Row]
    BY <1>1 DEF ClaimRecoverable
  <1>3. \A j \in chosen : [job |-> j, attempt |-> job[j].attempt + 1] \in Claim
    BY <1>1 DEF Claim
  <1>4. claims' \in [Dispatchers -> SUBSET Claim]
    BY <1>3 DEF ClaimRecoverable, TypeOK
  <1>. QED
    BY <1>2, <1>4 DEF ClaimRecoverable, TypeOK

LEMMA DispatcherType ==
    ASSUME TypeOK, NEW d \in Dispatchers, DispatcherStep(d)
    PROVE  TypeOK'
  <1>. USE ClaimTypes DEF Held
  <1>1. 0 \in Retries
    BY VerificationAssumption DEF Retries
  <1>2. CASE Send(d)
    <2>1. PICK c \in claims[d] : Enqueue(c.job, 0) /\ claims' = [claims EXCEPT ![d] = @ \ {c}]
      BY <1>2 DEF Send
    <2>2. queue' \in [Jobs -> [Retries -> Nat]]
      BY <1>1, <2>1, EnqueueType
    <2>. QED
      BY <1>2, <2>1, <2>2 DEF Send, TypeOK, jobVars
  <1>3. CASE SendRaises(d)
    <2>1. PICK c \in claims[d] : /\ Enqueue(c.job, 0) \/ UNCHANGED queue
                                 /\ claims' = [claims EXCEPT ![d] = @ \ {c}]
                                 /\ refused' = [refused EXCEPT ![d] = {c}]
      BY <1>3 DEF SendRaises
    <2>2. queue' \in [Jobs -> [Retries -> Nat]]
      BY <1>1, <2>1, EnqueueType DEF TypeOK
    <2>3. faults' \in 0 .. MaxFaults
      BY <1>3, SpendType DEF SendRaises
    <2>. QED
      BY <1>3, <2>1, <2>2, <2>3 DEF SendRaises, TypeOK, jobVars
  <1>4. CASE MarkSendFailed(d)
    <2>1. PICK c \in refused[d] :
            IF StillClaimed(c)
            THEN SetRow(c.job, Requeued(job[c.job])) /\ stale' = stale \ {c.job}
            ELSE UNCHANGED <<job, stale>>
      BY <1>4 DEF MarkSendFailed
    <2>2. job[c.job] \in Row /\ Requeued(job[c.job]) \in Row
      <3>1. "stored" \in Stage
        BY DEF Stage
      <3>. QED
        BY <3>1, RowTypes DEF TypeOK
    <2>3. job' \in [Jobs -> Row] /\ stale' \subseteq Jobs
      BY <2>1, <2>2, RowWrite DEF TypeOK
    <2>. QED
      BY <1>4, <2>3 DEF MarkSendFailed, TypeOK
  <1>5. CASE DispatcherStops(d)
    <2>1. faults' \in 0 .. MaxFaults
      BY <1>5, SpendType DEF DispatcherStops
    <2>. QED
      BY <1>5, <2>1 DEF DispatcherStops, TypeOK, jobVars
  <1>. QED
    BY <1>2, <1>3, <1>4, <1>5 DEF DispatcherStep

\* A worker's transaction writes the row of its job, or rolls back.
LEMMA WorkerWrites ==
    ASSUME TypeOK, NEW w \in Workers, NEW m \in task[w],
           \/ SetRow(m.job, Begun(m.job)) \/ SetRow(m.job, Retried(job[m.job]))
           \/ SetRow(m.job, Failed(job[m.job])) \/ SetRow(m.job, Succeed(job[m.job], "ready"))
           \/ UNCHANGED job
    PROVE  job' \in [Jobs -> Row]
  <1>1. m.job \in Jobs /\ job[m.job] \in Row /\ "ready" \in Stage
    BY MessageType DEF TypeOK, Stage
  <1>2. /\ Retried(job[m.job]) \in Row /\ Failed(job[m.job]) \in Row
        /\ Succeed(job[m.job], "ready") \in Row /\ Begun(m.job) \in Row
    BY <1>1, RowTypes, BegunType
  <1>. QED
    BY <1>1, <1>2, RowWrite DEF TypeOK

LEMMA WorkerStepType ==
    ASSUME TypeOK, NEW w \in Workers, WorkerStep(w)
    PROVE  TypeOK'
  <1>1. /\ "verify" \in Step /\ "verified" \in Step /\ "retry" \in Step /\ "fail" \in Step
        /\ "succeed" \in Step /\ "handoff" \in Step /\ "error" \in Step /\ "decide" \in Step
        /\ "give up" \in Step
    BY DEF Step
  <1>2. CASE Begin(w)
    <2>1. PICK m \in task[w] :
            /\ SetRow(m.job, Begun(m.job)) \/ UNCHANGED job
            /\ \/ Goto(w, "verify") /\ UNCHANGED task
               \/ Goto(w, "verified") /\ UNCHANGED task
               \/ Acknowledge(w)
               \/ Goto(w, "error") /\ UNCHANGED task
            /\ Spend \/ UNCHANGED faults
      BY <1>2 DEF Begin, DatabaseError
    <2>2. job' \in [Jobs -> Row] /\ faults' \in 0 .. MaxFaults
      BY <2>1, WorkerWrites, SpendType
    <2>3. pc' \in [Workers -> Step] /\ task' \in [Workers -> SUBSET Message]
      BY <1>1, <2>1, GotoType, AcknowledgeType DEF TypeOK
    <2>. QED
      BY <1>2, <2>2, <2>3 DEF Begin, TypeOK, dispatchVars
  <1>3. CASE Verify(w)
    <2>1. pc' \in [Workers -> Step]
      BY <1>1, <1>3, GotoType DEF Verify
    <2>. QED
      BY <1>3, <2>1 DEF Verify, TypeOK, jobVars, dispatchVars
  <1>4. CASE RetryUnreadable(w)
    <2>1. PICK m \in task[w] :
            /\ SetRow(m.job, Retried(job[m.job])) \/ UNCHANGED job
            /\ Goto(w, "decide") \/ Goto(w, "error")
            /\ Spend \/ UNCHANGED faults
      BY <1>4 DEF RetryUnreadable, DatabaseError
    <2>2. job' \in [Jobs -> Row] /\ faults' \in 0 .. MaxFaults /\ pc' \in [Workers -> Step]
      BY <1>1, <2>1, WorkerWrites, SpendType, GotoType
    <2>. QED
      BY <1>4, <2>2 DEF RetryUnreadable, TypeOK, dispatchVars
  <1>5. CASE FailMismatch(w)
    <2>1. PICK m \in task[w] :
            /\ SetRow(m.job, Failed(job[m.job])) \/ UNCHANGED job
            /\ Acknowledge(w) \/ (Goto(w, "error") /\ UNCHANGED task)
            /\ Spend \/ UNCHANGED faults
      BY <1>5 DEF FailMismatch, DatabaseError
    <2>2. job' \in [Jobs -> Row] /\ faults' \in 0 .. MaxFaults
      BY <2>1, WorkerWrites, SpendType
    <2>3. pc' \in [Workers -> Step] /\ task' \in [Workers -> SUBSET Message]
      BY <1>1, <2>1, GotoType, AcknowledgeType DEF TypeOK
    <2>. QED
      BY <1>5, <2>2, <2>3 DEF FailMismatch, TypeOK, dispatchVars
  <1>6. CASE SucceedJob(w)
    <2>1. PICK m \in task[w] :
            /\ MakeReady(m.job) \/ UNCHANGED <<job, ready, active>>
            /\ Acknowledge(w) \/ ((Goto(w, "handoff") \/ Goto(w, "error")) /\ UNCHANGED task)
            /\ Spend \/ UNCHANGED faults
      BY <1>6 DEF SucceedJob, DatabaseError
    <2>2. job' \in [Jobs -> Row] /\ faults' \in 0 .. MaxFaults
      BY <2>1, WorkerWrites, SpendType DEF MakeReady
    <2>3. pc' \in [Workers -> Step] /\ task' \in [Workers -> SUBSET Message]
      BY <1>1, <2>1, GotoType, AcknowledgeType DEF TypeOK
    <2>4. ready' \subseteq Jobs /\ active' \in Jobs \cup {0}
      BY <2>1, MessageType DEF MakeReady, Promoted, TypeOK
    <2>. QED
      BY <1>6, <2>2, <2>3, <2>4 DEF SucceedJob, TypeOK, dispatchVars
  <1>7. CASE ReadVerified(w)
    <2>1. /\ Acknowledge(w) \/ ((Goto(w, "handoff") \/ Goto(w, "error")) /\ UNCHANGED task)
          /\ Spend \/ UNCHANGED faults
      BY <1>7 DEF ReadVerified, DatabaseError
    <2>2. /\ pc' \in [Workers -> Step] /\ task' \in [Workers -> SUBSET Message]
          /\ faults' \in 0 .. MaxFaults
      BY <1>1, <2>1, GotoType, AcknowledgeType, SpendType DEF TypeOK
    <2>. QED
      BY <1>7, <2>2 DEF ReadVerified, TypeOK, jobVars, dispatchVars
  <1>8. CASE HandOff(w)
    <2>1. PICK m \in task[w] :
            /\ handed' = handed \cup {m.job} \/ UNCHANGED handed
            /\ Acknowledge(w) \/ ((Goto(w, "give up") \/ Goto(w, "error")) /\ UNCHANGED task)
            /\ Spend \/ UNCHANGED faults
      BY <1>8 DEF HandOff, DatabaseError
    <2>2. /\ pc' \in [Workers -> Step] /\ task' \in [Workers -> SUBSET Message]
          /\ faults' \in 0 .. MaxFaults /\ handed' \subseteq Jobs
      BY <1>1, <2>1, GotoType, AcknowledgeType, SpendType, MessageType DEF TypeOK
    <2>. QED
      BY <1>8, <2>2 DEF HandOff, TypeOK, jobVars, dispatchVars
  <1>9. CASE RecordError(w)
    <2>1. PICK m \in task[w] :
            /\ SetRow(m.job, Retried(job[m.job])) \/ UNCHANGED job
            /\ Spend \/ UNCHANGED faults
      BY <1>9 DEF RecordError
    <2>2. job' \in [Jobs -> Row] /\ faults' \in 0 .. MaxFaults /\ pc' \in [Workers -> Step]
      BY <1>1, <1>9, <2>1, WorkerWrites, SpendType, GotoType DEF RecordError
    <2>. QED
      BY <1>9, <2>2 DEF RecordError, TypeOK, dispatchVars
  <1>10. CASE Decide(w)
    <2>1. PICK m \in task[w] :
            /\ (m.retries < MaxRetries /\ Enqueue(m.job, m.retries + 1)) \/ UNCHANGED queue
            /\ Acknowledge(w) \/ (Goto(w, "give up") /\ UNCHANGED task)
            /\ exhausted' = exhausted \cup {m.job} \/ UNCHANGED exhausted
            /\ unsent' = unsent \cup {m.job} \/ UNCHANGED unsent
            /\ Spend \/ UNCHANGED faults
      BY <1>10 DEF Decide
    <2>2. m.job \in Jobs /\ (m.retries < MaxRetries => m.retries + 1 \in Retries)
      BY MessageType, VerificationAssumption DEF Retries
    <2>3. queue' \in [Jobs -> [Retries -> Nat]]
      BY <2>1, <2>2, EnqueueType DEF TypeOK
    <2>4. /\ pc' \in [Workers -> Step] /\ task' \in [Workers -> SUBSET Message]
          /\ faults' \in 0 .. MaxFaults /\ exhausted' \subseteq Jobs /\ unsent' \subseteq Jobs
      BY <1>1, <2>1, <2>2, GotoType, AcknowledgeType, SpendType DEF TypeOK
    <2>. QED
      BY <1>10, <2>3, <2>4 DEF Decide, TypeOK, jobVars, dispatchVars
  <1>11. CASE GiveUp(w)
    <2>1. PICK m \in task[w] :
            /\ SetRow(m.job, Failed(job[m.job])) \/ UNCHANGED job
            /\ Spend \/ UNCHANGED faults
      BY <1>11 DEF GiveUp
    <2>2. job' \in [Jobs -> Row] /\ faults' \in 0 .. MaxFaults
      BY <2>1, WorkerWrites, SpendType
    <2>3. pc' \in [Workers -> Step] /\ task' \in [Workers -> SUBSET Message]
      BY <1>11, AcknowledgeType DEF GiveUp
    <2>. QED
      BY <1>11, <2>2, <2>3 DEF GiveUp, TypeOK, dispatchVars
  <1>. QED
    BY <1>2, <1>3, <1>4, <1>5, <1>6, <1>7, <1>8, <1>9, <1>10, <1>11 DEF WorkerStep

LEMMA TypeStep == TypeOK /\ [Next]_vars => TypeOK'
  <1>. SUFFICES ASSUME TypeOK, [Next]_vars PROVE TypeOK'
    OBVIOUS
  <1>1. ASSUME NEW w \in Workers, NEW j \in Jobs, NEW r \in Retries, Receive(w, j, r) PROVE TypeOK'
    <2>1. queue' \in [Jobs -> [Retries -> Nat]]
      BY <1>1 DEF Receive, TypeOK
    <2>2. [job |-> j, retries |-> r] \in Message
      BY DEF Message
    <2>3. pc' \in [Workers -> Step] /\ task' \in [Workers -> SUBSET Message]
      BY <1>1, <2>2 DEF Receive, Goto, TypeOK, Step
    <2>. QED
      BY <1>1, <2>1, <2>3 DEF Receive, TypeOK, jobVars, dispatchVars
  <1>2. ASSUME NEW j \in Jobs, GoStale(j) PROVE TypeOK'
    <2>1. faults' \in 0 .. MaxFaults
      BY <1>2, SpendType DEF GoStale
    <2>. QED
      BY <1>2, <2>1 DEF GoStale, TypeOK, dispatchVars
  <1>3. ASSUME NEW j \in Jobs, ReconcileHandoff(j) PROVE TypeOK'
    BY <1>3 DEF ReconcileHandoff, TypeOK, jobVars, dispatchVars
  <1>4. ASSUME NEW w \in Workers, WorkerCrash(w) PROVE TypeOK'
    <2>1. PICK m \in task[w] : Enqueue(m.job, m.retries)
      BY <1>4 DEF WorkerCrash, WorkerLost
    <2>2. queue' \in [Jobs -> [Retries -> Nat]]
      BY <2>1, MessageType, EnqueueType
    <2>3. /\ pc' \in [Workers -> Step] /\ task' \in [Workers -> SUBSET Message]
          /\ faults' \in 0 .. MaxFaults
      BY <1>4, AcknowledgeType, SpendType DEF WorkerCrash
    <2>. QED
      BY <1>4, <2>2, <2>3 DEF WorkerCrash, TypeOK, jobVars, dispatchVars
  <1>5. CASE UNCHANGED vars
    BY <1>5 DEF vars, TypeOK
  <1>. QED
    BY <1>1, <1>2, <1>3, <1>4, <1>5, ClaimRecoverableType, DispatcherType, WorkerStepType
    DEF Next, ClaimJob, ReceiveJob

----------------------------------------------------------------------------
(* What a step does to the job rows.                                         *)

\* The row of a job is left alone, or it is open and moves on: it is queued or run
\* again, failed for a cause, or succeeded together with its version.
RowMoves(j) ==
    \/ job'[j] = job[j] /\ (j \in ready' <=> j \in ready)
    \/ /\ ~Settled(j)
       /\ job'[j].stage # "stored"
       /\ job'[j].attempt >= job[j].attempt
       /\ \/ job'[j].status \in {"queued", "running"} /\ (j \in ready' <=> j \in ready)
          \/ /\ job'[j].status = "failed" /\ job'[j].stage = "failed"
             /\ j \in corrupt \cup exhausted /\ (j \in ready' <=> j \in ready)
          \/ /\ job'[j].status = "succeeded" /\ job'[j].stage = "ready"
             /\ j \in ready' /\ j \notin corrupt

\* Nobody queues a job.
NobodyQueues == \A j \in Jobs : job'[j] = job[j] \/ job'[j].status # "queued"

Moves == (\A j \in Jobs : RowMoves(j)) /\ corrupt' = corrupt /\ exhausted \subseteq exhausted'

\* The rows that begin, retry and fail write.
LEMMA RowsWritten ==
    ASSUME TypeOK, NEW j \in Jobs
    PROVE  /\ \/ Begun(j) = job[j] /\ Terminal(job[j]) /\ ~Unverified(j)
              \/ /\ ~Settled(j) /\ Begun(j).status = "running" /\ Begun(j).stage # "stored"
                 /\ Begun(j).attempt >= job[j].attempt
           /\ \/ Retried(job[j]) = job[j] /\ Terminal(job[j])
              \/ /\ ~Settled(j) /\ Retried(job[j]).stage # "stored"
                 /\ Retried(job[j]).status = "running"
                 /\ Retried(job[j]).attempt >= job[j].attempt
           /\ \/ Failed(job[j]) = job[j] /\ Terminal(job[j])
              \/ /\ ~Settled(j) /\ Failed(job[j]).stage = "failed"
                 /\ Failed(job[j]).status = "failed"
                 /\ Failed(job[j]).attempt >= job[j].attempt
  <1>1. job[j] = [status |-> job[j].status, stage |-> job[j].stage, attempt |-> job[j].attempt]
        /\ job[j].status \in {"queued", "running", "succeeded", "failed"}
        /\ job[j].attempt \in Nat
    BY DEF TypeOK, Row, Status
  <1>2. \A stage : ~Terminal(job[j]) =>
          /\ Enter(job[j], stage).status = "running" /\ Enter(job[j], stage).stage = stage
          /\ Enter(job[j], stage).attempt >= job[j].attempt
          /\ Enter(job[j], stage) = [status |-> "running", stage |-> stage,
                                     attempt |-> Enter(job[j], stage).attempt]
    BY <1>1 DEF Enter, Start, AdvanceStage, Terminal
  <1>3. \/ Begun(j) = job[j] /\ Terminal(job[j]) /\ ~Unverified(j)
        \/ /\ ~Settled(j) /\ Begun(j).status = "running" /\ Begun(j).stage # "stored"
           /\ Begun(j).attempt >= job[j].attempt
    <2>1. CASE Unverified(j)
      BY <1>1, <2>1 DEF Begun, Unverified, Start, Settled
    <2>2. CASE ~Unverified(j)
      BY <1>2, <2>2 DEF Begun, Settled
    <2>. QED
      BY <2>1, <2>2
  <1>4. \/ Retried(job[j]) = job[j] /\ Terminal(job[j])
        \/ /\ ~Settled(j) /\ Retried(job[j]).stage # "stored"
           /\ Retried(job[j]).status = "running"
           /\ Retried(job[j]).attempt >= job[j].attempt
    BY <1>2 DEF Retried, Settled
  <1>5. \/ Failed(job[j]) = job[j] /\ Terminal(job[j])
        \/ /\ ~Settled(j) /\ Failed(job[j]).stage = "failed"
           /\ Failed(job[j]).status = "failed"
           /\ Failed(job[j]).attempt >= job[j].attempt
    <2>1. CASE Terminal(job[j])
      BY <2>1 DEF Failed
    <2>2. CASE ~Terminal(job[j])
      <3>. DEFINE e == Enter(job[j], "verifying_object")
      <3>1. Failed(job[j]) = FailRow(e)
        BY <2>2 DEF Failed
      <3>2. /\ FailRow(e).status = "failed" /\ FailRow(e).stage = "failed"
            /\ FailRow(e).attempt = e.attempt
        BY <1>2, <2>2 DEF FailRow
      <3>. QED
        BY <1>2, <2>2, <3>1, <3>2 DEF Settled
    <2>. QED
      BY <2>1, <2>2
  <1>. QED
    BY <1>3, <1>4, <1>5

\* A worker's message, and what its invariant says of it.
LEMMA WorkerRow ==
    ASSUME TypeOK, JobInv, NEW w \in Workers, NEW m \in task[w]
    PROVE  /\ m.job \in Jobs /\ Known(pc[w], m.job) /\ \A n \in task[w] : n = m
           /\ job[m.job] \in Row
  BY MessageType DEF JobInv, WorkersKnow, TypeOK

\* A transaction of a worker that writes one row moves the rows.
LEMMA WriteMoves ==
    ASSUME TypeOK, NEW j \in Jobs,
           \/ SetRow(j, Begun(j)) \/ SetRow(j, Retried(job[j]))
           \/ SetRow(j, Failed(job[j])) /\ (Settled(j) \/ j \in corrupt \cup exhausted)
           \/ UNCHANGED job,
           UNCHANGED <<ready, corrupt>>, exhausted \subseteq exhausted'
    PROVE  Moves /\ NobodyQueues
  <1>1. \A k \in Jobs : k # j => job'[k] = job[k]
    BY DEF SetRow, TypeOK
  <1>2. \/ job'[j] = Begun(j) \/ job'[j] = Retried(job[j]) \/ job'[j] = job[j]
        \/ job'[j] = Failed(job[j]) /\ (Settled(j) \/ j \in corrupt \cup exhausted)
    BY DEF SetRow, TypeOK
  <1>3. RowMoves(j)
    BY <1>2, RowsWritten DEF RowMoves
  <1>4. NobodyQueues
    BY <1>1, <1>2, RowsWritten DEF NobodyQueues
  <1>. QED
    BY <1>1, <1>3, <1>4 DEF Moves, RowMoves

LEMMA ReadyMoves ==
    ASSUME TypeOK, NEW j \in Jobs, MakeReady(j), job[j].status = "running", j \notin corrupt,
           UNCHANGED <<corrupt, exhausted>>
    PROVE  Moves /\ NobodyQueues
  <1>1. /\ job'[j] = [job[j] EXCEPT !.status = "succeeded", !.stage = "ready"]
        /\ \A k \in Jobs : k # j => job'[k] = job[k]
        /\ ready' = ready \cup {j}
    BY DEF MakeReady, SetRow, Succeed, TypeOK
  <1>2. job[j] \in Row
    BY DEF TypeOK
  <1>3. /\ job'[j].status = "succeeded" /\ job'[j].stage = "ready"
        /\ job'[j].attempt = job[j].attempt /\ job[j].attempt \in Nat
    BY <1>1, <1>2 DEF Row
  <1>4. ~Settled(j)
    BY DEF Settled, Terminal
  <1>5. RowMoves(j)
    BY <1>1, <1>3, <1>4 DEF RowMoves
  <1>6. \A k \in Jobs : k # j => RowMoves(k)
    BY <1>1 DEF RowMoves
  <1>. QED
    BY <1>1, <1>3, <1>5, <1>6 DEF Moves, NobodyQueues

LEMMA ClaimMoves ==
    ASSUME TypeOK, NEW d \in Dispatchers, NEW chosen \in SUBSET Jobs, ClaimRecoverable(d, chosen)
    PROVE  /\ Moves
           /\ \A j \in Jobs : IF j \in chosen
                              THEN job'[j].status = "running" /\ job'[j].attempt = job[j].attempt + 1
                              ELSE job'[j] = job[j]
  <1>1. \A j \in Jobs : job'[j] = IF j \in chosen THEN ClaimRow(job[j]) ELSE job[j]
    BY DEF ClaimRecoverable
  <1>2. \A j \in chosen : ~Settled(j)
    BY DEF ClaimRecoverable, Recoverable, Settled, Terminal, Unverified
  <1>3. \A j \in chosen : /\ ClaimRow(job[j]).status = "running"
                          /\ ClaimRow(job[j]).stage # "stored"
                          /\ ClaimRow(job[j]).attempt = job[j].attempt + 1
                          /\ job[j].attempt \in Nat
    BY DEF ClaimRow, Start, TypeOK, Row
  <1>. QED
    BY <1>1, <1>2, <1>3 DEF Moves, RowMoves, ClaimRecoverable

LEMMA MarkMoves ==
    ASSUME TypeOK, NEW d \in Dispatchers, MarkSendFailed(d)
    PROVE  /\ Moves
           /\ \E c \in refused[d] :
                IF StillClaimed(c)
                THEN /\ job'[c.job].attempt = job[c.job].attempt
                     /\ \A k \in Jobs : k # c.job => job'[k] = job[k]
                ELSE UNCHANGED job
  <1>1. PICK c \in refused[d] :
          IF StillClaimed(c) THEN SetRow(c.job, Requeued(job[c.job])) ELSE UNCHANGED job
    BY DEF MarkSendFailed
  <1>2. c.job \in Jobs /\ job[c.job] \in Row
    BY ClaimTypes DEF Held, TypeOK
  <1>3. StillClaimed(c) =>
          /\ job'[c.job].status = "queued" /\ job'[c.job].stage # "stored"
          /\ job'[c.job].attempt = job[c.job].attempt /\ job[c.job].attempt \in Nat
          /\ \A k \in Jobs : k # c.job => job'[k] = job[k]
          /\ ~Settled(c.job)
    <2>. SUFFICES ASSUME StillClaimed(c)
                  PROVE  /\ job'[c.job].status = "queued" /\ job'[c.job].stage # "stored"
                         /\ job'[c.job].attempt = job[c.job].attempt /\ job[c.job].attempt \in Nat
                         /\ \A k \in Jobs : k # c.job => job'[k] = job[k]
                         /\ ~Settled(c.job)
      OBVIOUS
    <2>1. job'[c.job] = Requeued(job[c.job]) /\ \A k \in Jobs : k # c.job => job'[k] = job[k]
      BY <1>1, <1>2 DEF SetRow, TypeOK
    <2>2. /\ Requeued(job[c.job]).status = "queued"
          /\ Requeued(job[c.job]).stage = "verification_dispatch_retry"
          /\ Requeued(job[c.job]).attempt = job[c.job].attempt /\ job[c.job].attempt \in Nat
      BY <1>2 DEF Requeued, Row
    <2>3. ~Settled(c.job)
      BY DEF StillClaimed, Settled, Terminal
    <2>. QED
      BY <2>1, <2>2, <2>3
  <1>4. \A k \in Jobs : RowMoves(k)
    BY <1>1, <1>3 DEF RowMoves, MarkSendFailed
  <1>5. Moves
    BY <1>4 DEF Moves, MarkSendFailed
  <1>. QED
    BY <1>1, <1>3, <1>5

LEMMA WorkerMoves ==
    ASSUME TypeOK, JobInv, NEW w \in Workers, WorkerStep(w)
    PROVE  Moves /\ NobodyQueues
  <1>1. CASE Begin(w)
    <2>1. PICK m \in task[w] : SetRow(m.job, Begun(m.job)) \/ UNCHANGED job
      BY <1>1 DEF Begin
    <2>. QED
      BY <1>1, <2>1, WorkerRow, WriteMoves DEF Begin
  <1>2. CASE RetryUnreadable(w) \/ RecordError(w)
    <2>1. PICK m \in task[w] : SetRow(m.job, Retried(job[m.job])) \/ UNCHANGED job
      BY <1>2 DEF RetryUnreadable, RecordError
    <2>. QED
      BY <1>2, <2>1, WorkerRow, WriteMoves DEF RetryUnreadable, RecordError
  <1>3. CASE FailMismatch(w) \/ GiveUp(w)
    <2>1. PICK m \in task[w] : SetRow(m.job, Failed(job[m.job])) \/ UNCHANGED job
      BY <1>3 DEF FailMismatch, GiveUp
    <2>2. m.job \in Jobs /\ (Settled(m.job) \/ m.job \in corrupt \cup exhausted)
      BY <1>3, WorkerRow DEF FailMismatch, GiveUp, Known
    <2>. QED
      BY <1>3, <2>1, <2>2, WriteMoves DEF FailMismatch, GiveUp
  <1>4. CASE SucceedJob(w)
    <2>1. PICK m \in task[w] : \/ MakeReady(m.job) /\ job[m.job].status = "running"
                               \/ UNCHANGED <<job, ready>>
      BY <1>4 DEF SucceedJob
    <2>2. m.job \in Jobs /\ m.job \notin corrupt
      BY <1>4, WorkerRow DEF SucceedJob, Known
    <2>. QED
      BY <1>4, <2>1, <2>2, ReadyMoves DEF SucceedJob, Moves, RowMoves, NobodyQueues
  <1>5. CASE Verify(w) \/ ReadVerified(w) \/ HandOff(w) \/ Decide(w)
    BY <1>5 DEF Verify, ReadVerified, HandOff, Decide, jobVars, Moves, RowMoves, NobodyQueues
  <1>. QED
    BY <1>1, <1>2, <1>3, <1>4, <1>5 DEF WorkerStep

LEMMA StepMoves == TypeOK /\ JobInv /\ [Next]_vars => Moves
  <1>. SUFFICES ASSUME TypeOK, JobInv, [Next]_vars PROVE Moves
    OBVIOUS
  <1>1. ASSUME UNCHANGED <<job, ready, corrupt, exhausted>> PROVE Moves
    BY <1>1 DEF Moves, RowMoves
  <1>2. ASSUME NEW d \in Dispatchers, DispatcherStep(d) PROVE Moves
    BY <1>1, <1>2, MarkMoves DEF DispatcherStep, Send, SendRaises, DispatcherStops, jobVars
  <1>3. ASSUME NEW w \in Workers, WorkerStep(w) \/ WorkerCrash(w) PROVE Moves
    BY <1>1, <1>3, WorkerMoves DEF WorkerCrash, jobVars
  <1>4. ASSUME NEW j \in Jobs, GoStale(j) \/ ReconcileHandoff(j) \/ ReceiveJob(j) PROVE Moves
    BY <1>1, <1>4 DEF GoStale, ReconcileHandoff, ReceiveJob, Receive, jobVars
  <1>5. ASSUME NEW j \in Jobs, ClaimJob(j) PROVE Moves
    BY <1>5, ClaimMoves DEF ClaimJob
  <1>6. CASE UNCHANGED vars
    BY <1>1, <1>6 DEF vars
  <1>. QED
    BY <1>2, <1>3, <1>4, <1>5, <1>6 DEF Next

----------------------------------------------------------------------------
(* Jobs, versions and what the workers know.                                 *)

LEMMA RowInvariants ==
    ASSUME TypeOK, JobInv, Moves
    PROVE  FailedRows' /\ ReadyIffSucceeded' /\ ReadyWasVerified' /\ FailedForCause'
  <1>1. \A j \in Jobs : RowMoves(j) /\ corrupt' = corrupt /\ exhausted \subseteq exhausted'
    BY DEF Moves
  <1>2. FailedRows'
    BY <1>1 DEF RowMoves, JobInv, FailedRows
  <1>3. ReadyIffSucceeded'
    <2>1. \A j \in ready : Settled(j)
      BY DEF TypeOK, JobInv, ReadyIffSucceeded, Settled, Terminal
    <2>. QED
      BY <1>1, <2>1 DEF RowMoves, JobInv, ReadyIffSucceeded
  <1>4. ReadyWasVerified'
    <2>. SUFFICES ASSUME NEW j, j \in ready', j \in corrupt' PROVE FALSE
      BY DEF ReadyWasVerified
    <2>1. j \in corrupt /\ j \in Jobs
      BY DEF Moves, TypeOK
    <2>. QED
      BY <1>1, <2>1 DEF RowMoves, JobInv, ReadyWasVerified
  <1>5. FailedForCause'
    BY <1>1 DEF RowMoves, JobInv, FailedForCause
  <1>. QED
    BY <1>2, <1>3, <1>4, <1>5

\* No step of anyone takes back what a worker knows of its job.
LEMMA KnowledgeStays ==
    ASSUME TypeOK, JobInv, Moves, NEW j \in Jobs, NEW step \in Step, Known(step, j)
    PROVE  Known(step, j)'
  <1>1. RowMoves(j) /\ corrupt' = corrupt /\ exhausted \subseteq exhausted'
    BY DEF Moves
  <1>2. job[j].stage # "stored" => job'[j].stage # "stored"
    BY <1>1 DEF RowMoves
  <1>3. Settled(j) => Settled(j)'
    BY <1>1 DEF RowMoves, Settled, Terminal
  <1>. QED
    BY <1>1, <1>2, <1>3 DEF Known

\* Workers that keep their place keep what they know; one that lets its message go
\* has nothing to know.
LEMMA WorkersStay ==
    ASSUME TypeOK, JobInv, Moves,
           \A w \in Workers : task'[w] = {} \/ (task'[w] = task[w] /\ pc'[w] = pc[w])
    PROVE  WorkersKnow'
  <1>. SUFFICES ASSUME NEW w \in Workers, NEW m \in task'[w]
                PROVE  Known(pc[w], m.job)' /\ \A n \in task'[w] : n = m
    BY DEF WorkersKnow
  <1>1. task'[w] = task[w] /\ pc'[w] = pc[w]
    OBVIOUS
  <1>2. m.job \in Jobs /\ Known(pc[w], m.job) /\ \A n \in task[w] : n = m
    BY <1>1, WorkerRow
  <1>3. pc[w] \in Step
    BY DEF TypeOK
  <1>4. Known(pc[w], m.job)'
    <2>. DEFINE step == pc[w]
    <2>1. step \in Step /\ Known(step, m.job) /\ step = pc'[w]
      BY <1>1, <1>2, <1>3
    <2>. QED
      BY <1>2, <2>1, KnowledgeStays DEF Known, Moves, RowMoves, Settled
  <1>. QED
    BY <1>1, <1>2, <1>4

LEMMA WorkerAcknowledges ==
    ASSUME TypeOK, JobInv, Moves, NEW w \in Workers, Acknowledge(w)
    PROVE  WorkersKnow'
  <1>1. \A v \in Workers : task'[v] = {} \/ (task'[v] = task[v] /\ pc'[v] = pc[v])
    BY DEF Acknowledge, Goto, TypeOK
  <1>. QED
    BY <1>1, WorkersStay

\* A worker goes on to a step whose knowledge it has gained.
LEMMA WorkerGoes ==
    ASSUME TypeOK, JobInv, Moves, NEW w \in Workers, NEW m \in task[w], NEW step \in Step,
           Goto(w, step), UNCHANGED task, Known(step, m.job)'
    PROVE  WorkersKnow'
  <1>. SUFFICES ASSUME NEW v \in Workers, NEW n \in task'[v]
                PROVE  Known(pc[v], n.job)' /\ \A o \in task'[v] : o = n
    BY DEF WorkersKnow
  <1>1. task'[v] = task[v] /\ pc'[v] = IF v = w THEN step ELSE pc[v]
    BY DEF Goto, TypeOK
  <1>2. \A o \in task[v] : o = n
    BY <1>1, WorkerRow
  <1>3. CASE v = w
    BY <1>1, <1>2, <1>3
  <1>4. CASE v # w
    <2>. DEFINE old == pc[v]
    <2>1. n.job \in Jobs /\ Known(old, n.job) /\ old \in Step /\ pc'[v] = old
      BY <1>1, <1>4, WorkerRow DEF TypeOK
    <2>2. Known(pc[v], n.job)'
      BY <2>1, KnowledgeStays DEF Known, Moves, RowMoves, Settled
    <2>. QED
      BY <1>1, <1>2, <2>2
  <1>. QED
    BY <1>3, <1>4

LEMMA WorkerStepKnows ==
    ASSUME TypeOK, JobInv, Moves, NEW w \in Workers, WorkerStep(w)
    PROVE  WorkersKnow'
  <1>. USE DEF Step
  <1>1. ASSUME NEW m \in task[w], NEW step \in {"error", "decide"}, Goto(w, step), UNCHANGED task
        PROVE  WorkersKnow'
    BY <1>1, WorkerGoes DEF Known
  <1>2. CASE Begin(w)
    <2>1. PICK m \in task[w] :
            \/ /\ SetRow(m.job, Begun(m.job))
               /\ IF job[m.job].status \in {"queued", "running"} \/ Unverified(m.job)
                  THEN Goto(w, "verify") /\ UNCHANGED task
                  ELSE IF job[m.job].status = "succeeded" /\ m.job \in ready
                  THEN Goto(w, "verified") /\ UNCHANGED task
                  ELSE Acknowledge(w)
            \/ Goto(w, "error") /\ UNCHANGED task
      BY <1>2 DEF Begin, DatabaseError, AlreadyVerified
    <2>2. m.job \in Jobs /\ job[m.job] \in Row
      BY WorkerRow
    <2>3. CASE Acknowledge(w)
      BY <2>3, WorkerAcknowledges
    <2>4. CASE Goto(w, "error") /\ UNCHANGED task
      BY <1>1, <2>4
    <2>5. CASE /\ SetRow(m.job, Begun(m.job)) /\ Goto(w, "verify") /\ UNCHANGED task
               /\ job[m.job].status \in {"queued", "running"} \/ Unverified(m.job)
      <3>1. job'[m.job] = Begun(m.job)
        BY <2>2, <2>5 DEF SetRow, TypeOK
      <3>2. Begun(m.job).stage # "stored"
        BY <2>2, <2>5, RowsWritten DEF Terminal
      <3>3. Known("verify", m.job)'
        BY <3>1, <3>2 DEF Known
      <3>. QED
        BY <2>5, <3>3, WorkerGoes
    <2>6. CASE /\ Goto(w, "verified") /\ UNCHANGED task
               /\ job[m.job].status = "succeeded" /\ m.job \in ready
      <3>1. job[m.job].stage = "ready"
        BY <2>2, <2>6 DEF JobInv, ReadyIffSucceeded
      <3>2. job'[m.job].stage # "stored"
        BY <2>2, <3>1 DEF Moves, RowMoves
      <3>3. Known("verified", m.job)'
        BY <3>2 DEF Known
      <3>. QED
        BY <2>6, <3>3, WorkerGoes
    <2>. QED
      BY <2>1, <2>3, <2>4, <2>5, <2>6
  <1>3. CASE Verify(w)
    <2>1. PICK m \in task[w] : \/ Goto(w, "retry")
                               \/ m.job \in corrupt /\ Goto(w, "fail")
                               \/ m.job \notin corrupt /\ Goto(w, "succeed")
      BY <1>3 DEF Verify, Matches
    <2>2. job[m.job].stage # "stored" /\ UNCHANGED <<job, corrupt, task>>
      BY <1>3, WorkerRow DEF Verify, Known, jobVars
    <2>3. /\ Known("retry", m.job)'
          /\ m.job \in corrupt => Known("fail", m.job)'
          /\ m.job \notin corrupt => Known("succeed", m.job)'
      BY <2>2 DEF Known
    <2>. QED
      BY <2>1, <2>2, <2>3, WorkerGoes
  <1>4. CASE RetryUnreadable(w) \/ RecordError(w)
    BY <1>1, <1>4 DEF RetryUnreadable, RecordError, DatabaseError
  <1>5. CASE FailMismatch(w)
    BY <1>1, <1>5, WorkerAcknowledges DEF FailMismatch, DatabaseError
  <1>6. CASE SucceedJob(w)
    <2>1. PICK m \in task[w] :
            \/ Terminal(job[m.job]) /\ Goto(w, "handoff") /\ UNCHANGED <<job, task>>
            \/ Acknowledge(w)
            \/ MakeReady(m.job) /\ Goto(w, "handoff") /\ UNCHANGED task
            \/ Goto(w, "error") /\ UNCHANGED task
      BY <1>6 DEF SucceedJob, DatabaseError
    <2>2. m.job \in Jobs /\ job[m.job] \in Row /\ job[m.job].stage # "stored"
      BY <1>6, WorkerRow DEF SucceedJob, Known
    <2>3. CASE Terminal(job[m.job]) /\ Goto(w, "handoff") /\ UNCHANGED <<job, task>>
      <3>1. Known("handoff", m.job)'
        BY <2>2, <2>3 DEF Known, Settled, Terminal
      <3>. QED
        BY <2>3, <3>1, WorkerGoes
    <2>4. CASE MakeReady(m.job) /\ Goto(w, "handoff") /\ UNCHANGED task
      <3>1. job'[m.job] = Succeed(job[m.job], "ready")
        BY <2>2, <2>4 DEF MakeReady, SetRow, TypeOK
      <3>2. job'[m.job].status = "succeeded" /\ job'[m.job].stage = "ready"
        BY <2>2, <3>1 DEF Succeed, Row
      <3>3. Known("handoff", m.job)'
        BY <3>2 DEF Known, Settled, Terminal
      <3>. QED
        BY <2>4, <3>3, WorkerGoes
    <2>. QED
      BY <1>1, <2>1, <2>3, <2>4, WorkerAcknowledges
  <1>7. CASE ReadVerified(w)
    <2>1. PICK m \in task[w] :
            \/ job[m.job].status = "succeeded" /\ Goto(w, "handoff") /\ UNCHANGED task
            \/ Acknowledge(w)
            \/ Goto(w, "error") /\ UNCHANGED task
      BY <1>7 DEF ReadVerified, DatabaseError
    <2>2. job[m.job].stage # "stored" /\ UNCHANGED job
      BY <1>7, WorkerRow DEF ReadVerified, Known, jobVars
    <2>3. job[m.job].status = "succeeded" => Known("handoff", m.job)'
      BY <2>2 DEF Known, Settled, Terminal
    <2>. QED
      BY <1>1, <2>1, <2>3, WorkerAcknowledges, WorkerGoes
  <1>8. CASE HandOff(w)
    <2>1. PICK m \in task[w] : \/ Acknowledge(w)
                               \/ Goto(w, "give up") /\ UNCHANGED task
                               \/ Goto(w, "error") /\ UNCHANGED task
      BY <1>8 DEF HandOff, DatabaseError
    <2>2. Settled(m.job) /\ UNCHANGED job
      BY <1>8, WorkerRow DEF HandOff, Known, jobVars
    <2>3. Known("give up", m.job)'
      BY <2>2 DEF Known, Settled, Terminal
    <2>. QED
      BY <1>1, <2>1, <2>3, WorkerAcknowledges, WorkerGoes
  <1>9. CASE Decide(w)
    <2>1. PICK m \in task[w] : \/ Acknowledge(w)
                               \/ /\ Goto(w, "give up") /\ UNCHANGED task
                                  /\ exhausted' = exhausted \cup {m.job}
      BY <1>9 DEF Decide
    <2>2. exhausted' = exhausted \cup {m.job} => Known("give up", m.job)'
      BY DEF Known
    <2>. QED
      BY <2>1, <2>2, WorkerAcknowledges, WorkerGoes
  <1>10. CASE GiveUp(w)
    BY <1>10, WorkerAcknowledges DEF GiveUp
  <1>. QED
    BY <1>2, <1>3, <1>4, <1>5, <1>6, <1>7, <1>8, <1>9, <1>10 DEF WorkerStep

LEMMA JobStep == TypeOK /\ JobInv /\ [Next]_vars => JobInv'
  <1>. SUFFICES ASSUME TypeOK, JobInv, [Next]_vars PROVE JobInv'
    OBVIOUS
  <1>1. Moves
    BY StepMoves
  <1>2. ASSUME UNCHANGED <<pc, task>> PROVE WorkersKnow'
    BY <1>1, <1>2, WorkersStay
  <1>3. ASSUME NEW w \in Workers, NEW j \in Jobs, NEW r \in Retries, Receive(w, j, r)
        PROVE  WorkersKnow'
    <2>. SUFFICES ASSUME NEW v \in Workers, NEW n \in task'[v]
                  PROVE  Known(pc[v], n.job)' /\ \A o \in task'[v] : o = n
      BY DEF WorkersKnow
    <2>1. CASE v = w
      <3>1. pc'[v] = "begin" /\ task'[v] = {[job |-> j, retries |-> r]}
        BY <1>3, <2>1 DEF Receive, Goto, TypeOK
      <3>. QED
        BY <3>1 DEF Known
    <2>2. CASE v # w
      <3>. DEFINE old == pc[v]
      <3>1. task'[v] = task[v] /\ pc'[v] = old
        BY <1>3, <2>2 DEF Receive, Goto, TypeOK
      <3>2. n.job \in Jobs /\ Known(old, n.job) /\ old \in Step /\ \A o \in task[v] : o = n
        BY <3>1, WorkerRow DEF TypeOK
      <3>3. Known(pc[v], n.job)'
        BY <1>1, <3>1, <3>2, KnowledgeStays DEF Known, Moves, RowMoves, Settled
      <3>. QED
        BY <3>1, <3>2, <3>3
    <2>. QED
      BY <2>1, <2>2
  <1>4. ASSUME NEW w \in Workers, WorkerStep(w) \/ WorkerCrash(w) PROVE WorkersKnow'
    BY <1>1, <1>4, WorkerStepKnows, WorkerAcknowledges DEF WorkerCrash
  <1>5. ASSUME NEW d \in Dispatchers, DispatcherStep(d) PROVE WorkersKnow'
    BY <1>2, <1>5 DEF DispatcherStep, Send, SendRaises, MarkSendFailed, DispatcherStops
  <1>6. ASSUME NEW j \in Jobs, GoStale(j) \/ ReconcileHandoff(j) \/ ClaimJob(j) PROVE WorkersKnow'
    BY <1>2, <1>6 DEF GoStale, ReconcileHandoff, ClaimJob, ClaimRecoverable
  <1>7. ASSUME NEW j \in Jobs, ReceiveJob(j) PROVE WorkersKnow'
    BY <1>3, <1>7 DEF ReceiveJob
  <1>8. ASSUME UNCHANGED vars PROVE WorkersKnow'
    <2>1. UNCHANGED <<pc, task>>
      BY <1>8 DEF vars
    <2>. QED
      BY <1>2, <2>1
  <1>9. WorkersKnow'
    BY <1>4, <1>5, <1>6, <1>7, <1>8 DEF Next
  <1>. QED
    BY <1>1, <1>9, RowInvariants DEF JobInv

----------------------------------------------------------------------------
(* The active version.                                                       *)

LEMMA ActiveStep ==
    ASSUME TypeOK, ActiveIsNewestReady, [Next]_vars
    PROVE  ActiveIsNewestReady'
  <1>1. ASSUME UNCHANGED <<ready, active>> PROVE ActiveIsNewestReady'
    BY <1>1 DEF ActiveIsNewestReady
  <1>2. ASSUME NEW w \in Workers, SucceedJob(w) PROVE ActiveIsNewestReady'
    <2>1. PICK m \in task[w] : MakeReady(m.job) \/ UNCHANGED <<ready, active>>
      BY <1>2 DEF SucceedJob
    <2>2. m.job \in Nat /\ active \in Nat /\ \A x \in ready : x \in Nat
      <3>1. m.job \in Jobs /\ active \in Jobs \cup {0} /\ ready \subseteq Jobs
        BY MessageType DEF TypeOK
      <3>2. \A x \in Jobs : x \in Nat
        BY VerificationAssumption
      <3>3. active \in Nat
        BY <3>1, <3>2
      <3>4. \A x \in ready : x \in Nat
        BY <3>1, <3>2
      <3>. QED
        BY <3>1, <3>2, <3>3, <3>4
    <2>3. CASE MakeReady(m.job)
      <3>1. ready' = ready \cup {m.job} /\ active' = IF m.job > active THEN m.job ELSE active
        BY <2>3 DEF MakeReady, Promoted
      <3>. QED
        BY <2>2, <3>1 DEF ActiveIsNewestReady
    <2>. QED
      BY <1>1, <2>1, <2>3
  <1>3. ASSUME NEW w \in Workers, WorkerStep(w) \/ WorkerCrash(w) PROVE ActiveIsNewestReady'
    BY <1>1, <1>2, <1>3 DEF WorkerStep, Begin, Verify, RetryUnreadable, FailMismatch, ReadVerified,
        HandOff, RecordError, Decide, GiveUp, WorkerCrash, jobVars
  <1>4. ASSUME NEW d \in Dispatchers, DispatcherStep(d) PROVE ActiveIsNewestReady'
    BY <1>1, <1>4 DEF DispatcherStep, Send, SendRaises, MarkSendFailed, DispatcherStops, jobVars
  <1>5. ASSUME NEW j \in Jobs, ClaimJob(j) \/ ReceiveJob(j) \/ GoStale(j) \/ ReconcileHandoff(j)
        PROVE  ActiveIsNewestReady'
    BY <1>1, <1>5
    DEF ClaimJob, ClaimRecoverable, ReceiveJob, Receive, GoStale, ReconcileHandoff, jobVars
  <1>6. ASSUME UNCHANGED vars PROVE ActiveIsNewestReady'
    <2>1. UNCHANGED <<ready, active>>
      BY <1>6 DEF vars
    <2>. QED
      BY <1>1, <2>1
  <1>. QED
    BY <1>3, <1>4, <1>5, <1>6 DEF Next

----------------------------------------------------------------------------
(* Claims.                                                                   *)

\* Rows whose attempt does not fall, and which nobody queues, keep the claims in order;
\* so does a run that gives claims away.
LEMMA ClaimsStay ==
    ASSUME TypeOK, ClaimInv,
           \A d \in Dispatchers : claims'[d] \subseteq claims[d] /\ refused'[d] \subseteq refused[d],
           \A j \in Jobs : \/ job'[j] = job[j]
                           \/ job'[j].attempt >= job[j].attempt /\ job'[j].status # "queued",
           \A j \in Jobs : job'[j].attempt \in Nat
    PROVE  ClaimInv'
  <1>1. \A d \in Dispatchers : Held(d)' \subseteq Held(d)
    BY DEF Held
  <1>2. \A d \in Dispatchers : \A c \in Held(d) :
          /\ c.job \in Jobs /\ c.attempt \in Nat /\ job[c.job].attempt \in Nat
          /\ c.attempt <= job[c.job].attempt
    BY ClaimTypes DEF ClaimInv, ClaimsHeldOnce, TypeOK, Row
  <1>3. ClaimsHeldOnce'
    <2>1. \A d \in Dispatchers : \A c \in Held(d)' : c.attempt <= job'[c.job].attempt
      BY <1>1, <1>2
    <2>. QED
      BY <1>1, <2>1 DEF ClaimInv, ClaimsHeldOnce
  <1>4. CurrentClaimNotQueued'
    <2>. SUFFICES ASSUME NEW d \in Dispatchers, NEW c \in claims'[d],
                         c.attempt = job'[c.job].attempt, job'[c.job].status = "queued"
                  PROVE  FALSE
      BY DEF CurrentClaimNotQueued
    <2>1. c \in claims[d] /\ c.job \in Jobs
      BY <1>2 DEF Held
    <2>2. job'[c.job] = job[c.job]
      BY <2>1
    <2>. QED
      BY <2>1, <2>2 DEF ClaimInv, CurrentClaimNotQueued
  <1>. QED
    BY <1>3, <1>4 DEF ClaimInv

\* A send that raises moves its claim; the row is as it was.
LEMMA SendRaisesClaims ==
    ASSUME TypeOK, ClaimInv, NEW d \in Dispatchers, SendRaises(d)
    PROVE  ClaimInv'
  <1>1. PICK c \in claims[d] : /\ claims' = [claims EXCEPT ![d] = @ \ {c}]
                               /\ refused' = [refused EXCEPT ![d] = {c}]
    BY DEF SendRaises
  <1>2. refused[d] = {} /\ job' = job
    BY DEF SendRaises, jobVars
  <1>3. /\ claims'[d] = claims[d] \ {c} /\ refused'[d] = {c}
        /\ \A e \in Dispatchers : e # d => claims'[e] = claims[e] /\ refused'[e] = refused[e]
    BY <1>1 DEF TypeOK
  <1>4. \A e \in Dispatchers : Held(e)' = Held(e)
    BY <1>2, <1>3 DEF Held
  <1>5. ClaimsHeldOnce'
    BY <1>2, <1>3, <1>4 DEF ClaimInv, ClaimsHeldOnce
  <1>6. CurrentClaimNotQueued'
    BY <1>2, <1>3 DEF ClaimInv, CurrentClaimNotQueued
  <1>. QED
    BY <1>5, <1>6 DEF ClaimInv

\* A new claim is ahead of every claim that is held.
LEMMA NewClaims ==
    ASSUME TypeOK, ClaimInv, NEW d \in Dispatchers, NEW chosen \in SUBSET Jobs,
           ClaimRecoverable(d, chosen)
    PROVE  ClaimInv'
  <1>. DEFINE new == {[job |-> j, attempt |-> job[j].attempt + 1] : j \in chosen}
  <1>1. /\ claims'[d] = new /\ claims[d] = {} /\ refused[d] = {} /\ refused' = refused
        /\ \A e \in Dispatchers : e # d => claims'[e] = claims[e]
    BY DEF ClaimRecoverable, TypeOK
  <1>2. Held(d)' = new /\ \A e \in Dispatchers : e # d => Held(e)' = Held(e)
    BY <1>1 DEF Held
  <1>3. \A j \in Jobs : /\ job[j].attempt \in Nat
                        /\ IF j \in chosen
                           THEN job'[j].status = "running" /\ job'[j].attempt = job[j].attempt + 1
                           ELSE job'[j] = job[j]
    BY ClaimMoves DEF TypeOK, Row
  <1>4. \A e \in Dispatchers : \A c \in Held(e) :
          c.job \in Jobs /\ c.attempt \in Nat /\ c.attempt <= job[c.job].attempt
    BY ClaimTypes DEF ClaimInv, ClaimsHeldOnce
  <1>5. \A c \in new : c.job \in chosen /\ c.attempt = job[c.job].attempt + 1
    OBVIOUS
  <1>6. \A e \in Dispatchers : new \cap Held(e) = {}
    BY <1>3, <1>4, <1>5
  <1>7. ClaimsHeldOnce'
    <2>1. \A e \in Dispatchers : \A c \in Held(e)' : c.attempt <= job'[c.job].attempt
      BY <1>2, <1>3, <1>4, <1>5
    <2>2. \A e, f \in Dispatchers : e # f => Held(e)' \cap Held(f)' = {}
      BY <1>2, <1>6 DEF ClaimInv, ClaimsHeldOnce
    <2>3. \A e \in Dispatchers : claims'[e] \cap refused'[e] = {}
      BY <1>1 DEF ClaimInv, ClaimsHeldOnce
    <2>. QED
      BY <2>1, <2>2, <2>3 DEF ClaimsHeldOnce
  <1>8. CurrentClaimNotQueued'
    <2>. SUFFICES ASSUME NEW e \in Dispatchers, NEW c \in claims'[e],
                         c.attempt = job'[c.job].attempt, job'[c.job].status = "queued"
                  PROVE  FALSE
      BY DEF CurrentClaimNotQueued
    <2>1. CASE c.job \in chosen
      BY <1>3, <2>1
    <2>2. CASE c.job \notin chosen
      <3>1. e # d /\ c \in claims[e]
        BY <1>1, <1>5, <2>2
      <3>2. job'[c.job] = job[c.job]
        BY <1>3, <1>4, <2>2, <3>1 DEF Held
      <3>. QED
        BY <3>1, <3>2 DEF ClaimInv, CurrentClaimNotQueued
    <2>. QED
      BY <2>1, <2>2
  <1>. QED
    BY <1>7, <1>8 DEF ClaimInv

\* mark_send_failed queues a job only under a claim that nobody else has.
LEMMA MarkClaims ==
    ASSUME TypeOK, ClaimInv, NEW d \in Dispatchers, MarkSendFailed(d)
    PROVE  ClaimInv'
  <1>1. PICK c \in refused[d] :
          IF StillClaimed(c)
          THEN /\ job'[c.job].attempt = job[c.job].attempt
               /\ \A k \in Jobs : k # c.job => job'[k] = job[k]
          ELSE UNCHANGED job
    BY MarkMoves
  <1>2. /\ claims' = claims /\ refused'[d] = {}
        /\ \A e \in Dispatchers : e # d => refused'[e] = refused[e]
    BY DEF MarkSendFailed, TypeOK
  <1>3. \A e \in Dispatchers : Held(e)' \subseteq Held(e)
    BY <1>2 DEF Held
  <1>4. \A e \in Dispatchers : \A b \in Held(e) : b \in Claim /\ b.job \in Jobs
    BY ClaimTypes
  <1>5. \A j \in Jobs : job'[j].attempt = job[j].attempt
    BY <1>1
  <1>6. ClaimsHeldOnce'
    <2>1. \A e \in Dispatchers : \A b \in Held(e)' : b.attempt <= job'[b.job].attempt
      BY <1>3, <1>4, <1>5 DEF ClaimInv, ClaimsHeldOnce
    <2>2. \A e \in Dispatchers : claims'[e] \cap refused'[e] = {}
      BY <1>2 DEF ClaimInv, ClaimsHeldOnce
    <2>. QED
      BY <1>3, <2>1, <2>2 DEF ClaimInv, ClaimsHeldOnce
  <1>7. CurrentClaimNotQueued'
    <2>. SUFFICES ASSUME NEW e \in Dispatchers, NEW b \in claims[e],
                         b.attempt = job'[b.job].attempt, job'[b.job].status = "queued"
                  PROVE  FALSE
      BY <1>2 DEF CurrentClaimNotQueued
    <2>1. b \in Claim /\ b.job \in Jobs /\ c \in Claim /\ b.attempt = job[b.job].attempt
      BY <1>4, <1>5 DEF Held
    <2>2. CASE StillClaimed(c) /\ b.job = c.job
      <3>1. b = c
        BY <2>1, <2>2 DEF StillClaimed, Claim
      <3>. QED
        BY <3>1 DEF ClaimInv, ClaimsHeldOnce, Held
    <2>3. CASE ~(StillClaimed(c) /\ b.job = c.job)
      BY <1>1, <2>1, <2>3 DEF ClaimInv, CurrentClaimNotQueued
    <2>. QED
      BY <2>2, <2>3
  <1>. QED
    BY <1>6, <1>7 DEF ClaimInv

LEMMA ClaimStep == TypeOK /\ JobInv /\ ClaimInv /\ [Next]_vars => ClaimInv'
  <1>. SUFFICES ASSUME TypeOK, JobInv, ClaimInv, [Next]_vars PROVE ClaimInv'
    OBVIOUS
  <1>1. \A j \in Jobs : job'[j].attempt \in Nat /\ job[j].attempt \in Nat
    BY TypeStep DEF TypeOK, Row
  <1>2. ASSUME UNCHANGED job,
               \A d \in Dispatchers : claims'[d] \subseteq claims[d] /\ refused'[d] \subseteq refused[d]
        PROVE  ClaimInv'
    BY <1>1, <1>2, ClaimsStay
  <1>3. ASSUME NEW w \in Workers, WorkerStep(w) PROVE ClaimInv'
    <2>1. UNCHANGED <<claims, refused>>
      BY <1>3 DEF WorkerStep, Begin, Verify, RetryUnreadable, FailMismatch, SucceedJob, ReadVerified,
          HandOff, RecordError, Decide, GiveUp, dispatchVars
    <2>2. \A j \in Jobs : \/ job'[j] = job[j]
                          \/ job'[j].attempt >= job[j].attempt /\ job'[j].status # "queued"
      BY <1>3, WorkerMoves DEF Moves, RowMoves, NobodyQueues
    <2>. QED
      BY <1>1, <2>1, <2>2, ClaimsStay
  <1>4. ASSUME NEW w \in Workers, WorkerCrash(w) PROVE ClaimInv'
    BY <1>2, <1>4 DEF WorkerCrash, jobVars, dispatchVars
  <1>5. ASSUME NEW d \in Dispatchers, Send(d) \/ DispatcherStops(d) PROVE ClaimInv'
    <2>1. \A e \in Dispatchers : claims'[e] \subseteq claims[e] /\ refused'[e] \subseteq refused[e]
      BY <1>5 DEF Send, DispatcherStops, TypeOK
    <2>. QED
      BY <1>2, <1>5, <2>1 DEF Send, DispatcherStops, jobVars
  <1>6. ASSUME NEW d \in Dispatchers, DispatcherStep(d) PROVE ClaimInv'
    BY <1>5, <1>6, SendRaisesClaims, MarkClaims DEF DispatcherStep
  <1>7. ASSUME NEW j \in Jobs, ReceiveJob(j) \/ GoStale(j) \/ ReconcileHandoff(j) PROVE ClaimInv'
    BY <1>2, <1>7 DEF ReceiveJob, Receive, GoStale, ReconcileHandoff, jobVars, dispatchVars
  <1>8. ASSUME NEW j \in Jobs, ClaimJob(j) PROVE ClaimInv'
    BY <1>8, NewClaims DEF ClaimJob
  <1>9. ASSUME UNCHANGED vars PROVE ClaimInv'
    <2>1. UNCHANGED <<job, claims, refused>>
      BY <1>9 DEF vars
    <2>. QED
      BY <1>2, <2>1
  <1>. QED
    BY <1>3, <1>4, <1>6, <1>7, <1>8, <1>9 DEF Next

----------------------------------------------------------------------------
(* Theorems.                                                                 *)

LEMMA InvInit == Init => Inv
  <1>. SUFFICES ASSUME Init PROVE Inv
    OBVIOUS
  <1>1. \A j \in Jobs : /\ job[j].stage # "ready" /\ job[j].status # "failed"
    BY DEF Init, QueuedRow, LegacyRow
  <1>2. ready = {} /\ active = 0 /\ \A w \in Workers : task[w] = {}
    BY DEF Init
  <1>3. \A d \in Dispatchers : claims[d] = {} /\ refused[d] = {}
    BY DEF Init
  <1>4. JobInv
    BY <1>1, <1>2 DEF JobInv, FailedRows, ReadyIffSucceeded, ReadyWasVerified, FailedForCause,
        WorkersKnow
  <1>5. ActiveIsNewestReady
    BY <1>2 DEF ActiveIsNewestReady
  <1>6. ClaimInv
    BY <1>3 DEF ClaimInv, ClaimsHeldOnce, CurrentClaimNotQueued, Held
  <1>. QED
    BY <1>4, <1>5, <1>6, InitType DEF Inv

LEMMA InvStep == Inv /\ [Next]_vars => Inv'
  BY TypeStep, JobStep, ActiveStep, ClaimStep DEF Inv

\* Every reachable state satisfies the inductive invariant.
THEOREM Invariance == Spec => []Inv
  BY InvInit, InvStep, PTL DEF Spec

\* Rows, claims, messages and workers keep their types.
THEOREM TypeCorrect == Spec => []TypeOK
  <1>1. Inv => TypeOK
    BY DEF Inv
  <1>. QED
    BY <1>1, Invariance, PTL

\* A version is READY exactly when its job has succeeded at stage "ready".
THEOREM ReadyMeansSucceeded == Spec => []ReadyIffSucceeded
  <1>1. Inv => ReadyIffSucceeded
    BY DEF Inv, JobInv
  <1>. QED
    BY <1>1, Invariance, PTL

\* verify_stored_asset guards every promotion: bytes that do not match never become READY.
THEOREM VerifiedOnly == Spec => []ReadyWasVerified
  <1>1. Inv => ReadyWasVerified
    BY DEF Inv, JobInv
  <1>. QED
    BY <1>1, Invariance, PTL

\* The active version is the newest READY one, in whatever order verifications end.
THEOREM NewestIsActive == Spec => []ActiveIsNewestReady
  <1>1. Inv => ActiveIsNewestReady
    BY DEF Inv
  <1>. QED
    BY <1>1, Invariance, PTL

\* mark_send_failed never queues a job under a newer claim of another run.
THEOREM ClaimsAreRespected == Spec => []CurrentClaimNotQueued
  <1>1. Inv => CurrentClaimNotQueued
    BY DEF Inv, ClaimInv
  <1>. QED
    BY <1>1, Invariance, PTL

\* A job fails only for bad bytes or after a delivery used up its retries.
THEOREM FailuresHaveCauses == Spec => []FailedForCause
  <1>1. Inv => FailedForCause
    BY DEF Inv, JobInv
  <1>. QED
    BY <1>1, Invariance, PTL

\* A verified version stays verified and a failed job stays failed.
THEOREM OutcomesStay == Spec => OutcomesAreFinal
  <1>1. Inv /\ [Next]_vars => [OutcomeKept]_vars
    <2>. SUFFICES ASSUME TypeOK, JobInv, [Next]_vars PROVE OutcomeKept
      BY DEF Inv
    <2>1. \A j \in Jobs : RowMoves(j)
      BY StepMoves DEF Moves
    <2>2. \A j \in Jobs : job[j].status = "failed" \/ j \in ready => Settled(j)
      BY DEF JobInv, FailedRows, ReadyIffSucceeded, Settled, Terminal
    <2>. QED
      BY <2>1, <2>2 DEF RowMoves, OutcomeKept
  <1>. QED
    BY <1>1, Invariance, PTL DEF Spec, OutcomesAreFinal
==============================================================================
