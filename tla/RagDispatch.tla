----------------------------- MODULE RagDispatch -----------------------------
(***************************************************************************)
(* The dispatch rows of RAG ingestion jobs: RagDispatchReconciler claims   *)
(* rows, sends the jobs to the broker and marks the outcome under the      *)
(* claim's token, while workers finish jobs and the inactive-source        *)
(* reconciler cancels rows.  Each job belongs to a document of its own.    *)
(*                                                                         *)
(* A claim token is fresh for every claim, as attempt_count is, so the     *)
(* attempt count names the claim.  available_at in the future is           *)
(* membership in "waiting", claimed_at before the two-minute limit is      *)
(* membership in "stale".  What a delivery does is RagIngestion's matter;  *)
(* here it ends the job, leaves it running or changes nothing.             *)
(***************************************************************************)
EXTENDS Integers, FiniteSets

CONSTANTS
    Jobs,         \* ingestion jobs, one per source version
    Dispatchers,  \* concurrent runs of RagDispatchReconciler
    BatchSize,    \* batch_size: rows that one run looks at
    Fenceable,    \* jobs whose document may be fenced
    MaxFaults     \* bound on refused sends, lost runs and slow runs

ASSUME DispatchAssumption ==
    BatchSize \in Nat /\ Fenceable \subseteq Jobs /\ MaxFaults \in Nat

VARIABLES
    job,       \* job[j]: status of the job row, "none" before ensure
    row,       \* row[j]: status and attempt_count of the dispatch row
    waiting,   \* pending rows whose available_at is in the future
    stale,     \* claimed rows whose claimed_at is before the limit
    earlier,   \* pairs of rows, the first with the earlier available_at
    active,    \* jobs whose version is READY and its document's active one
    fenced,    \* jobs of documents with an index write fence
    claims,    \* claims[d]: claims that a run has yet to send
    hand,      \* hand[d]: the claim whose send has returned or raised, with the outcome
    queue,     \* queue[j]: messages in the broker
    accepted,  \* history: claims whose message the broker took
    faults     \* faults met so far

vars == <<job, row, waiting, stale, earlier, active, fenced, claims, hand, queue, accepted, faults>>

JobStatus == {"none", "queued", "running", "succeeded", "failed"}
RowStatus == {"none", "pending", "claimed", "sent", "cancelled"}
Claim == [job : Jobs, attempt : Nat]
Sending == [claim : Claim, taken : BOOLEAN]

TypeOK ==
    /\ job \in [Jobs -> JobStatus]
    /\ row \in [Jobs -> [status : RowStatus, attempt : Nat]]
    /\ waiting \subseteq Jobs
    /\ stale \subseteq Jobs
    /\ earlier \subseteq Jobs \X Jobs
    /\ active \subseteq Jobs
    /\ fenced \subseteq Jobs
    /\ claims \in [Dispatchers -> SUBSET Claim]
    /\ hand \in [Dispatchers -> SUBSET Sending]
    /\ queue \in [Jobs -> Nat]
    /\ accepted \subseteq Claim
    /\ faults \in 0 .. MaxFaults

\* An ingestion job of an older release has no dispatch row yet.
Init ==
    /\ job \in [Jobs -> {"none", "queued"}]
    /\ row = [j \in Jobs |-> [status |-> "none", attempt |-> 0]]
    /\ waiting = {}
    /\ stale = {}
    /\ earlier = {}
    /\ active = Jobs
    /\ fenced = {}
    /\ claims = [d \in Dispatchers |-> {}]
    /\ hand = [d \in Dispatchers |-> {}]
    /\ queue = [j \in Jobs |-> 0]
    /\ accepted = {}
    /\ faults = 0

Spend == faults < MaxFaults /\ faults' = faults + 1

\* lock_ingestion_source admits the source of a job.
Admitted(j) == j \in active /\ j \notin fenced

\* The row of a job becomes the one with the latest available_at.
Latest(j) ==
    {p \in earlier : p[1] # j /\ p[2] # j}
    \cup {<<i, j>> : i \in {k \in Jobs \ {j} : row[k].status # "none"}}

SetStatus(j, status) == row' = [row EXCEPT ![j].status = status]

----------------------------------------------------------------------------
(* Creation, time and completion.                                           *)

\* ensure, from the verification task, the API or the hand-over reconciler: an existing
\* job gets its dispatch row when it has none, and a row is never reset.
Ensure(j) ==
    /\ Admitted(j)
    /\ row[j].status = "none"
    /\ job' = [job EXCEPT ![j] = IF @ = "none" THEN "queued" ELSE @]
    /\ SetStatus(j, "pending")
    /\ earlier' = Latest(j)
    /\ UNCHANGED <<waiting, stale, active, fenced, claims, hand, queue, accepted, faults>>

BackoffElapses(j) ==
    /\ j \in waiting
    /\ waiting' = waiting \ {j}
    /\ earlier' = Latest(j)
    /\ UNCHANGED <<job, row, stale, active, fenced, claims, hand, queue, accepted, faults>>

\* The claims that a run has not settled, and whether the current one of a row is among them.
Held(d) == claims[d] \cup {s.claim : s \in hand[d]}
Holds(d, j) == [job |-> j, attempt |-> row[j].attempt] \in Held(d)

\* Two minutes pass since claimed_at: at no cost once nobody holds the claim.
GoStale(j) ==
    /\ row[j].status = "claimed" /\ j \notin stale
    /\ IF \E d \in Dispatchers : Holds(d, j) THEN Spend ELSE UNCHANGED faults
    /\ stale' = stale \cup {j}
    /\ UNCHANGED <<job, row, waiting, earlier, active, fenced, claims, hand, queue, accepted>>

\* A worker takes a message and ends with it; see RagIngestion.
Work(j) ==
    /\ queue[j] > 0
    /\ queue' = [queue EXCEPT ![j] = @ - 1]
    /\ \/ /\ Admitted(j) /\ job[j] \in {"queued", "running"}
          /\ \E status \in {"running", "succeeded", "failed"} : job' = [job EXCEPT ![j] = status]
       \/ (~Admitted(j) \/ job[j] \in {"succeeded", "failed"}) /\ UNCHANGED job
    /\ UNCHANGED <<row, waiting, stale, earlier, active, fenced, claims, hand, accepted, faults>>

\* A newer version becomes active.
Deactivate(j) ==
    /\ j \in active
    /\ active' = active \ {j}
    /\ UNCHANGED <<job, row, waiting, stale, earlier, fenced, claims, hand, queue, accepted, faults>>

\* block_index_writes
Fence(j) ==
    /\ j \in Fenceable \ fenced
    /\ fenced' = fenced \cup {j}
    /\ UNCHANGED <<job, row, waiting, stale, earlier, active, claims, hand, queue, accepted, faults>>

----------------------------------------------------------------------------
(* RagDispatchReconciler.run_once                                            *)

\* What claim_ready selects.
CandidatesMutant == {j \in active : row[j].status = "pending" /\ j \notin waiting}
Candidates ==
    {j \in active : \/ row[j].status = "pending" /\ j \notin waiting
                    \/ row[j].status = "claimed" /\ j \in stale}

\* The first rows of a selection by available_at, as many as LIMIT allows.
IsBatch(B, S) ==
    /\ B \subseteq S
    /\ Cardinality(B) <= BatchSize
    /\ \A late \in S \ B : Cardinality(B) = BatchSize /\ \A j \in B : <<j, late>> \in earlier

\* claim_ready: rows that others have locked are skipped.  A row of a fenced source is
\* passed over, and a completed job is not claimed: its pending row is cancelled and a
\* claimed one is left in doubt.
ClaimReady(d, skipped) ==
    /\ claims[d] = {} /\ hand[d] = {}
    /\ \E batch \in SUBSET (Candidates \ skipped) :
        LET mine == {j \in batch : Admitted(j) /\ job[j] # "succeeded"}
            done == {j \in batch : Admitted(j) /\ job[j] = "succeeded" /\ row[j].status = "pending"}
        IN /\ IsBatch(batch, Candidates \ skipped)
           /\ row' = [j \in Jobs |->
                IF j \in mine THEN [status |-> "claimed", attempt |-> row[j].attempt + 1]
                ELSE IF j \in done THEN [row[j] EXCEPT !.status = "cancelled"] ELSE row[j]]
           /\ stale' = stale \ mine
           /\ claims' = [claims EXCEPT ![d] =
                {[job |-> j, attempt |-> row[j].attempt + 1] : j \in mine}]
    /\ UNCHANGED <<job, waiting, earlier, active, fenced, hand, queue, accepted, faults>>

TakeUp(d, c, taken) ==
    /\ claims' = [claims EXCEPT ![d] = @ \ {c}]
    /\ hand' = [hand EXCEPT ![d] = {[claim |-> c, taken |-> taken]}]

Enqueue(c) ==
    /\ queue' = [queue EXCEPT ![c.job] = @ + 1]
    /\ accepted' = accepted \cup {c}

\* sender.send returns.
Send(d) ==
    /\ hand[d] = {}
    /\ \E c \in claims[d] : TakeUp(d, c, TRUE) /\ Enqueue(c)
    /\ UNCHANGED <<job, row, waiting, stale, earlier, active, fenced, faults>>

\* sender.send raises; the broker may have taken the message all the same.
SendRaises(d) ==
    /\ hand[d] = {}
    /\ Spend
    /\ \E c \in claims[d] :
        /\ TakeUp(d, c, FALSE)
        /\ Enqueue(c) \/ UNCHANGED <<queue, accepted>>
    /\ UNCHANGED <<job, row, waiting, stale, earlier, active, fenced>>

\* The compare-and-set of mark_sent and mark_failed.
StillMineMutant(c) == row[c.job].status = "claimed"
StillMine(c) == row[c.job].status = "claimed" /\ row[c.job].attempt = c.attempt

\* mark_sent or mark_failed; a lost claim raises and ends the batch.
Mark(d) ==
    /\ \E s \in hand[d] : LET c == s.claim IN
        IF StillMine(c)
        THEN /\ SetStatus(c.job, IF s.taken THEN "sent" ELSE "pending")
             /\ stale' = stale \ {c.job}
             /\ waiting' = IF s.taken THEN waiting ELSE waiting \cup {c.job}
             /\ UNCHANGED claims
        ELSE /\ claims' = [claims EXCEPT ![d] = {}]
             /\ UNCHANGED <<row, stale, waiting>>
    /\ hand' = [hand EXCEPT ![d] = {}]
    /\ UNCHANGED <<job, earlier, active, fenced, queue, accepted, faults>>

\* The run dies, or a database error ends it before the outcome is marked.
DispatcherStops(d) ==
    /\ claims[d] # {} \/ hand[d] # {}
    /\ Spend
    /\ claims' = [claims EXCEPT ![d] = {}]
    /\ hand' = [hand EXCEPT ![d] = {}]
    /\ UNCHANGED <<job, row, waiting, stale, earlier, active, fenced, queue, accepted>>

----------------------------------------------------------------------------
\* _terminalize: job and dispatch row of an inactive source end in one transaction.
CancelledRow(j) == SetStatus(j, "cancelled")

Terminalize(j) ==
    /\ j \notin active /\ j \notin fenced
    /\ job[j] \in {"queued", "running"}
    /\ job' = [job EXCEPT ![j] = "failed"]
    /\ IF row[j].status = "none" THEN UNCHANGED row ELSE CancelledRow(j)
    /\ stale' = stale \ {j}
    /\ waiting' = waiting \ {j}
    /\ UNCHANGED <<earlier, active, fenced, claims, hand, queue, accepted, faults>>

\* cancel_completed withdraws the pending row of a job that has succeeded.
CancelCompleted(j) ==
    /\ Admitted(j) /\ job[j] = "succeeded" /\ row[j].status = "pending"
    /\ CancelledRow(j)
    /\ waiting' = waiting \ {j}
    /\ UNCHANGED <<job, stale, earlier, active, fenced, claims, hand, queue, accepted, faults>>

DispatcherStep(d) == Send(d) \/ SendRaises(d) \/ Mark(d) \/ DispatcherStops(d)

Next ==
    \/ \E j \in Jobs : \/ Ensure(j) \/ BackoffElapses(j) \/ GoStale(j) \/ Work(j)
                       \/ Deactivate(j) \/ Fence(j) \/ Terminalize(j) \/ CancelCompleted(j)
    \/ \E d \in Dispatchers : \/ DispatcherStep(d)
                              \/ \E skipped \in SUBSET Candidates : ClaimReady(d, skipped)

\* The beat schedule starts both reconcilers every five seconds, some runs find no row
\* locked, a run goes on to its end, and time passes.
Fairness ==
    /\ \A j \in Jobs : WF_vars(BackoffElapses(j)) /\ WF_vars(GoStale(j))
    /\ SF_vars(\E d \in Dispatchers : ClaimReady(d, {}))
    /\ \A d \in Dispatchers : WF_vars(DispatcherStep(d))

Spec == Init /\ [][Next]_vars /\ Fairness

----------------------------------------------------------------------------
(* Properties.                                                               *)

\* While a run holds the claim that made a row's current attempt, nobody else moves the
\* row on, except that the inactive-source reconciler may cancel it: the late mark of an
\* older claim never takes the newer claim's row away.
CurrentClaimKept ==
    \A d \in Dispatchers, j \in Jobs : Holds(d, j) => row[j].status \in {"claimed", "cancelled"}

\* A row is marked sent only when the broker took the message of its current claim, so
\* no job counts as delivered on the strength of an older run.
SentWasAccepted ==
    \A j \in Jobs : row[j].status = "sent" =>
        [job |-> j, attempt |-> row[j].attempt] \in accepted

\* A cancelled row stays cancelled and a sent one is not sent again, whatever runs
\* still carry claims on it.
RowEnds ==
    \A j \in Jobs :
        /\ row[j].status = "cancelled" => row'[j] = row[j]
        /\ row[j].status = "sent" => row'[j].status \in {"sent", "cancelled"}
RowsEnd == [][RowEnds]_vars

\* Rows that claim_ready selects and never moves: their place by available_at is kept.
Stuck ==
    {j \in Candidates : j \in fenced \/ (row[j].status = "claimed" /\ job[j] = "succeeded")}

\* The rows of fenced documents and of completed jobs in front of a row fill the batch.
Blocked(j) == Cardinality({i \in Stuck : <<i, j>> \in earlier}) >= BatchSize

\* Nothing is left for the dispatcher to do about a row.
Dispatched(j) ==
    \/ row[j].status \in {"sent", "cancelled"}
    \/ job[j] = "succeeded"
    \/ ~Admitted(j)

\* Refused sends, dead and slow runs, lost claims and a batch with fewer places than
\* there are rows do not keep a row from the broker: every pending or claimed row is
\* sent or cancelled in the end, unless its job has already succeeded, its source is
\* inactive or fenced, or rows that claim_ready never moves fill the batch before it.
HealthyRowsDispatched ==
    \A j \in Jobs : row[j].status \in {"pending", "claimed"} ~> Dispatched(j) \/ Blocked(j)

\* "From there the RAG ingestion outbox is responsible for the delivery to the broker":
\* every pending or claimed row is sent or cancelled in the end, whatever rows are in
\* front of it, unless its job has already succeeded or its source is inactive or fenced.
EveryRowDispatched ==
    \A j \in Jobs : row[j].status \in {"pending", "claimed"} ~> Dispatched(j)
==============================================================================
