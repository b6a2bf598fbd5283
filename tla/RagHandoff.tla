----------------------------- MODULE RagHandoff -----------------------------
(***************************************************************************)
(* The beat task reconcile_asset_handoffs: it first ends the ingestions of *)
(* inactive sources, then reconciles aliases, then hands active READY      *)
(* versions without an ingestion over to RAG, keeping a ledger of the      *)
(* hand-overs that fail.  Runs of the task may overlap, and the            *)
(* verification task and the API create ingestions at the same time.       *)
(*                                                                         *)
(* The versions belong to different documents and are numbered in the      *)
(* order of created_at; there is one subscription per version, so a        *)
(* version names its hand-over and its ingestion.                          *)
(***************************************************************************)
EXTENDS Integers, FiniteSets

CONSTANTS
    Versions,     \* numbers of READY versions
    Runs,         \* overlapping runs of the beat task
    BatchSize,    \* batch_size of RagAssetHandoffReconciler
    MaxAttempts,  \* max_attempts of the failure ledger
    Broken,       \* versions whose subscription names an invalid profile at first
    Fenceable,    \* versions whose document may be fenced
    MaxFaults     \* bound on transient failures

ASSUME HandoffAssumption ==
    /\ Versions \subseteq Nat
    /\ BatchSize \in Nat \ {0}
    /\ MaxAttempts \in Nat \ {0}
    /\ Broken \subseteq Versions
    /\ Fenceable \subseteq Versions
    /\ MaxFaults \in Nat

VARIABLES
    job,       \* job[v]: the ingestion of a version
    current,   \* versions that are their document's active one
    fenced,    \* versions of fenced documents
    invalid,   \* versions whose profile is invalid
    working,   \* versions with a delivery that a worker has not finished
    ledger,    \* ledger[v]: status and attempt_count of the failure record
    cooling,   \* retrying records whose next_retry_at is in the future
    pc,        \* step of each run
    commands,  \* commands[r]: hand-overs that a run has yet to do
    outcome,   \* outcome[r]: error class of the hand-over in work
    faults     \* faults met so far

vars == <<job, current, fenced, invalid, working, ledger, cooling, pc, commands, outcome, faults>>
source == <<current, fenced, invalid>>

JobStatus == {"none", "open", "succeeded", "failed"}
LedgerStatus == {"none", "retrying", "quarantined", "resolved", "cancelled"}
ErrorClass == {"transient", "permanent", "obsolete"}

TypeOK ==
    /\ job \in [Versions -> JobStatus]
    /\ current \subseteq Versions
    /\ fenced \subseteq Versions
    /\ invalid \subseteq Versions
    /\ working \subseteq Versions
    /\ ledger \in [Versions -> [status : LedgerStatus, attempts : 0 .. MaxAttempts]]
    /\ cooling \subseteq Versions
    /\ pc \in [Runs -> {"idle", "alias", "pending", "ensure", "record", "resolve"}]
    /\ commands \in [Runs -> SUBSET Versions]
    /\ outcome \in [Runs -> ErrorClass \cup {"none"}]
    /\ faults \in 0 .. MaxFaults

Init ==
    /\ job = [v \in Versions |-> "none"]
    /\ current = Versions
    /\ fenced = {}
    /\ invalid = Broken
    /\ working = {}
    /\ ledger = [v \in Versions |-> [status |-> "none", attempts |-> 0]]
    /\ cooling = {}
    /\ pc = [r \in Runs |-> "idle"]
    /\ commands = [r \in Runs |-> {}]
    /\ outcome = [r \in Runs |-> "none"]
    /\ faults = 0

Spend == faults < MaxFaults /\ faults' = faults + 1

Goto(r, step) == pc' = [pc EXCEPT ![r] = step]

\* The oldest of a set of versions, which a run takes first.
Oldest(S) == CHOOSE v \in S : \A other \in S : v <= other

\* The hand-over a run works on.
Command(r) == Oldest(commands[r])

----------------------------------------------------------------------------
(* The failure ledger.                                                      *)

\* _resolve_handoff_failure_record
Resolved(row) ==
    IF row.status \in {"retrying", "quarantined"} THEN [row EXCEPT !.status = "resolved"]
    ELSE row

\* record: a cancelled record is final, a resolved one starts counting again.
Counted(row) == IF row.status \in {"none", "resolved"} THEN 1 ELSE row.attempts + 1

\* attempt_count keeps growing when a quarantined hand-over fails again; its limit is
\* all that the status depends on.
Capped(n) == IF n > MaxAttempts THEN MaxAttempts ELSE n

StatusAfter(class, attempts) ==
    CASE class = "obsolete" -> "cancelled"
      [] class = "permanent" \/ (class = "transient" /\ attempts >= MaxAttempts) -> "quarantined"
      [] class = "transient" /\ attempts < MaxAttempts -> "retrying"

Recorded(row, class) ==
    IF row.status = "cancelled" THEN row
    ELSE [status |-> StatusAfter(class, Counted(row)), attempts |-> Capped(Counted(row))]

\* A retrying record waits for next_retry_at.
Cooled(v, row) == IF row.status = "retrying" THEN cooling \cup {v} ELSE cooling \ {v}

----------------------------------------------------------------------------
(* One run of the beat task.                                                 *)

\* What the inactive-source reconciler selects.
InactiveMutant == {v \in Versions : job[v] = "open" /\ v \in current}
Inactive == {v \in Versions : job[v] = "open" /\ v \notin current}

\* SqlAlchemyInactiveRagIngestionReconciler.run_once: rows that a worker has locked are
\* skipped; a fenced source makes lock_ingestion_source raise, which undoes the whole
\* transaction and ends the task.
Recover(r) ==
    /\ pc[r] = "idle"
    /\ \E skipped \in SUBSET (Inactive \cap working) : LET chosen == Inactive \ skipped IN
        \/ /\ chosen \cap fenced = {}
           /\ job' = [v \in Versions |-> IF v \in chosen THEN "failed" ELSE job[v]]
           /\ Goto(r, "alias")
        \/ chosen \cap fenced # {} /\ UNCHANGED <<job, pc>>
    /\ UNCHANGED <<source, working, ledger, cooling, commands, outcome, faults>>

\* Failures of single profiles are collected and raised after the hand-overs; an
\* unexpected error ends the task.
AliasParity(r) ==
    /\ pc[r] = "alias"
    /\ (Goto(r, "pending") /\ UNCHANGED faults) \/ (Spend /\ Goto(r, "idle"))
    /\ UNCHANGED <<job, source, working, ledger, cooling, commands, outcome>>

\* SqlAlchemyRagAssetHandoffSource.pending: which hand-overs are due.
DueMutant(v) ==
    /\ v \in current
    /\ v \notin cooling
    /\ IF job[v] = "none" THEN ledger[v].status # "cancelled" ELSE ledger[v].status = "retrying"
Due(v) ==
    /\ v \in current
    /\ v \notin cooling
    /\ \/ job[v] = "none" /\ ledger[v].status \in {"none", "resolved", "retrying"}
       \/ job[v] # "none" /\ ledger[v].status = "retrying"

\* The batch is the oldest part of what is due.
Batch(B) ==
    /\ B \subseteq {v \in Versions : Due(v)}
    /\ Cardinality(B) <= BatchSize
    /\ \A v \in {u \in Versions : Due(u)} \ B :
        Cardinality(B) = BatchSize /\ \A u \in B : u < v

Pending(r) ==
    /\ pc[r] = "pending"
    /\ \E B \in SUBSET Versions :
        /\ Batch(B)
        /\ commands' = [commands EXCEPT ![r] = B]
        /\ Goto(r, IF B = {} THEN "idle" ELSE "ensure")
    /\ UNCHANGED <<job, source, working, ledger, cooling, outcome, faults>>

\* ensure, in one transaction: the ingestion, its delivery and the ledger's resolution.
Admitted(v) == v \in current /\ v \notin fenced

EnsureJob(v) ==
    /\ job' = [job EXCEPT ![v] = IF @ = "none" THEN "open" ELSE @]
    /\ working' = IF job[v] = "none" THEN working \cup {v} ELSE working
    /\ ledger' = [ledger EXCEPT ![v] = Resolved(@)]
    /\ cooling' = cooling \ {v}

\* creator.ensure_indexed, and _classify_failure of what it raises.
Raised(r, class) == outcome' = [outcome EXCEPT ![r] = class] /\ Goto(r, "record")

EnsureCommand(r) ==
    /\ pc[r] = "ensure"
    /\ LET v == Command(r) IN
        \/ /\ Admitted(v) /\ v \notin invalid
           /\ EnsureJob(v)
           /\ \/ Goto(r, "resolve") /\ UNCHANGED <<outcome, faults>>
              \/ Spend /\ Raised(r, "transient")
        \/ /\ ~Admitted(v) /\ Raised(r, "obsolete")
           /\ UNCHANGED <<job, working, ledger, cooling, faults>>
        \/ /\ Admitted(v) /\ v \in invalid /\ Raised(r, "permanent")
           /\ UNCHANGED <<job, working, ledger, cooling, faults>>
        \/ /\ Spend /\ Raised(r, "transient")
           /\ UNCHANGED <<job, working, ledger, cooling>>
    /\ UNCHANGED <<source, commands>>

\* The run turns to its next command.
Proceed(r) ==
    LET rest == commands[r] \ {Command(r)} IN
        /\ commands' = [commands EXCEPT ![r] = rest]
        /\ outcome' = [outcome EXCEPT ![r] = "none"]
        /\ Goto(r, IF rest = {} THEN "idle" ELSE "ensure")

\* failures.record; an error of its own is collected and the run goes on.
RecordFailure(r) ==
    /\ pc[r] = "record"
    /\ LET v == Command(r) IN
        \/ /\ ledger' = [ledger EXCEPT ![v] = Recorded(@, outcome[r])]
           /\ cooling' = Cooled(v, ledger'[v])
           /\ UNCHANGED faults
        \/ Spend /\ UNCHANGED <<ledger, cooling>>
    /\ Proceed(r)
    /\ UNCHANGED <<job, source, working>>

\* failures.resolve
ResolveCommand(r) ==
    /\ pc[r] = "resolve"
    /\ LET v == Command(r) IN
        \/ /\ ledger' = [ledger EXCEPT ![v] = Resolved(@)]
           /\ cooling' = cooling \ {v}
           /\ UNCHANGED faults
        \/ Spend /\ UNCHANGED <<ledger, cooling>>
    /\ Proceed(r)
    /\ UNCHANGED <<job, source, working>>

----------------------------------------------------------------------------
(* What happens beside the beat task.                                        *)

\* verify_asset and the API call ensure directly.
DirectEnsure(v) ==
    /\ Admitted(v) /\ v \notin invalid
    /\ job[v] = "none" \/ ledger[v].status \in {"retrying", "quarantined"}
    /\ EnsureJob(v)
    /\ UNCHANGED <<source, pc, commands, outcome, faults>>

\* A worker finishes a delivery; the job of an inactive source it leaves open.
EndDelivery(v) ==
    /\ v \in working
    /\ working' = working \ {v}
    /\ \/ job[v] = "open" /\ Admitted(v)
          /\ \E status \in {"succeeded", "failed"} : job' = [job EXCEPT ![v] = status]
       \/ (job[v] # "open" \/ ~Admitted(v)) /\ UNCHANGED job
    /\ UNCHANGED <<source, ledger, cooling, pc, commands, outcome, faults>>

RetryTime(v) ==
    /\ v \in cooling
    /\ cooling' = cooling \ {v}
    /\ UNCHANGED <<job, source, working, ledger, pc, commands, outcome, faults>>

\* A newer version becomes the document's active one.
Supersede(v) ==
    /\ v \in current
    /\ current' = current \ {v}
    /\ UNCHANGED <<job, fenced, invalid, working, ledger, cooling, pc, commands, outcome, faults>>

\* block_index_writes on the version's document.
Fence(v) ==
    /\ v \in Fenceable \ fenced
    /\ fenced' = fenced \cup {v}
    /\ UNCHANGED <<job, current, invalid, working, ledger, cooling, pc, commands, outcome, faults>>

\* The profile of the subscription is put right.
Repair(v) ==
    /\ v \in invalid
    /\ invalid' = invalid \ {v}
    /\ UNCHANGED <<job, current, fenced, working, ledger, cooling, pc, commands, outcome, faults>>

RunStep(r) ==
    \/ AliasParity(r) \/ Pending(r) \/ EnsureCommand(r) \/ RecordFailure(r) \/ ResolveCommand(r)

Next ==
    \/ \E r \in Runs : Recover(r) \/ RunStep(r)
    \/ \E v \in Versions : \/ DirectEnsure(v) \/ EndDelivery(v) \/ RetryTime(v)
                           \/ Supersede(v) \/ Fence(v) \/ Repair(v)

\* The beat schedule starts a run every five seconds, a run goes on to its end, workers
\* finish deliveries and time passes.  Nobody has to repair a profile, to supersede a
\* version or to ask for an ingestion.
Fairness ==
    /\ \A r \in Runs : WF_vars(Recover(r)) /\ WF_vars(RunStep(r))
    /\ \A v \in Versions : WF_vars(EndDelivery(v)) /\ WF_vars(RetryTime(v))

Spec == Init /\ [][Next]_vars /\ Fairness

\* An open ingestion of a fenced, superseded source makes every run of the task raise.
Obstructed == Inactive \cap fenced # {}

----------------------------------------------------------------------------
(* Properties.                                                               *)

\* "Quarantined identities are excluded from later source batches, allowing healthy
\* commands beyond the batch boundary to make progress": an active version with a
\* valid profile is ingested unless its own record is quarantined, although the
\* batch is full of hand-overs that fail.
HealthyHandoffs ==
    \A v \in Versions :
        (v \notin invalid /\ Admitted(v)) ~>
            \/ job[v] # "none"
            \/ ~Admitted(v)
            \/ ledger[v].status = "quarantined"
            \/ Obstructed

\* "A periodic inactive-source reconciler ... converges an inactive nonterminal ingestion
\* Job and Projection to FAILED": an ingestion whose version was superseded in a document
\* that is not fenced does not stay open.
InactiveConverges ==
    \A v \in Versions :
        (job[v] = "open" /\ v \notin current) ~> (job[v] # "open" \/ v \in fenced)

\* What the code does ensure of it: a superseded ingestion is ended by some run, whatever
\* overlapping runs, locked rows, lost answers and failing hand-overs do, unless a fenced
\* source stops the reconciler.
InactiveSettles ==
    \A v \in Versions :
        (job[v] = "open" /\ v \notin current) ~> (job[v] # "open" \/ Obstructed)
=============================================================================
