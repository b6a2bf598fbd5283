--------------------------- MODULE GenerativeRuns ---------------------------
(***************************************************************************)
(* A generative evaluation run: every slot, one repetition of a case under *)
(* a configuration, has attempts, and every attempt is one execution that  *)
(* may call a model provider.  Unlike EvaluationRuns nothing is taken over *)
(* from a lost worker, because the provider may have answered: the run is  *)
(* failed, what was open is interrupted, and only the owner may ask for    *)
(* new attempts.                                                           *)
(*                                                                         *)
(* Every transaction locks the run row first and is one step.  A worker    *)
(* stands for its claim token, as in EvaluationRuns.  There is one run and *)
(* one owner.                                                              *)
(***************************************************************************)
EXTENDS Integers, Sequences

CONSTANTS
    Slots,          \* configuration versions x cases x repetitions
    GenWorkers,     \* Celery worker processes
    MaxRetries,     \* bound on the owner's retries
    MaxGenQueue,    \* bound on the messages in the broker
    MaxGenFaults,   \* bound on crashes, lost messages, errors and stalls
    Null            \* an empty claim_token

ASSUME GenerativeAssumption ==
    /\ Slots # {}
    /\ MaxRetries \in Nat
    /\ MaxGenQueue \in Nat \ {0}
    /\ MaxGenFaults \in Nat
    /\ Null \notin GenWorkers

VARIABLES
    genRun,     \* the run row: status, claim_token, claimed_at too old, dispatched_at, used
    attempts,   \* attempts[s]: the attempt rows of a slot by attempt_number
    genQueue,   \* messages for the run in the broker
    task,       \* task[w]: what a worker does with its message
    calls,      \* history: calls[s]: executions begun for the slot
    retries,    \* history: retries the owner has asked for
    genFaults   \* faults met so far

genVars == <<genRun, attempts, genQueue, task, calls, retries, genFaults>>

RunEnded == {"completed", "failed", "cancelled"}
Unfinished == {"pending", "running"}
AttemptStatus == Unfinished \cup {"completed", "failed", "interrupted", "cancelled"}
Attempt == [status : AttemptStatus, claim : GenWorkers \cup {Null}, unconfirmed : BOOLEAN]
GenRun == [status : {"none", "pending", "running"} \cup RunEnded,
           claim : GenWorkers \cup {Null}, stale : BOOLEAN,
           dispatched : {"never", "lately", "before"}, used : BOOLEAN]
Outcomes == {"completed", "failed", "unconfirmed"}
Task == [step : {"idle", "claim", "load", "next", "start", "call", "store"},
         todo : SUBSET (Slots \X (Nat \ {0})), at : (Slots \X (Nat \ {0})) \cup {Null},
         outcome : Outcomes]

GenerativeTypeOK ==
    /\ genRun \in GenRun
    /\ attempts \in [Slots -> Seq(Attempt)]
    /\ genQueue \in Nat
    /\ task \in [GenWorkers -> Task]
    /\ calls \in [Slots -> Nat]
    /\ retries \in 0 .. MaxRetries
    /\ genFaults \in 0 .. MaxGenFaults

NoTask == [step |-> "idle", todo |-> {}, at |-> Null, outcome |-> "completed"]
NewAttempt == [status |-> "pending", claim |-> Null, unconfirmed |-> FALSE]

GenerativeInit ==
    /\ genRun = [status |-> "none", claim |-> Null, stale |-> FALSE,
                 dispatched |-> "never", used |-> FALSE]
    /\ attempts = [s \in Slots |-> <<>>]
    /\ genQueue = 0
    /\ task = [w \in GenWorkers |-> NoTask]
    /\ calls = [s \in Slots |-> 0]
    /\ retries = 0
    /\ genFaults = 0

GenFault == genFaults < MaxGenFaults /\ genFaults' = genFaults + 1

\* An attempt row is named by its slot and attempt_number.
Rows == {r \in Slots \X (1 .. MaxRetries + 1) : r[2] <= Len(attempts[r[1]])}
At(r) == attempts[r[1]][r[2]]
RowsIn(states) == {r \in Rows : At(r).status \in states}
Latest(s) == attempts[s][Len(attempts[s])]

\* The rows that "new" names are written.
Rewrite(new) ==
    attempts' = [s \in Slots |-> [n \in DOMAIN attempts[s] |->
                    IF <<s, n>> \in DOMAIN new THEN new[<<s, n>>] ELSE attempts[s][n]]]

RunEnds(status) ==
    genRun' = [genRun EXCEPT !.status = status, !.claim = Null, !.stale = FALSE]

-----------------------------------------------------------------------------
\* The owner's requests.  submit under a request_id that is known only reads.
Submit ==
    /\ genRun.status = "none"
    /\ genRun' = [genRun EXCEPT !.status = "pending"]
    /\ attempts' = [s \in Slots |-> <<NewAttempt>>]
    /\ UNCHANGED <<genQueue, task, calls, retries, genFaults>>

\* cancel_pending: only while nothing of the run was ever touched; "used" is
\* the runtime_environment that the first claim leaves behind.
UntouchedMutant == genRun.status \in {"pending", "running"}
Untouched ==
    /\ genRun.status = "pending" /\ genRun.claim = Null /\ ~genRun.used
    /\ \A r \in Rows : At(r).status = "pending" /\ At(r).claim = Null

CancelPending ==
    /\ Untouched
    /\ RunEnds("cancelled")
    /\ Rewrite([r \in Rows |-> [At(r) EXCEPT !.status = "cancelled"]])
    /\ UNCHANGED <<genQueue, task, calls, retries, genFaults>>

\* retry_failed adds an attempt for every slot whose newest one did not end well.
RetryAllowedMutant == genRun.status = "failed"
RetryAllowed == genRun.status = "failed" /\ \A r \in Rows : ~At(r).unconfirmed

RetryFailed ==
    LET again == {s \in Slots : Latest(s).status \in {"failed", "interrupted"}}
    IN /\ retries < MaxRetries
       /\ RetryAllowed
       /\ again # {}
       /\ genRun' = [genRun EXCEPT !.status = "pending", !.dispatched = "never"]
       /\ attempts' = [s \in Slots |-> IF s \in again THEN Append(attempts[s], NewAttempt)
                                       ELSE attempts[s]]
       /\ retries' = retries + 1
       /\ UNCHANGED <<genQueue, task, calls, genFaults>>

-----------------------------------------------------------------------------
\* dispatch_pending: interrupt_stale fails the runs of lost workers ...
InterruptStaleMutant ==
    /\ genRun.status = "running" /\ genRun.stale
    /\ Rewrite([r \in RowsIn(Unfinished) |-> NewAttempt])
    /\ genRun' = [genRun EXCEPT !.status = "pending", !.claim = Null, !.dispatched = "never"]
    /\ UNCHANGED <<genQueue, task, calls, retries, genFaults>>
InterruptStale ==
    /\ genRun.status = "running" /\ genRun.stale
    /\ Rewrite([r \in RowsIn(Unfinished) |->
                   [At(r) EXCEPT !.status = "interrupted", !.claim = genRun.claim]])
    /\ RunEnds("failed")
    /\ UNCHANGED <<genQueue, task, calls, retries, genFaults>>

\* ... and pending runs are sent, again when they are still pending two minutes
\* later.  A send that fails after the mark is made up for in this way.
DispatchPendingMutant ==
    /\ genRun.status = "pending" /\ genRun.dispatched = "never"
    /\ genRun' = [genRun EXCEPT !.dispatched = "lately"]
    /\ \/ genQueue < MaxGenQueue /\ genQueue' = genQueue + 1 /\ UNCHANGED genFaults
       \/ GenFault /\ UNCHANGED genQueue
    /\ UNCHANGED <<attempts, task, calls, retries>>
DispatchPending ==
    /\ genRun.status = "pending" /\ genRun.dispatched # "lately"
    /\ genRun' = [genRun EXCEPT !.dispatched = "lately"]
    /\ \/ genQueue < MaxGenQueue /\ genQueue' = genQueue + 1 /\ UNCHANGED genFaults
       \/ GenFault /\ UNCHANGED genQueue
    /\ UNCHANGED <<attempts, task, calls, retries>>

TwoMinutesPass ==
    /\ genRun.status = "pending" /\ genRun.dispatched = "lately"
    /\ genRun' = [genRun EXCEPT !.dispatched = "before"]
    /\ UNCHANGED <<attempts, genQueue, task, calls, retries, genFaults>>

-----------------------------------------------------------------------------
Step(w, step) == task' = [task EXCEPT ![w].step = step]
Leave(w) == task' = [task EXCEPT ![w] = NoTask]

ReceiveTask(w) ==
    /\ task[w].step = "idle"
    /\ genQueue > 0
    /\ genQueue' = genQueue - 1
    /\ Step(w, "claim")
    /\ UNCHANGED <<genRun, attempts, calls, retries, genFaults>>

\* claim_run: the first of several deliveries gets a pending run.
ClaimablePending == genRun.status = "pending"

ClaimGenerative(w) ==
    /\ task[w].step = "claim"
    /\ IF ClaimablePending
       THEN /\ genRun' = [genRun EXCEPT !.status = "running", !.claim = w, !.stale = FALSE,
                                        !.used = TRUE]
            /\ Step(w, "load")
       ELSE Leave(w) /\ UNCHANGED genRun
    /\ UNCHANGED <<attempts, genQueue, calls, retries, genFaults>>

\* _execute_attempts reads which attempts are pending after the claim.
LoadAttempts(w) ==
    /\ task[w].step = "load"
    /\ task' = [task EXCEPT ![w].todo = RowsIn({"pending"}), ![w].step = "next"]
    /\ UNCHANGED <<genRun, attempts, genQueue, calls, retries, genFaults>>

OwnsRun(w) == genRun.status = "running" /\ genRun.claim = w

\* claim_attempt; one that is not to be had is passed over.
MayClaim(w, r) == OwnsRun(w) /\ At(r).status = "pending"

ClaimAttempt(w) ==
    /\ task[w].step = "next"
    /\ \E r \in task[w].todo :
          IF MayClaim(w, r)
          THEN /\ Rewrite([x \in {r} |-> [At(r) EXCEPT !.status = "running", !.claim = w]])
               /\ task' = [task EXCEPT ![w].todo = @ \ {r}, ![w].at = r, ![w].step = "start"]
          ELSE task' = [task EXCEPT ![w].todo = @ \ {r}] /\ UNCHANGED attempts
    /\ UNCHANGED <<genRun, genQueue, calls, retries, genFaults>>

\* The observer and the resources are set up and pipeline.execute is entered:
\* from here on a provider may have been asked.
StartCall(w) ==
    /\ task[w].step = "start"
    /\ calls' = [calls EXCEPT ![task[w].at[1]] = @ + 1]
    /\ Step(w, "call")
    /\ UNCHANGED <<genRun, attempts, genQueue, retries, genFaults>>

\* An answer, an error, or an end of which nobody knows whether the provider's
\* process is gone (tracked_generation_call).
EndCall(w) ==
    /\ task[w].step = "call"
    /\ \E outcome \in Outcomes :
          task' = [task EXCEPT ![w].outcome = outcome, ![w].step = "store"]
    /\ UNCHANGED <<genRun, attempts, genQueue, calls, retries, genFaults>>

OwnsAttempt(w) ==
    OwnsRun(w) /\ At(task[w].at).status = "running" /\ At(task[w].at).claim = w

\* complete_attempt raises claim_lost out of the task.  A numeric proof that
\* does not verify makes the answer an error, which is stored by a second call.
CompleteAttempt(w) ==
    /\ task[w].step = "store" /\ task[w].outcome # "unconfirmed"
    /\ \/ /\ OwnsAttempt(w)
          /\ Rewrite([r \in {task[w].at} |-> [At(r) EXCEPT !.status = task[w].outcome]])
          /\ Step(w, "next")
       \/ /\ OwnsAttempt(w) /\ task[w].outcome = "completed"
          /\ task' = [task EXCEPT ![w].outcome = "failed"]
          /\ UNCHANGED attempts
       \/ ~OwnsAttempt(w) /\ Leave(w) /\ UNCHANGED attempts
    /\ UNCHANGED <<genRun, genQueue, calls, retries, genFaults>>

\* The same for an unconfirmed end: the attempts that were not started are
\* fenced with it and the run has failed.
Fenced(a, w) ==
    [a EXCEPT !.status = IF @ = "pending" THEN "interrupted" ELSE "failed",
              !.unconfirmed = TRUE, !.claim = w]

CompleteUnconfirmed(w) ==
    /\ task[w].step = "store" /\ task[w].outcome = "unconfirmed"
    /\ IF OwnsAttempt(w)
       THEN /\ Rewrite([r \in {task[w].at} \cup RowsIn({"pending"}) |-> Fenced(At(r), w)])
            /\ RunEnds("failed")
       ELSE UNCHANGED <<genRun, attempts>>
    /\ Leave(w)
    /\ UNCHANGED <<genQueue, calls, retries, genFaults>>

\* finish_run, which raises when the run was taken away.
FinishGenerative(w) ==
    /\ task[w].step = "next" /\ task[w].todo = {}
    /\ IF OwnsRun(w) /\ \A s \in Slots : Latest(s).status \notin Unfinished
       THEN RunEnds(IF \A s \in Slots : Latest(s).status = "completed"
                    THEN "completed" ELSE "failed")
       ELSE UNCHANGED genRun
    /\ Leave(w)
    /\ UNCHANGED <<attempts, genQueue, calls, retries, genFaults>>

-----------------------------------------------------------------------------
\* The task raises where it is (its database fails, it is cancelled): the
\* message is gone and the run keeps its claim.
TaskRaises(w) ==
    /\ task[w].step # "idle"
    /\ GenFault
    /\ Leave(w)
    /\ UNCHANGED <<genRun, attempts, genQueue, calls, retries>>

\* The worker process dies and its message is delivered again.
GenWorkerDies(w) ==
    /\ task[w].step # "idle"
    /\ GenFault
    /\ genQueue' = genQueue + 1
    /\ Leave(w)
    /\ UNCHANGED <<genRun, attempts, calls, retries>>

\* _heartbeat runs beside the attempts; without it a claim is stale after ten
\* minutes.  That it stops while its worker goes on is a fault.
Beat(w) ==
    /\ task[w].step \notin {"idle", "claim"}
    /\ OwnsRun(w) /\ genRun.stale
    /\ genRun' = [genRun EXCEPT !.stale = FALSE]
    /\ UNCHANGED <<attempts, genQueue, task, calls, retries, genFaults>>

ClaimGoesStale ==
    /\ genRun.status = "running" /\ ~genRun.stale
    /\ IF task[genRun.claim].step \in {"idle", "claim"} THEN UNCHANGED genFaults ELSE GenFault
    /\ genRun' = [genRun EXCEPT !.stale = TRUE]
    /\ UNCHANGED <<attempts, genQueue, task, calls, retries>>

-----------------------------------------------------------------------------
TaskStep(w) ==
    \/ ClaimGenerative(w) \/ LoadAttempts(w) \/ ClaimAttempt(w) \/ StartCall(w) \/ EndCall(w)
    \/ CompleteAttempt(w) \/ CompleteUnconfirmed(w) \/ FinishGenerative(w)

GenerativeNext ==
    \/ Submit \/ CancelPending \/ RetryFailed
    \/ InterruptStale \/ DispatchPending \/ TwoMinutesPass \/ ClaimGoesStale
    \/ \E w \in GenWorkers :
          ReceiveTask(w) \/ TaskStep(w) \/ Beat(w) \/ TaskRaises(w) \/ GenWorkerDies(w)

\* As in EvaluationRuns; the owner need never cancel or retry.
GenerativeFairness ==
    /\ WF_genVars(InterruptStale) /\ WF_genVars(DispatchPending)
    /\ WF_genVars(TwoMinutesPass)
    /\ WF_genVars(ClaimGoesStale /\ UNCHANGED genFaults)
    /\ \A w \in GenWorkers : WF_genVars(ReceiveTask(w)) /\ WF_genVars(TaskStep(w))

GenerativeSpec == GenerativeInit /\ [][GenerativeNext]_genVars /\ GenerativeFairness

-----------------------------------------------------------------------------
\* "A lost worker is never replayed automatically": a slot is executed at most
\* once, and once more for every retry the owner asked for, whatever is
\* delivered twice, crashes or comes back late (interrupt_stale, claim_run).
NoAutomaticReplay ==
    \A s \in Slots : calls[s] <= Len(attempts[s]) /\ Len(attempts[s]) <= 1 + retries

\* A run that has ended has no attempt that is still open, a completed one ends
\* every slot with a completed attempt, and a cancelled one has executed nothing
\* (finish_run, interrupt_stale, complete_attempt, cancel_pending).
EndedRunIsSettled ==
    genRun.status \in RunEnded =>
        /\ RowsIn(Unfinished) = {}
        /\ genRun.status = "completed" => \A s \in Slots : Latest(s).status = "completed"
        /\ genRun.status = "cancelled" => \A s \in Slots : calls[s] = 0

\* Once a provider's end is unconfirmed no further attempt of the run is claimed:
\* no retry of the owner, no other delivery and no worker that comes back gets
\* around the fence (complete_attempt, retry_failed).
UnconfirmedIsFenced ==
    [][\A r \in Rows : At(r).unconfirmed =>
          /\ genRun' = genRun
          /\ attempts' = attempts]_genVars

\* Every run that was submitted ends (dispatch_pending, finish_run).
GenerativeEnds == (genRun.status \in Unfinished) ~> (genRun.status \in RunEnded)

=============================================================================
