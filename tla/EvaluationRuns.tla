--------------------------- MODULE EvaluationRuns ---------------------------
(***************************************************************************)
(* An evaluation run of retrieval configurations: create_run stores the    *)
(* run, its candidates and a dispatch row; the dispatch reconciler sends   *)
(* the run to the workers, again and again while nobody is seen to work on *)
(* it; EvaluationWorkflow.run claims it, also from a worker that has shown *)
(* no sign of life for thirty minutes, and evaluates what is left of it.   *)
(*                                                                         *)
(* One database transaction is one step; one whose commit is not confirmed *)
(* may have been applied (Commit).  A process has one claim at a time and  *)
(* never uses an earlier one again, so that it stands for its claim token. *)
(* Runs share nothing but the batch of the reconciler and the workers, and *)
(* there is one of them here.                                              *)
(***************************************************************************)
EXTENDS Integers

CONSTANTS
    NumCandidates,   \* candidates of the run, numbered by their ordinal
    Cases,           \* cases of the frozen dataset
    Workers,         \* Celery worker processes
    Dispatchers,     \* overlapping runs of the dispatch reconciler
    Runtimes,        \* fingerprints capture_worker_runtime can return
    MaxQueue,        \* bound on the messages in the broker
    MaxEvalFaults,   \* bound on crashes, lost commits, failed sends and stalls
    Nobody           \* an empty claim_token, runtime or result

ASSUME EvaluationAssumption ==
    /\ NumCandidates \in Nat \ {0}
    /\ MaxQueue \in Nat \ {0}
    /\ MaxEvalFaults \in Nat
    /\ Nobody \notin Workers \cup Dispatchers \cup Runtimes

Candidates == 1 .. NumCandidates

VARIABLES
    run,         \* the run row: status, claim_token, age of claimed_at, runtime, valid
    cand,        \* cand[c]: status of a candidate row
    results,     \* results[c][k]: runtime of the worker whose case result is stored
    row,         \* the dispatch row: status, claim_token, whether its time has come
    messages,    \* messages for the run in the broker
    work,        \* work[w]: what a worker does with its message
    send,        \* send[d]: what a dispatcher does with its claim
    evalFaults   \* faults met so far

evalVars == <<run, cand, results, row, messages, work, send, evalFaults>>

Ended == {"completed", "failed"}
Open == {"pending", "running"}
Steps == {"idle", "claim", "mark", "case", "heartbeat", "add", "complete", "fail",
          "completeRun", "failRun"}
Run == [status : {"none"} \cup Open \cup Ended, claim : Workers \cup {Nobody},
        age : {"fresh", "quiet", "lost"}, runtime : Runtimes \cup {Nobody}, valid : BOOLEAN]
Row == [status : {"none", "pending", "claimed", "sent"}, claim : Dispatchers \cup {Nobody},
        due : BOOLEAN]
Work == [step : Steps, todo : SUBSET Candidates, seen : SUBSET Cases,
         runtime : Runtimes \cup {Nobody}]

EvaluationTypeOK ==
    /\ run \in Run
    /\ cand \in [Candidates -> Open \cup Ended]
    /\ results \in [Candidates -> [Cases -> Runtimes \cup {Nobody}]]
    /\ row \in Row
    /\ messages \in Nat
    /\ work \in [Workers -> Work]
    /\ send \in [Dispatchers -> {"idle", "send", "sent", "failed"}]
    /\ evalFaults \in 0 .. MaxEvalFaults

Idle == [step |-> "idle", todo |-> {}, seen |-> {}, runtime |-> Nobody]

EvaluationInit ==
    /\ run = [status |-> "none", claim |-> Nobody, age |-> "fresh", runtime |-> Nobody,
              valid |-> TRUE]
    /\ cand = [c \in Candidates |-> "pending"]
    /\ results = [c \in Candidates |-> [k \in Cases |-> Nobody]]
    /\ row = [status |-> "none", claim |-> Nobody, due |-> FALSE]
    /\ messages = 0
    /\ work = [w \in Workers |-> Idle]
    /\ send = [d \in Dispatchers |-> "idle"]
    /\ evalFaults = 0

EvalFault == evalFaults < MaxEvalFaults /\ evalFaults' = evalFaults + 1

-----------------------------------------------------------------------------
\* start_run and create_run.  Only the workers look at the scenarios of the
\* dataset: a run is valid if all of them are the caller's own.
CreateRun ==
    /\ run.status = "none"
    /\ \E valid \in BOOLEAN : run' = [run EXCEPT !.status = "pending", !.valid = valid]
    /\ row' = [row EXCEPT !.status = "pending", !.due = TRUE]
    /\ UNCHANGED <<cand, results, messages, work, send, evalFaults>>

-----------------------------------------------------------------------------
\* EvaluationDispatchReconciler.run_once.  A sent message is not trusted: the
\* row is claimed again while the run is pending or its worker is quiet.
ClaimableMutant ==
    /\ run.status \in Open
    /\ row.due
    /\ row.status \in {"pending", "claimed"}
Claimable ==
    /\ run.status \in Open
    /\ row.due
    /\ \/ row.status \in {"pending", "claimed"}
       \/ row.status = "sent" /\ (run.status = "pending" \/ run.age # "fresh")

ClaimReady(d) ==
    /\ send[d] = "idle"
    /\ Claimable
    /\ row' = [status |-> "claimed", claim |-> d, due |-> FALSE]
    /\ send' = [send EXCEPT ![d] = "send"]
    /\ UNCHANGED <<run, cand, results, messages, work, evalFaults>>

Send(d) ==
    /\ send[d] = "send"
    /\ messages < MaxQueue
    /\ messages' = messages + 1
    /\ send' = [send EXCEPT ![d] = "sent"]
    /\ UNCHANGED <<run, cand, results, row, work, evalFaults>>

SendFails(d) ==
    /\ send[d] = "send"
    /\ EvalFault
    /\ send' = [send EXCEPT ![d] = "failed"]
    /\ UNCHANGED <<run, cand, results, row, messages, work>>

\* mark_sent and mark_failed raise if the row was claimed by another run.
MarkRow(d) ==
    /\ send[d] \in {"sent", "failed"}
    /\ row' = IF row.status = "claimed" /\ row.claim = d
              THEN [status |-> IF send[d] = "sent" THEN "sent" ELSE "pending",
                    claim |-> Nobody, due |-> FALSE]
              ELSE row
    /\ send' = [send EXCEPT ![d] = "idle"]
    /\ UNCHANGED <<run, cand, results, messages, work, evalFaults>>

\* The process dies, or its own transaction fails, with the claim in its hand.
DispatcherDies(d) ==
    /\ send[d] # "idle"
    /\ EvalFault
    /\ send' = [send EXCEPT ![d] = "idle"]
    /\ UNCHANGED <<run, cand, results, row, messages, work>>

-----------------------------------------------------------------------------
TurnTo(w, step) == work' = [work EXCEPT ![w].step = step]

\* A transaction of worker w: it is applied and the worker goes on, or it is
\* refused, or its answer is lost, which raises in the worker either way.
Commit(w, step, onError, granted, effect, nothing) ==
    \/ granted /\ effect /\ TurnTo(w, step) /\ UNCHANGED evalFaults
    \/ ~granted /\ nothing /\ TurnTo(w, onError) /\ UNCHANGED evalFaults
    \/ /\ EvalFault
       /\ nothing \/ (granted /\ effect)
       /\ TurnTo(w, onError)

Receive(w) ==
    /\ work[w].step = "idle"
    /\ messages > 0
    /\ messages' = messages - 1
    /\ TurnTo(w, "claim")
    /\ UNCHANGED <<run, cand, results, row, send, evalFaults>>

OpenCandidatesMutant == {c \in Candidates : cand[c] = "pending"}
OpenCandidates == {c \in Candidates : cand[c] \in Open}

ClaimFree == run.status = "pending" \/ (run.status = "running" /\ run.age = "lost")

OtherRuntime(e) == run.runtime \notin {Nobody, e}

\* claim_run of a run that nobody works on.
ClaimRun(w) ==
    /\ work[w].step = "claim"
    /\ ClaimFree
    /\ \E e \in Runtimes :
          /\ ~OtherRuntime(e)
          /\ run' = [run EXCEPT !.status = "running", !.claim = w, !.age = "fresh",
                                !.runtime = e]
          /\ \/ /\ work' = [work EXCEPT ![w].todo = OpenCandidates, ![w].runtime = e,
                                        ![w].step = IF run.valid THEN "mark" ELSE "failRun"]
                /\ UNCHANGED evalFaults
             \/ EvalFault /\ work' = [work EXCEPT ![w] = Idle]
    /\ UNCHANGED <<cand, results, row, messages, send>>

\* claim_run by a worker with another runtime ends the run and what is open.
RefuseRuntime(w) ==
    /\ work[w].step = "claim"
    /\ ClaimFree
    /\ \E e \in Runtimes : OtherRuntime(e)
    /\ run' = [run EXCEPT !.status = "failed", !.claim = Nobody, !.age = "fresh"]
    /\ cand' = [c \in Candidates |-> IF cand[c] \in Open THEN "failed" ELSE cand[c]]
    /\ work' = [work EXCEPT ![w] = Idle]
    /\ UNCHANGED <<results, row, messages, send, evalFaults>>

\* claim_run finds the run ended or in the hands of another worker, or fails.
DropMessage(w) ==
    /\ work[w].step = "claim"
    /\ (~ClaimFree /\ UNCHANGED evalFaults) \/ EvalFault
    /\ work' = [work EXCEPT ![w] = Idle]
    /\ UNCHANGED <<run, cand, results, row, messages, send>>

-----------------------------------------------------------------------------
\* What every write of a worker asks for: _candidate_with_claim, heartbeat and
\* _finish_run.
HoldsMutant(w) == TRUE
Holds(w) == run.status = "running" /\ run.claim = w

\* The candidate in work is the first of those that are left.
InWork(w) == CHOOSE c \in work[w].todo : \A d \in work[w].todo : c <= d

MarkCandidateRunning(w) ==
    /\ work[w].step = "mark"
    /\ work[w].todo # {}
    /\ Commit(w, "case", "failRun", Holds(w) /\ cand[InWork(w)] \in Open,
              cand' = [cand EXCEPT ![InWork(w)] = "running"], UNCHANGED cand)
    /\ UNCHANGED <<run, results, row, messages, send>>

\* find_case_result, and the searches for a case without one.  A search may
\* raise, and so may aggregate_metrics when all cases are there.
NextCase(w) ==
    LET missing == Cases \ work[w].seen
    IN /\ work[w].step = "case"
       /\ \/ \E k \in missing :
                /\ results[InWork(w)][k] # Nobody
                /\ work' = [work EXCEPT ![w].seen = @ \cup {k}]
          \/ \E k \in missing : results[InWork(w)][k] = Nobody /\ TurnTo(w, "heartbeat")
          \/ missing = {} /\ TurnTo(w, "complete")
          \/ TurnTo(w, "fail")
       /\ UNCHANGED <<run, cand, results, row, messages, send, evalFaults>>

HeartBeat(w) ==
    /\ work[w].step = "heartbeat"
    /\ Commit(w, "add", "fail", Holds(w), run' = [run EXCEPT !.age = "fresh"], UNCHANGED run)
    /\ UNCHANGED <<cand, results, row, messages, send>>

\* add_case_result: a result that is there already stays as it is.
Stored(c, k, e) == IF results[c][k] = Nobody THEN e ELSE results[c][k]

AddCaseResult(w) ==
    /\ work[w].step = "add"
    /\ \E k \in Cases \ work[w].seen :
          /\ \/ /\ Holds(w)
                /\ results' = [results EXCEPT ![InWork(w)][k] =
                                                 Stored(InWork(w), k, work[w].runtime)]
                /\ \/ /\ work' = [work EXCEPT ![w].seen = @ \cup {k}, ![w].step = "case"]
                      /\ UNCHANGED evalFaults
                   \/ EvalFault /\ TurnTo(w, "fail")
             \/ /\ (~Holds(w) /\ UNCHANGED evalFaults) \/ EvalFault
                /\ TurnTo(w, "fail")
                /\ UNCHANGED results
    /\ UNCHANGED <<run, cand, row, messages, send>>

\* complete_candidate under the trigger that counts the case results, and the
\* trigger that keeps an ended candidate as it is.
AllResults(c) == \A k \in Cases : results[c][k] # Nobody

EndCandidate(w, step, status, onError, granted) ==
    /\ work[w].step = step
    /\ \/ /\ granted /\ cand[InWork(w)] \in Open
          /\ cand' = [cand EXCEPT ![InWork(w)] = status]
          /\ \/ /\ work' = [work EXCEPT ![w].todo = @ \ {InWork(w)}, ![w].seen = {},
                                        ![w].step = "mark"]
                /\ UNCHANGED evalFaults
             \/ EvalFault /\ TurnTo(w, onError)
       \/ /\ (~(granted /\ cand[InWork(w)] \in Open) /\ UNCHANGED evalFaults) \/ EvalFault
          /\ TurnTo(w, onError)
          /\ UNCHANGED cand
    /\ UNCHANGED <<run, results, row, messages, send>>

CompleteCandidate(w) ==
    EndCandidate(w, "complete", "completed", "fail", Holds(w) /\ AllResults(InWork(w)))

FailCandidate(w) == EndCandidate(w, "fail", "failed", "failRun", Holds(w))

\* _finish_run.  What raises in it leaves the task, and the message is gone.
FinishRun(w, status, onError) ==
    /\ \/ /\ Holds(w)
          /\ run' = [run EXCEPT !.status = status, !.claim = Nobody, !.age = "fresh"]
          /\ \/ work' = [work EXCEPT ![w] = Idle] /\ UNCHANGED evalFaults
             \/ EvalFault /\ work' = [work EXCEPT ![w] = onError]
       \/ /\ (~Holds(w) /\ UNCHANGED evalFaults) \/ EvalFault
          /\ work' = [work EXCEPT ![w] = onError]
          /\ UNCHANGED run
    /\ UNCHANGED <<cand, results, row, messages, send>>

CompleteRun(w) ==
    /\ work[w].step = "mark" /\ work[w].todo = {}
    /\ FinishRun(w, "completed", [work[w] EXCEPT !.step = "failRun"])

FailRun(w) == work[w].step = "failRun" /\ FinishRun(w, "failed", Idle)

\* The worker dies and its message is delivered again (reject_on_worker_lost).
WorkerDies(w) ==
    /\ work[w].step # "idle"
    /\ EvalFault
    /\ messages' = messages + 1
    /\ work' = [work EXCEPT ![w] = Idle]
    /\ UNCHANGED <<run, cand, results, row, send>>

-----------------------------------------------------------------------------
\* Time passes: the backoff or the two-minute limit of the dispatch row ...
RowFallsDue ==
    /\ run.status \in Open /\ row.status # "none" /\ ~row.due
    /\ row' = [row EXCEPT !.due = TRUE]
    /\ UNCHANGED <<run, cand, results, messages, work, send, evalFaults>>

\* ... two minutes since the last heartbeat ...
FallQuiet ==
    /\ run.status = "running" /\ run.age = "fresh"
    /\ run' = [run EXCEPT !.age = "quiet"]
    /\ UNCHANGED <<cand, results, row, messages, work, send, evalFaults>>

\* ... and thirty.  A worker needs less for the searches of a case: that it is
\* slower is a fault.
Gone(w) == work[w].step \in {"idle", "claim"}

LoseClaim ==
    /\ run.status = "running" /\ run.age = "quiet"
    /\ IF Gone(run.claim) THEN UNCHANGED evalFaults ELSE EvalFault
    /\ run' = [run EXCEPT !.age = "lost"]
    /\ UNCHANGED <<cand, results, row, messages, work, send>>

-----------------------------------------------------------------------------
WorkerStep(w) ==
    \/ ClaimRun(w) \/ RefuseRuntime(w) \/ DropMessage(w) \/ MarkCandidateRunning(w)
    \/ NextCase(w) \/ HeartBeat(w) \/ AddCaseResult(w) \/ CompleteCandidate(w)
    \/ FailCandidate(w) \/ CompleteRun(w) \/ FailRun(w)

DispatchStep(d) == ClaimReady(d) \/ Send(d) \/ MarkRow(d)

EvaluationNext ==
    \/ CreateRun
    \/ \E d \in Dispatchers : DispatchStep(d) \/ SendFails(d) \/ DispatcherDies(d)
    \/ \E w \in Workers : Receive(w) \/ WorkerStep(w) \/ WorkerDies(w)
    \/ RowFallsDue
    \/ FallQuiet
    \/ LoseClaim

\* Beat starts the reconciler every few seconds, an idle worker takes the next
\* message, a task is carried on by its event loop, and time passes.
EvaluationFairness ==
    /\ \A d \in Dispatchers : WF_evalVars(DispatchStep(d))
    /\ \A w \in Workers : WF_evalVars(Receive(w)) /\ WF_evalVars(WorkerStep(w))
    /\ WF_evalVars(RowFallsDue)
    /\ WF_evalVars(FallQuiet)
    /\ WF_evalVars(LoseClaim /\ UNCHANGED evalFaults)

EvaluationSpec == EvaluationInit /\ [][EvaluationNext]_evalVars /\ EvaluationFairness

-----------------------------------------------------------------------------
\* A completed run has ended every candidate, and a completed candidate has the
\* results of all cases, whoever of several workers has stored them (run,
\* complete_run).
CompletedRunIsWhole ==
    /\ run.status = "completed" => \A c \in Candidates : cand[c] \in Ended
    /\ \A c \in Candidates : cand[c] = "completed" => AllResults(c)

\* Nothing of an ended run changes any more: a worker that lost its claim while
\* it was searching adds no result and ends no candidate (_candidate_with_claim).
EndedRunIsFrozen ==
    [][run.status \in Ended => UNCHANGED <<run, cand, results>>]_evalVars

\* Every run that was started ends, although workers die and messages are
\* dropped because the run is still claimed (claim_ready, claim_run).
EvaluationEnds == (run.status \in Open) ~> (run.status \in Ended)

=============================================================================
