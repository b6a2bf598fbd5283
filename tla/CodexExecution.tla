--------------------------- MODULE CodexExecution ---------------------------
(***************************************************************************)
(* Calls of the external Codex runner: CodexRequestExecutor takes a slot   *)
(* of the runner, has the server issue a one-time approval for exactly     *)
(* this call, passes the authorization gate and runs the process in a      *)
(* workspace while the gate's transaction keeps what it read locked.       *)
(* Around it approvals are revoked, evidence is approved and revoked       *)
(* (EvidenceApprovals), the actor's standing is withdrawn, the runner is   *)
(* reconfigured, callers cancel, database sessions are lost and the host   *)
(* dies.                                                                   *)
(*                                                                         *)
(* Every call issues one approval of its own, so the call names it, and    *)
(* the lease.  "standing" stands for all that _derive reads besides the    *)
(* evidence and the runner: the owner, his workspaces, the configuration   *)
(* and its external approval under the current policies; all of it is      *)
(* under the share locks of the gate's transaction.                        *)
(***************************************************************************)
EXTENDS EvidenceApprovals

CONSTANTS
    Calls,           \* executions of CodexRequestExecutor.execute
    Evidence,        \* Evidence[c]: revisions whose text call c sends
    Configs,         \* configurations of the runner, named by their digest
    FirstConfig,     \* the configuration at the start
    MaxConcurrent,   \* MaxConcurrent[k]: max_concurrent_requests of k
    Disturbed,       \* calls that may be cancelled, expire or be revoked
    MaxFaults        \* bound on crashes, lost answers and lost sessions

ASSUME CodexAssumption ==
    /\ IsFiniteSet(Calls)
    /\ Disturbed \subseteq Calls
    /\ Evidence \in [Calls -> SUBSET Revisions]
    /\ FirstConfig \in Configs /\ None \notin Configs
    /\ MaxConcurrent \in [Configs -> Nat \ {0}]
    /\ MaxFaults \in Nat

VARIABLES
    config,     \* what the registry resolves the runner to
    standing,   \* whether the actor may still make these calls
    active,     \* revisions that are their document's active version
    pc,         \* pc[c]: where the call is
    runner,     \* runner[c]: the configuration it resolved at first
    slots,      \* slots[c]: configuration of its slot row, if there is one
    bound,      \* bound[c]: configuration and grant generations of its intent
    approval,   \* approval[c]: its row of rag_codex_call_approvals
    consumed,   \* calls with a row in rag_codex_call_consumptions
    locked,     \* calls whose gate transaction is open in the database
    cancelled,  \* calls whose cancellation event is set
    verified,   \* calls whose termination_verified is true
    live,       \* calls whose process, or a descendant of it, is running
    kept,       \* history: calls whose slot was given up for lost
    faults      \* faults met so far

callVars == <<config, standing, active, pc, runner, slots, bound, approval, consumed,
              locked, cancelled, verified, live, kept, faults>>
vars == <<callVars, evidenceVars>>

Stages == {"idle", "acquire", "slotted", "issue", "gate", "consume", "prepare",
           "invoke", "running", "audit", "complete", "done", "dead"}
Intent == [config : Configs \cup {None}, generation : [Revisions -> Nat]]
NoIntent == [config |-> None, generation |-> [r \in Revisions |-> 0]]

TypeOK ==
    /\ EvidenceTypeOK
    /\ config \in Configs
    /\ standing \in BOOLEAN
    /\ active \subseteq Revisions
    /\ pc \in [Calls -> Stages]
    /\ runner \in [Calls -> Configs \cup {None}]
    /\ slots \in [Calls -> Configs \cup {None}]
    /\ bound \in [Calls -> Intent]
    /\ approval \in [Calls -> {"none", "issued", "expired", "revoked"}]
    /\ consumed \subseteq Calls
    /\ locked \subseteq Calls
    /\ cancelled \subseteq Calls
    /\ verified \subseteq Calls
    /\ live \subseteq Calls
    /\ kept \subseteq Calls
    /\ faults \in 0 .. MaxFaults

Init ==
    /\ EvidenceInit
    /\ config = FirstConfig
    /\ standing = TRUE
    /\ active = Revisions
    /\ pc = [c \in Calls |-> "idle"]
    /\ runner = [c \in Calls |-> None]
    /\ slots = [c \in Calls |-> None]
    /\ bound = [c \in Calls |-> NoIntent]
    /\ approval = [c \in Calls |-> "none"]
    /\ consumed = {}
    /\ locked = {}
    /\ cancelled = {}
    /\ verified = {}
    /\ live = {}
    /\ kept = {}
    /\ faults = 0

Spend == faults < MaxFaults /\ faults' = faults + 1

Goto(c, stage) == pc' = [pc EXCEPT ![c] = stage]

SlotRows == {c \in Calls : slots[c] # None}

-----------------------------------------------------------------------------
\* _derive: what the transaction finds must entitle the call.
Entitled(c) ==
    /\ standing
    /\ \A r \in Evidence[c] : grant[r].status = "approved" /\ r \in active

CurrentIntent(c) ==
    [config |-> config,
     generation |-> [r \in Revisions |-> IF r \in Evidence[c] THEN grant[r].generation ELSE 0]]

\* What _current and _authorize find equal to the stored intent.
Current(c) == Entitled(c) /\ CurrentIntent(c) = bound[c]

-----------------------------------------------------------------------------
\* _owned resolves the runner before it asks for a slot.
Begin(c) ==
    /\ pc[c] = "idle"
    /\ Goto(c, "acquire")
    /\ runner' = [runner EXCEPT ![c] = config]
    /\ verified' = verified \cup {c}
    /\ UNCHANGED <<config, standing, active, slots, bound, approval, consumed, locked,
                   cancelled, live, kept, faults, evidenceVars>>

\* acquire: rows with other settings refuse the call, and so do max_concurrent
\* rows of any age.
SameSettings(c) == \A d \in SlotRows : slots[d] = runner[c]
FreeSlot(c) == Cardinality(SlotRows) < MaxConcurrent[runner[c]]

Acquire(c) ==
    /\ pc[c] = "acquire"
    /\ IF SameSettings(c) /\ FreeSlot(c)
       THEN slots' = [slots EXCEPT ![c] = runner[c]] /\ Goto(c, "slotted")
       ELSE Goto(c, "done") /\ UNCHANGED slots
    /\ UNCHANGED <<config, standing, active, runner, bound, approval, consumed, locked,
                   cancelled, verified, live, kept, faults, evidenceVars>>

\* The row is committed although the caller gets an error: nobody has its lease.
AcquireLost(c) ==
    /\ pc[c] = "acquire"
    /\ SameSettings(c) /\ FreeSlot(c)
    /\ Spend
    /\ slots' = [slots EXCEPT ![c] = runner[c]]
    /\ kept' = kept \cup {c}
    /\ Goto(c, "done")
    /\ UNCHANGED <<config, standing, active, runner, bound, approval, consumed, locked,
                   cancelled, verified, live, evidenceVars>>

\* issue_request: the first transaction derives the intent.
IssueRequest(c) ==
    /\ pc[c] = "slotted"
    /\ IF c \notin cancelled /\ Entitled(c)
       THEN bound' = [bound EXCEPT ![c] = CurrentIntent(c)] /\ Goto(c, "issue")
       ELSE Goto(c, "audit") /\ UNCHANGED bound
    /\ UNCHANGED <<config, standing, active, runner, slots, approval, consumed, locked,
                   cancelled, verified, live, kept, faults, evidenceVars>>

\* issue_call: the second one derives it again and stores the approval.  The
\* executor then compares the intent's runner with the one that has its slot.
IssueCall(c) ==
    /\ pc[c] = "issue"
    /\ approval' = IF Current(c) THEN [approval EXCEPT ![c] = "issued"] ELSE approval
    /\ Goto(c, IF Current(c) /\ bound[c].config = runner[c] THEN "gate" ELSE "audit")
    /\ UNCHANGED <<config, standing, active, runner, slots, bound, consumed, locked,
                   cancelled, verified, live, kept, faults, evidenceVars>>

\* The approval is stored although its answer is lost.
IssueLost(c) ==
    /\ pc[c] = "issue"
    /\ Current(c)
    /\ Spend
    /\ approval' = [approval EXCEPT ![c] = "issued"]
    /\ Goto(c, "audit")
    /\ UNCHANGED <<config, standing, active, runner, slots, bound, consumed, locked,
                   cancelled, verified, live, kept, evidenceVars>>

-----------------------------------------------------------------------------
\* CodexExecutionGate.run: locked_snapshot and the first authorization.
OpenGate(c) ==
    /\ pc[c] = "gate"
    /\ IF Current(c) /\ approval[c] = "issued"
       THEN locked' = locked \cup {c} /\ Goto(c, "consume")
       ELSE Goto(c, "audit") /\ UNCHANGED locked
    /\ UNCHANGED <<config, standing, active, runner, slots, bound, approval, consumed,
                   cancelled, verified, live, kept, faults, evidenceVars>>

\* The gate's transaction ends and the executor's finally block starts.
CloseGate(c) == locked' = locked \ {c} /\ Goto(c, "audit")

\* consume commits on a connection of its own; the snapshot is then authorized
\* again against a new reading of the clock.
Consume(c) ==
    /\ pc[c] = "consume"
    /\ c \notin consumed
    /\ consumed' = consumed \cup {c}
    /\ IF approval[c] = "expired" THEN CloseGate(c) ELSE Goto(c, "prepare") /\ UNCHANGED locked
    /\ UNCHANGED <<config, standing, active, runner, slots, bound, approval, cancelled,
                   verified, live, kept, faults, evidenceVars>>

\* consume raises; its row may have been committed.
ConsumeFails(c) ==
    /\ pc[c] = "consume"
    /\ Spend
    /\ consumed' \in {consumed, consumed \cup {c}}
    /\ CloseGate(c)
    /\ UNCHANGED <<config, standing, active, runner, slots, bound, approval, cancelled,
                   verified, live, kept, evidenceVars>>

\* worker and CodexWorkspaceExecutor.run up to the call of the process runner.
\* A cancelled call, a changed configuration and a failed preparation end with
\* process_termination_verified set, as nothing was started.
Prepare(c) ==
    /\ pc[c] = "prepare"
    /\ c \notin cancelled /\ config = bound[c].config
    /\ verified' = verified \ {c}
    /\ Goto(c, "invoke")
    /\ UNCHANGED <<config, standing, active, runner, slots, bound, approval, consumed, locked,
                   cancelled, live, kept, faults, evidenceVars>>

PrepareFails(c) ==
    /\ pc[c] = "prepare"
    /\ CloseGate(c)
    /\ UNCHANGED <<config, standing, active, runner, slots, bound, approval, consumed,
                   cancelled, verified, live, kept, faults, evidenceVars>>

\* WindowsProcessRunner.run looks at the cancellation once more.  What it
\* returns without a process has no active count, which the workspace takes
\* for a process that may be running (_retained).
Launch(c) ==
    /\ pc[c] = "invoke"
    /\ c \notin cancelled
    /\ live' = live \cup {c}
    /\ Goto(c, "running")
    /\ UNCHANGED <<config, standing, active, runner, slots, bound, approval, consumed, locked,
                   cancelled, verified, kept, faults, evidenceVars>>

NotLaunched(c) ==
    /\ pc[c] = "invoke"
    /\ c \in cancelled
    /\ kept' = kept \cup {c}
    /\ CloseGate(c)
    /\ UNCHANGED <<config, standing, active, runner, slots, bound, approval, consumed,
                   cancelled, verified, live, faults, evidenceVars>>

\* The process exits, times out or is terminated because of the cancellation,
\* and the job object is seen empty.
Terminated(c) ==
    /\ pc[c] = "running"
    /\ live' = live \ {c}
    /\ verified' = verified \cup {c}
    /\ CloseGate(c)
    /\ UNCHANGED <<config, standing, active, runner, slots, bound, approval, consumed,
                   cancelled, kept, faults, evidenceVars>>

\* Termination cannot be confirmed, whether or not something is still running.
Unconfirmed(c) ==
    /\ pc[c] = "running"
    /\ Spend
    /\ live' \in {live, live \ {c}}
    /\ kept' = kept \cup {c}
    /\ CloseGate(c)
    /\ UNCHANGED <<config, standing, active, runner, slots, bound, approval, consumed,
                   cancelled, verified, evidenceVars>>

\* append_stage is made or raises; the nested finally goes on either way.
AuditMutant(c) ==
    /\ pc[c] = "audit"
    /\ Goto(c, "complete") \/ Goto(c, "done")
    /\ UNCHANGED <<config, standing, active, runner, slots, bound, approval, consumed, locked,
                   cancelled, verified, live, kept, faults, evidenceVars>>
Audit(c) ==
    /\ pc[c] = "audit"
    /\ Goto(c, "complete")
    /\ UNCHANGED <<config, standing, active, runner, slots, bound, approval, consumed, locked,
                   cancelled, verified, live, kept, faults, evidenceVars>>

\* complete deletes the row of a call whose process is known to be gone.
MayReleaseMutant(c) == TRUE
MayRelease(c) == c \in verified

Complete(c) ==
    /\ pc[c] = "complete"
    /\ slots' = IF MayRelease(c) THEN [slots EXCEPT ![c] = None] ELSE slots
    /\ Goto(c, "done")
    /\ UNCHANGED <<config, standing, active, runner, bound, approval, consumed, locked,
                   cancelled, verified, live, kept, faults, evidenceVars>>

CompleteFails(c) ==
    /\ pc[c] = "complete"
    /\ Spend
    /\ kept' = kept \cup {c}
    /\ Goto(c, "done")
    /\ UNCHANGED <<config, standing, active, runner, slots, bound, approval, consumed, locked,
                   cancelled, verified, live, evidenceVars>>

-----------------------------------------------------------------------------
\* execute shields the owned task: a cancelled caller sets the event and waits.
Cancel(c) ==
    /\ c \in Disturbed /\ pc[c] \notin {"idle", "done", "dead"}
    /\ cancelled' = cancelled \cup {c}
    /\ UNCHANGED <<config, standing, active, pc, runner, slots, bound, approval, consumed,
                   locked, verified, live, kept, faults, evidenceVars>>

\* The time to live of the approval, or the workspace's expiry, passes.
Expire(c) ==
    /\ c \in Disturbed /\ approval[c] = "issued"
    /\ approval' = [approval EXCEPT ![c] = "expired"]
    /\ UNCHANGED <<config, standing, active, pc, runner, slots, bound, consumed, locked,
                   cancelled, verified, live, kept, faults, evidenceVars>>

\* revoke_call needs the approval row, which an open gate has locked.
RevokeCall(c) ==
    /\ c \in Disturbed /\ approval[c] \in {"issued", "expired"}
    /\ c \notin locked
    /\ approval' = [approval EXCEPT ![c] = "revoked"]
    /\ UNCHANGED <<config, standing, active, pc, runner, slots, bound, consumed, locked,
                   cancelled, verified, live, kept, faults, evidenceVars>>

\* The owner is deactivated, leaves a workspace or a policy gets a new version:
\* each of these writes a row that every open gate has locked for sharing.
Withdraw ==
    /\ standing
    /\ locked = {}
    /\ standing' = FALSE
    /\ UNCHANGED <<config, active, pc, runner, slots, bound, approval, consumed, locked,
                   cancelled, verified, live, kept, faults, evidenceVars>>

AssetFreeMutant(r) == TRUE
AssetFree(r) == \A c \in locked : r \notin Evidence[c]

\* A newer version of the document becomes the active one.
Supersede(r) ==
    /\ r \in active
    /\ AssetFree(r)
    /\ active' = active \ {r}
    /\ UNCHANGED <<config, standing, pc, runner, slots, bound, approval, consumed, locked,
                   cancelled, verified, live, kept, faults, evidenceVars>>

\* Approvals and reviews lock the asset row for update.
ReviewEvidence(r) == AssetFree(r) /\ EvidenceStep(r) /\ UNCHANGED callVars

\* The settings of the runner or the bytes of its executable change.
Reconfigure ==
    /\ \E k \in Configs \ {config} : config' = k
    /\ Spend
    /\ UNCHANGED <<standing, active, pc, runner, slots, bound, approval, consumed, locked,
                   cancelled, verified, live, kept, evidenceVars>>

\* The database ends the gate's session under a call that goes on.
LoseSession(c) ==
    /\ c \in locked
    /\ Spend
    /\ locked' = locked \ {c}
    /\ UNCHANGED <<config, standing, active, pc, runner, slots, bound, approval, consumed,
                   cancelled, verified, live, kept, evidenceVars>>

\* The host dies: its sessions end, its job objects are closed, which ends the
\* processes assigned to them, and the slot rows stay.
Crash ==
    LET running == {c \in Calls : pc[c] \notin {"idle", "done", "dead"}}
    IN /\ running # {}
       /\ Spend
       /\ pc' = [c \in Calls |-> IF c \in running THEN "dead" ELSE pc[c]]
       /\ locked' = {}
       /\ kept' = kept \cup (running \cap SlotRows)
       /\ live' \in SUBSET live
       /\ UNCHANGED <<config, standing, active, runner, slots, bound, approval, consumed,
                      cancelled, verified, evidenceVars>>

-----------------------------------------------------------------------------
CallStep(c) ==
    \/ Begin(c) \/ Acquire(c) \/ IssueRequest(c) \/ IssueCall(c) \/ OpenGate(c) \/ Consume(c)
    \/ Prepare(c) \/ PrepareFails(c) \/ Launch(c) \/ NotLaunched(c) \/ Terminated(c)
    \/ Audit(c) \/ Complete(c)

CallFault(c) ==
    \/ AcquireLost(c) \/ IssueLost(c) \/ ConsumeFails(c) \/ Unconfirmed(c) \/ CompleteFails(c)
    \/ LoseSession(c)

Next ==
    \/ \E c \in Calls : CallStep(c) \/ CallFault(c) \/ Cancel(c) \/ Expire(c) \/ RevokeCall(c)
    \/ \E r \in Revisions : Supersede(r) \/ ReviewEvidence(r)
    \/ Withdraw
    \/ Reconfigure
    \/ Crash

\* A call that has begun is carried on by its event loop, and its process ends
\* by the runner's own timeout.
Progress(c) == pc[c] # "idle" /\ CallStep(c)

Spec == Init /\ [][Next]_vars /\ \A c \in Calls : WF_vars(Progress(c))

-----------------------------------------------------------------------------
\* No runner has more slot rows than its settings allow, whichever settings
\* the rows were made under (acquire), and whatever may still be running has a
\* row: crashes, lost answers and unconfirmed terminations never make room for
\* another process (complete).
SlotLimit == \A c \in SlotRows : Cardinality(SlotRows) <= MaxConcurrent[slots[c]]
EveryProcessHasSlot == live \subseteq SlotRows
ProcessesAreBounded == SlotLimit /\ EveryProcessHasSlot

\* As long as its gate's session lasts, a call that is about to start or is
\* running its process is entitled to it: the approval is consumed and not
\* revoked, and the evidence it sends is approved in the very generation the
\* approval was issued for (CodexExecutionGate.run, locked_snapshot).
RunningIsAuthorized ==
    \A c \in locked :
        pc[c] \in {"prepare", "invoke", "running"} =>
            /\ c \in consumed
            /\ approval[c] # "revoked"
            /\ Entitled(c)
            /\ CurrentIntent(c).generation = bound[c].generation

\* A slot is given back unless the call met a fault or was not seen to end its
\* process (execute, _owned).
SlotsReturn ==
    \A c \in Calls : (slots[c] # None) ~> (slots[c] = None \/ c \in kept)

=============================================================================
