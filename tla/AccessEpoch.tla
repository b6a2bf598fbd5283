----------------------------- MODULE AccessEpoch -----------------------------
(***************************************************************************)
(* The cutover of the search cluster to a secured deployment, which is the *)
(* other way to end an alias operation with an unknown end.                *)
(*                                                                         *)
(* A controller (LocalAccessEpochController over the native control port)  *)
(* takes twelve actions in a fixed order: it ends the registered           *)
(* applications, stops and removes the original container, brings up a     *)
(* bootstrap container, issues the role keys, replaces it by the secured   *)
(* container and verifies that one.  Every action is reserved in the       *)
(* database, its command recorded in a protected journal, run once and     *)
(* settled from what is observed afterwards; an action with an unknown end *)
(* is only ever looked at again.  A named mutex admits one controller.     *)
(* Then the private anchor, the floor in the database and the receipt are  *)
(* written, and applications are admitted to the secured deployment only.  *)
(*                                                                         *)
(* The module composes the cutover with the alias journal, its command     *)
(* line and the role keys.                                                 *)
(***************************************************************************)
EXTENDS AliasRecovery, RoleKeys

CONSTANT Controllers    \* processes that drive the cutover

\* The two states of a mutex without a holder are no processes.
ASSUME ControllerConstants == None \notin Controllers /\ "abandoned" \notin Controllers

VARIABLES
    epoch,      \* the row of rag_access_epochs: its claim and phase
    done,       \* number of settled actions
    last,       \* outcome of the action after them: none, pending or unknown
    record,     \* journal record of that action
    submitted,  \* history: how often the command of an action was run
    inflight,   \* commands that may still be carried out
    applied,    \* actions that took effect
    apps,       \* allowlist of the application processes to end
    anchor,     \* the floor in the private store
    floor,      \* the floor in the database
    lock,       \* the named mutex
    ctl,        \* controllers
    store       \* deployment a process found in the database

epochVars == <<epoch, done, last, record, apps, anchor, floor, lock, ctl, store>>
commandVars == <<submitted, inflight, applied>>
cutoverVars == <<epochVars, commandVars>>
vars == <<aliasVars, keyVars, cutoverVars>>

\* CutoverActionKind, in CUTOVER_ORDER
STOP_REGISTERED_APPS == 1
STOP_OLD == 2
RETIRE_OLD == 3
START_BOOTSTRAP == 5
ISSUE_ROLE_KEY == 8
STOP_BOOTSTRAP == 9
RETIRE_BOOTSTRAP == 10
START_SECURED == 11
VERIFY_ACCESS == 12
Kinds == 1..VERIFY_ACCESS

NoEpoch == [claim |-> NoClaim, phase |-> "none"]
Fresh == [pc |-> "idle", prepared |-> 0, inventory |-> FALSE]

EpochInit ==
    /\ Init /\ KeyInit
    /\ epoch = NoEpoch /\ done = 0 /\ last = "none" /\ record = "none"
    /\ submitted = [k \in Kinds |-> 0] /\ inflight = {} /\ applied = {} /\ apps = {}
    /\ anchor = FALSE /\ floor = FALSE
    /\ lock = None
    /\ ctl = [c \in Controllers |-> Fresh]
    /\ store = [o \in Ops |-> IF caller[o] = "idle" THEN "none" ELSE "original"]

Original == RETIRE_OLD \notin applied
Secured == START_SECURED \in applied
Bootstrap == START_BOOTSTRAP \in applied /\ STOP_BOOTSTRAP \notin applied
Current == done + 1
Finished == epoch.phase \in {"verified", "receipted"}

\* _locked: the claim is still the gate's, and frozen unless its operation is closed.
Locked ==
    /\ epoch # NoEpoch
    /\ ExactGate(epoch.claim)
    /\ Open(epoch.claim.op) => gate.state = "frozen"

\* NativeControlContext.revalidate, under the mutex.
Owned(c) ==
    /\ lock = c
    /\ Locked
    /\ Open(epoch.claim.op)
    /\ receipt[epoch.claim.request].code = "none"

To(c, pc) == ctl' = [ctl EXCEPT ![c].pc = pc]

------------------------------------------------------------------------------
(* Acquisition *)

\* SqlAlchemyAccessEpochRepository.acquire, after the preflight of the original container.
AcquireEpoch(c) ==
    /\ ctl[c].pc = "idle"
    /\ epoch = NoEpoch
    /\ gate.state = "frozen" /\ gate.claim.phase \in Submitted
    /\ Open(gate.claim.op) /\ receipt[gate.claim.request].code = "none"
    /\ server.up
    /\ epoch' = [claim |-> gate.claim, phase |-> "prepared"]
    /\ UNCHANGED <<aliasVars, keyVars, commandVars, done, last, record, apps, anchor, floor,
                   lock, ctl, store>>

\* Port acquire, first half: a process that was not there from the start is not supported.
ReadNoActions(c) ==
    /\ ctl[c].pc = "idle"
    /\ Locked /\ Open(epoch.claim.op) /\ receipt[epoch.claim.request].code = "none"
    /\ done = 0 /\ last = "none"
    /\ To(c, "lock")
    /\ UNCHANGED <<aliasVars, keyVars, commandVars, epoch, done, last, record, apps, anchor,
                   floor, lock, store>>

\* Port acquire, second half: the mutex is taken, busy, or found abandoned, released and refused.
TakeLock(c) ==
    /\ ctl[c].pc = "lock"
    /\ IF lock = None
       THEN lock' = c /\ To(c, "held")
       ELSE lock' = (IF lock = "abandoned" THEN None ELSE lock) /\ To(c, "idle")
    /\ UNCHANGED <<aliasVars, keyVars, commandVars, epoch, done, last, record, apps, anchor,
                   floor, store>>

------------------------------------------------------------------------------
(* One action: expected, reserve, execute, settle *)

\* expected: once per kind and process; from the bootstrap container on only by the process that
\* holds the inventory of the original one.
Expected(c) ==
    /\ ctl[c].pc = "held" /\ Owned(c)
    /\ last = "none" /\ done < VERIFY_ACCESS /\ ~Finished
    /\ ctl[c].prepared < Current
    /\ Current >= START_BOOTSTRAP => ctl[c].inventory
    /\ ctl' = [ctl EXCEPT ![c].pc = "reserve", ![c].prepared = Current]
    /\ apps' = IF Current = STOP_REGISTERED_APPS THEN {o \in Ops : caller[o] \in Running} ELSE apps
    /\ UNCHANGED <<aliasVars, keyVars, commandVars, epoch, done, last, record, anchor, floor,
                   lock, store>>

\* reserve_action: a compare-and-set on the sequence; its answer may be lost.
ReserveAction(c) ==
    /\ ctl[c].pc = "reserve" /\ lock = c
    /\ Locked /\ ~Finished
    /\ last = "none" /\ ctl[c].prepared = Current
    /\ last' = "pending"
    /\ \E pc \in {"execute", "held"} : To(c, pc)
    /\ UNCHANGED <<aliasVars, keyVars, commandVars, epoch, done, record, apps, anchor, floor,
                   lock, store>>

\* execute: the reservation is read back and the intent recorded.  The inventory of the original
\* container is captured before it is stopped.
Execute(c) ==
    /\ ctl[c].pc = "execute" /\ Owned(c)
    /\ last = "pending" /\ record = "none"
    /\ record' = "intent"
    /\ ctl' = [ctl EXCEPT ![c].pc = IF Current = ISSUE_ROLE_KEY THEN "keys" ELSE "run",
                          ![c].inventory = @ \/ Current = STOP_OLD]
    /\ UNCHANGED <<aliasVars, keyVars, commandVars, epoch, done, last, apps, anchor, floor,
                   lock, store>>

\* RecordedOriginalControlProcess.run and its siblings: the process is recorded, then resumed.
RunCommand(c) ==
    /\ ctl[c].pc = "run" /\ lock = c
    /\ record = "intent"
    /\ record' = "created"
    /\ submitted[Current] < 2
    /\ submitted' = [submitted EXCEPT ![Current] = @ + 1]
    /\ inflight' = inflight \cup {Current}
    /\ To(c, "wait")
    /\ UNCHANGED <<aliasVars, keyVars, applied, epoch, done, last, apps, anchor, floor, lock,
                   store>>

\* wait: the command ended in time; one that failed is never settled.
WaitDone(c) ==
    /\ ctl[c].pc = "wait" /\ lock = c
    /\ record = "created" /\ Current \notin inflight
    /\ IF Current \in applied
       THEN record' = "finished" /\ To(c, "observe")
       ELSE record' = "unknown" /\ To(c, "held")
    /\ UNCHANGED <<aliasVars, keyVars, commandVars, epoch, done, last, apps, anchor, floor,
                   lock, store>>

\* A timeout or an error cuts the command off; it may still be carried out.
CutOff(c) ==
    /\ ctl[c].pc \in {"run", "wait"} /\ lock = c
    /\ record' = "unknown"
    /\ To(c, "held")
    /\ UNCHANGED <<aliasVars, keyVars, commandVars, epoch, done, last, apps, anchor, floor,
                   lock, store>>

\* The state an action must have left behind.
Seen(k) ==
    /\ k \in applied
    /\ k \in {STOP_OLD, STOP_BOOTSTRAP} => ~server.up
    /\ k \in {START_BOOTSTRAP, START_SECURED} => server.up

\* OriginalDaemonSettlement.observe and its siblings.
ObserveEnd(c) ==
    /\ ctl[c].pc = "observe" /\ Owned(c)
    /\ last # "none" /\ record = "finished" /\ Seen(Current)
    /\ To(c, "settle")
    /\ UNCHANGED <<aliasVars, keyVars, commandVars, epoch, done, last, record, apps, anchor,
                   floor, lock, store>>

\* settle_action with "settled": one transaction.
Settle(c) ==
    /\ ctl[c].pc = "settle" /\ lock = c
    /\ Locked /\ last # "none"
    /\ Current = ISSUE_ROLE_KEY => KeysComplete
    /\ done' = Current /\ last' = "none" /\ record' = "none"
    /\ epoch' = [epoch EXCEPT !.phase = CASE Current = STOP_OLD -> "old_stopped"
                                          [] Current = RETIRE_OLD -> "old_retired"
                                          [] Current = START_SECURED -> "secured_started"
                                          [] OTHER -> @]
    /\ To(c, "held")
    /\ UNCHANGED <<aliasVars, keyVars, commandVars, apps, anchor, floor, lock, store>>

ReconcileMutant(c) ==
    /\ ctl[c].pc = "held" /\ Owned(c)
    /\ last # "none"
    /\ record' = "intent" /\ To(c, "run")
    /\ UNCHANGED <<aliasVars, keyVars, commandVars, epoch, done, last, apps, anchor, floor,
                   lock, store>>

\* reconcile: an unsettled action is observed again, by a process that still has what it needs.
Reconcile(c) ==
    /\ ctl[c].pc = "held" /\ Owned(c)
    /\ last # "none"
    /\ Current = STOP_REGISTERED_APPS => ctl[c].prepared >= Current
    /\ Current = STOP_OLD \/ Current >= START_BOOTSTRAP => ctl[c].inventory
    /\ \/ Current # ISSUE_ROLE_KEY /\ record = "finished" /\ To(c, "observe")
       \/ Current = ISSUE_ROLE_KEY /\ record # "none" /\ To(c, "keys")
    /\ UNCHANGED <<aliasVars, keyVars, commandVars, epoch, done, last, record, apps, anchor,
                   floor, lock, store>>

\* An error or a refused check ends advance; the process keeps the mutex and may call it again.
AdvanceFails(c) ==
    /\ ctl[c].pc \in {"reserve", "execute", "observe", "settle", "unresolved", "verify"}
    /\ To(c, "held")
    /\ UNCHANGED <<aliasVars, keyVars, commandVars, epoch, done, last, record, apps, anchor,
                   floor, lock, store>>

------------------------------------------------------------------------------
(* The group of role keys, inside its action *)

KeyStep(c) ==
    /\ ctl[c].pc = "keys" /\ Owned(c)
    /\ KeyGroupNext
    /\ UNCHANGED <<aliasVars, cutoverVars>>

KeysDone(c) ==
    /\ ctl[c].pc = "keys" /\ Owned(c)
    /\ KeysComplete
    /\ applied' = applied \cup {ISSUE_ROLE_KEY}
    /\ To(c, "settle")
    /\ UNCHANGED <<aliasVars, keyVars, submitted, inflight, epoch, done, last, record, apps,
                   anchor, floor, lock, store>>

\* advance of the group stopped: the first time this is settled as unknown.
KeysUnresolved(c) ==
    /\ ctl[c].pc = "keys" /\ lock = c
    /\ ~KeysComplete
    /\ \E pc \in {"held"} \cup (IF last = "pending" THEN {"unresolved"} ELSE {}) : To(c, pc)
    /\ UNCHANGED <<aliasVars, keyVars, commandVars, epoch, done, last, record, apps, anchor,
                   floor, lock, store>>

SettleUnknown(c) ==
    /\ ctl[c].pc = "unresolved" /\ lock = c
    /\ Locked /\ last = "pending"
    /\ last' = "unknown"
    /\ To(c, "held")
    /\ UNCHANGED <<aliasVars, keyVars, commandVars, epoch, done, record, apps, anchor, floor,
                   lock, store>>

------------------------------------------------------------------------------
(* The end of the cutover *)

CommitAnchor(c) ==
    /\ ctl[c].pc = "held" /\ Owned(c)
    /\ done = VERIFY_ACCESS /\ ~Finished
    /\ server.up
    /\ anchor' = TRUE
    /\ To(c, "verify")
    /\ UNCHANGED <<aliasVars, keyVars, commandVars, epoch, done, last, record, apps, floor,
                   lock, store>>

MarkVerified(c) ==
    /\ ctl[c].pc = "verify" /\ lock = c
    /\ Locked /\ epoch.phase = "secured_started"
    /\ done = VERIFY_ACCESS /\ anchor
    /\ floor' = TRUE
    /\ epoch' = [epoch EXCEPT !.phase = "verified"]
    /\ To(c, "held")
    /\ UNCHANGED <<aliasVars, keyVars, commandVars, done, last, record, apps, anchor, lock,
                   store>>

\* recover_access_epoch of a verified epoch: no mutex is needed; close_access_epoch decides.
CloseEpoch(c) ==
    /\ ctl[c].pc \in {"idle", "held"}
    /\ epoch.phase = "verified"
    /\ Locked /\ Open(epoch.claim.op) /\ receipt[epoch.claim.request].code = "none"
    /\ server.up
    /\ Record(epoch.claim, "recovered_terminated")
    /\ epoch' = [epoch EXCEPT !.phase = "receipted"]
    /\ UNCHANGED <<target, phase, gate, caller, wire, live, server, sess, keyVars, commandVars,
                   done, last, record, apps, anchor, floor, lock, ctl, store>>

\* close, or the death of the process; a dead holder's mutex may be found abandoned.
ControllerEnds(c) ==
    /\ ctl[c].pc # "idle"
    /\ ctl' = [ctl EXCEPT ![c] = Fresh]
    /\ lock' \in IF lock = c THEN {None, "abandoned"} ELSE {lock}
    /\ UNCHANGED <<aliasVars, keyVars, commandVars, epoch, done, last, record, apps, anchor,
                   floor, store>>

------------------------------------------------------------------------------
(* The operating system and the container daemon *)

\* A command is carried out, now or after its process was cut off.
Landing(k) ==
    /\ k \in inflight
    /\ k \in {RETIRE_OLD, RETIRE_BOOTSTRAP} => ~server.up
    /\ inflight' = inflight \ {k}
    /\ applied' = applied \cup {k}
    /\ caller' = [o \in Ops |-> IF k = STOP_REGISTERED_APPS /\ o \in apps /\ caller[o] \in Running
                                THEN "ended" ELSE caller[o]]
    /\ server' = CASE k \in {STOP_OLD, STOP_BOOTSTRAP} -> [up |-> FALSE, life |-> server.life]
                   [] k \in {START_BOOTSTRAP, START_SECURED} ->
                        [up |-> TRUE, life |-> server.life + 1]
                   [] OTHER -> server
    /\ server'.life <= MaxLife
    /\ wire' = IF k = STOP_OLD THEN {} ELSE wire
    /\ apps' = {}
    /\ UNCHANGED <<journalVars, live, sess, keyVars, submitted, epoch, done, last, record, anchor,
                   floor, lock, ctl, store>>

\* It fails, or never arrives.
Lost(k) ==
    /\ k \in inflight
    /\ inflight' = inflight \ {k}
    /\ UNCHANGED <<aliasVars, keyVars, submitted, applied, epochVars>>

BootstrapKeys(r) ==
    /\ Bootstrap /\ server.up
    /\ KeyServer(r)
    /\ UNCHANGED <<aliasVars, cutoverVars>>

------------------------------------------------------------------------------
(* AccessEpochAdmission.verify *)

LoadNoneMutant(o) ==
    /\ ~floor
    /\ CallerStarts(o)
    /\ store' = [store EXCEPT ![o] = "original"]
    /\ UNCHANGED <<keyVars, commandVars, epoch, done, last, record, apps, anchor, floor, lock,
                   ctl>>

\* The first read is of the database: there is no floor, and no epoch under way.
LoadNone(o) ==
    /\ epoch = NoEpoch
    /\ CallerStarts(o)
    /\ store' = [store EXCEPT ![o] = "original"]
    /\ UNCHANGED <<keyVars, commandVars, epoch, done, last, record, apps, anchor, floor, lock,
                   ctl>>

\* There is a floor.
LoadFloor(o) ==
    /\ Finished /\ floor
    /\ CallerStarts(o)
    /\ store' = [store EXCEPT ![o] = "secured"]
    /\ UNCHANGED <<keyVars, commandVars, epoch, done, last, record, apps, anchor, floor, lock,
                   ctl>>

\* The second is of the private anchor, which must say the same; then the deployment is probed.
Admit(o) ==
    /\ anchor = (store[o] = "secured")
    /\ store[o] = "secured" => Secured /\ server.up
    /\ CallerAdmitted(o)
    /\ UNCHANGED <<keyVars, cutoverVars>>

------------------------------------------------------------------------------
\* The command line knows the original container only.  (The death of the bootstrap container is
\* that of the commands sent to it: nothing starts it again.)
AliasStep ==
    /\ \/ \E o \in Ops : CallerNext(o)
       \/ \E s \in Sessions : SessionNext(s) \/ (Original /\ (Identify(s) \/ Start(s)))
       \/ (Original \/ Secured) /\ (ServerDies \/ OperatorStarts)
    /\ UNCHANGED <<keyVars, cutoverVars>>

ControllerNext(c) ==
    \/ AcquireEpoch(c) \/ ReadNoActions(c) \/ TakeLock(c)
    \/ Expected(c) \/ ReserveAction(c) \/ Execute(c) \/ RunCommand(c) \/ WaitDone(c)
    \/ CutOff(c) \/ ObserveEnd(c) \/ Settle(c) \/ Reconcile(c) \/ AdvanceFails(c)
    \/ KeyStep(c) \/ KeysDone(c) \/ KeysUnresolved(c) \/ SettleUnknown(c)
    \/ CommitAnchor(c) \/ MarkVerified(c) \/ CloseEpoch(c) \/ ControllerEnds(c)

Next ==
    \/ AliasStep
    \/ \E c \in Controllers : ControllerNext(c)
    \/ \E k \in Kinds : Landing(k) \/ Lost(k)
    \/ \E r \in Roles : BootstrapKeys(r)
    \/ \E o \in Ops : LoadNone(o) \/ LoadFloor(o) \/ Admit(o)

Spec == EpochInit /\ [][Next]_vars

------------------------------------------------------------------------------
(* Properties *)

TypeOK ==
    /\ AliasTypeOK /\ KeyTypeOK
    /\ epoch \in [claim : Claims \cup {NoClaim},
                  phase : {"none", "prepared", "old_stopped", "old_retired", "secured_started",
                           "verified", "receipted"}]
    /\ done \in 0..VERIFY_ACCESS
    /\ last \in {"none", "pending", "unknown"}
    /\ record \in {"none", "intent", "created", "finished", "unknown"}
    /\ submitted \in [Kinds -> 0..2]
    /\ inflight \in SUBSET Kinds /\ applied \in SUBSET Kinds
    /\ apps \in SUBSET Ops
    /\ anchor \in BOOLEAN /\ floor \in BOOLEAN
    /\ lock \in Controllers \cup {None, "abandoned"}
    /\ ctl \in [Controllers -> [pc : {"idle", "lock", "held", "reserve", "execute", "run", "wait",
                                      "observe", "keys", "settle", "unresolved", "verify"},
                                prepared : 0..VERIFY_ACCESS, inventory : BOOLEAN]]
    /\ store \in [Ops -> {"none", "original", "secured"}]

\* The command of an action is run at most once, whatever was lost and whoever takes the cutover
\* over; actions take effect only in their order; and neither the anchor nor the receipt exists
\* before all of them did and nothing is under way any more (ProtectedControlJournal,
\* reserve_action, LocalAccessEpochController.advance).
CutoverInOrder ==
    /\ \A k \in Kinds : submitted[k] <= 1
    /\ \A k \in applied : 1..k \subseteq applied
    /\ anchor \/ floor \/ epoch.phase = "receipted" =>
         applied = Kinds /\ inflight = {} /\ KeysComplete

\* Applications and deployment agree: once the registered applications were ended none of the
\* original deployment is left or comes back, and one of the secured deployment runs only when the
\* floor and the anchor are both there (AccessEpochAdmission.verify, RecordedAppRetirement).
AppsMatchEpoch ==
    \A o \in Ops : caller[o] \in Running =>
        /\ store[o] = "original" => STOP_REGISTERED_APPS \notin applied
        /\ store[o] = "secured" => floor /\ anchor
==============================================================================
