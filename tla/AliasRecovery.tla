---------------------------- MODULE AliasRecovery ----------------------------
(***************************************************************************)
(* The alias journal of labs/rag/indexing and the recovery of operations   *)
(* whose end is unknown.                                                   *)
(*                                                                         *)
(* A change of a search alias is journalled on its own connection: an      *)
(* operation is reserved, its transmission is committed (dispatching) and  *)
(* it is closed only when the server acknowledged and the alias was read   *)
(* back.  Anything else leaves it open, and one open operation blocks its  *)
(* alias.  An owner then freezes the gate of the cluster on that operation *)
(* and closes it: as not_dispatched by a compare-and-set on the phase, or  *)
(* as recovered_terminated after every client is gone and the server was   *)
(* stopped and started again, which is what ends a request in flight.      *)
(*                                                                         *)
(* The callers are application processes, the sessions are runs of the     *)
(* operator's command line; all of them interleave and may die anywhere.   *)
(***************************************************************************)
EXTENDS Naturals, FiniteSets

CONSTANTS
    Ops,            \* operations of the journal
    Aliases,        \* the names they change
    Requests,       \* recovery requests an operator names
    Sessions,       \* command-line processes
    None,
    MaxRevision,    \* bound: revisions the gate takes
    MaxLife         \* bound: incarnations of the server

ASSUME AliasConstants ==
    /\ None \notin Ops \cup Requests
    /\ MaxRevision \in Nat \ {0}
    /\ MaxLife \in Nat \ {0}

VARIABLES
    target,     \* alias of each operation
    phase,      \* journal: phase of the operation ("none": not reserved yet)
    result,     \* journal: result code, "none" while the operation is open
    gate,       \* the gate of the cluster with its last claim
    receipt,    \* recovery receipts by request
    caller,     \* the process that runs the operation
    wire,       \* mutations sent that the server may still apply
    live,       \* operation whose targets the alias has
    server,     \* the node: up or not, and its incarnation
    sess        \* recovery commands

journalVars == <<target, phase, result, gate, receipt>>
aliasVars == <<journalVars, caller, wire, live, server, sess>>

Submitted == {"dispatching", "legacy_unknown"}
Running == {"verify", "reserve", "dispatch", "send", "sent", "observe", "finish"}
SessionPc == {"idle", "freeze", "withdraw", "collect", "absent", "check_stop", "stop",
              "check_start", "start", "prove", "revalidate", "close", "release"}

Claim(r, o, p, n) == [request |-> r, op |-> o, phase |-> p, revision |-> n]
Claims == [request : Requests, op : Ops, phase : Submitted \cup {"reserved"},
           revision : 0..MaxRevision]
NoClaim == [request |-> None, op |-> None, phase |-> "none", revision |-> 0]
Idle == [pc |-> "idle", claim |-> NoClaim, life |-> 0]

Init ==
    /\ target \in [Ops -> Aliases]
    \* rows written before the phases existed are legacy_unknown; their process is gone
    /\ phase \in [Ops -> {"none", "legacy_unknown"}]
    /\ \A o, p \in Ops : target[o] = target[p] /\ phase[o] # "none" /\ phase[p] # "none" => o = p
    /\ result = [o \in Ops |-> "none"]
    /\ gate = [state |-> "admitted", claim |-> NoClaim]
    /\ receipt = [r \in Requests |-> [code |-> "none", claim |-> NoClaim]]
    /\ caller = [o \in Ops |-> IF phase[o] = "none" THEN "idle" ELSE "ended"]
    /\ wire \in SUBSET {o \in Ops : phase[o] = "legacy_unknown"}
    /\ live = [a \in Aliases |-> None]
    /\ server = [up |-> TRUE, life |-> 1]
    /\ sess = [s \in Sessions |-> Idle]

Open(o) == phase[o] # "none" /\ result[o] = "none"
Busy(a) == \E o \in Ops : target[o] = a /\ Open(o)

------------------------------------------------------------------------------
(* run_alias_operation: the callers *)

\* A process starts and is admitted to the cluster in two reads (AccessEpoch says when).
CallerStarts(o) ==
    /\ caller[o] = "idle"
    /\ caller' = [caller EXCEPT ![o] = "verify"]
    /\ UNCHANGED <<journalVars, wire, live, server, sess>>

CallerAdmitted(o) ==
    /\ caller[o] = "verify"
    /\ caller' = [caller EXCEPT ![o] = "reserve"]
    /\ UNCHANGED <<journalVars, wire, live, server, sess>>

\* reserve: under the gate's row lock, and one open operation per alias.
Reserve(o) ==
    /\ caller[o] = "reserve"
    /\ server.up
    /\ gate.state = "admitted"
    /\ ~Busy(target[o])
    /\ phase' = [phase EXCEPT ![o] = "reserved"]
    /\ caller' = [caller EXCEPT ![o] = "dispatch"]
    /\ UNCHANGED <<target, result, gate, receipt, wire, live, server, sess>>

DispatchMutant(o) ==
    /\ caller[o] = "dispatch"
    /\ phase' = [phase EXCEPT ![o] = "dispatching"]
    /\ caller' = [caller EXCEPT ![o] = "send"]
    /\ UNCHANGED <<target, result, gate, receipt, wire, live, server, sess>>

\* dispatch: the one-way boundary, committed before the mutation is sent.
Dispatch(o) ==
    /\ caller[o] = "dispatch"
    /\ gate.state = "admitted"
    /\ Open(o) /\ phase[o] = "reserved"
    /\ phase' = [phase EXCEPT ![o] = "dispatching"]
    /\ caller' = [caller EXCEPT ![o] = "send"]
    /\ UNCHANGED <<target, result, gate, receipt, wire, live, server, sess>>

\* mutate: the request leaves, and the server applies it now or later.
Send(o) ==
    /\ caller[o] = "send"
    /\ server.up
    /\ wire' = wire \cup {o}
    /\ caller' = [caller EXCEPT ![o] = "sent"]
    /\ UNCHANGED <<journalVars, live, server, sess>>

Apply(o) ==
    /\ o \in wire /\ server.up
    /\ wire' = wire \ {o}
    /\ live' = [live EXCEPT ![target[o]] = o]
    /\ caller' = [caller EXCEPT ![o] = IF @ = "sent" THEN "observe" ELSE @]
    /\ UNCHANGED <<journalVars, server, sess>>

Observe(o) ==
    /\ caller[o] = "observe"
    /\ server.up
    /\ live[target[o]] = o
    /\ caller' = [caller EXCEPT ![o] = "finish"]
    /\ UNCHANGED <<journalVars, wire, live, server, sess>>

\* finish: a row that is closed already is left as it is.
Finish(o) ==
    /\ caller[o] = "finish"
    /\ result' = [result EXCEPT ![o] =
                    IF @ = "none" /\ phase[o] \in Submitted THEN "confirmed" ELSE @]
    /\ caller' = [caller EXCEPT ![o] = "ended"]
    /\ UNCHANGED <<target, phase, gate, receipt, wire, live, server, sess>>

\* A refusal, an error, a lost answer, a cancellation or a crash: the operation stays as it is.
CallerEnds(o) ==
    /\ caller[o] \in Running
    /\ caller' = [caller EXCEPT ![o] = "ended"]
    /\ UNCHANGED <<journalVars, wire, live, server, sess>>

------------------------------------------------------------------------------
(* SqlAlchemyAliasRecoveryRepository: the transactions *)

\* _exact_gate
ExactGate(c) == gate.claim = c
FrozenFor(c) == ExactGate(c) /\ gate.state = "frozen"

\* readback: the claim of a request on an operation, from its receipt or from the gate.
ReadClaim(r, o) ==
    LET c == IF receipt[r].code # "none" THEN receipt[r].claim ELSE gate.claim
    IN  IF c.request = r /\ c.op = o /\ c.phase = phase[o] THEN c ELSE NoClaim

\* close: the receipt and the end of the operation, one transaction.
CloseAdmits(c, code) ==
    /\ phase[c.op] = c.phase
    /\ receipt[c.request].code = "none"
    /\ FrozenFor(c)
    /\ Open(c.op)
    /\ code = "not_dispatched" => c.phase = "reserved"
    /\ code = "recovered_terminated" => c.phase \in Submitted

Record(c, code) ==
    /\ receipt' = [receipt EXCEPT ![c.request] = [code |-> code, claim |-> c]]
    /\ result' = [result EXCEPT ![c.op] = code]

Step(s, pc) == sess' = [sess EXCEPT ![s] = [pc |-> pc, claim |-> @.claim, life |-> @.life]]

------------------------------------------------------------------------------
(* The operator's commands *)

\* freeze, first half: preview and readback, in transactions of their own.  (A request that finds
\* its own claim in force is answered with it and changes nothing.)
Preview(s, r, o) ==
    /\ sess[s].pc = "idle"
    /\ phase[o] # "none"
    /\ gate.state = "admitted"
    /\ sess' = [sess EXCEPT ![s] =
                  [pc |-> "freeze", claim |-> Claim(r, o, phase[o], 0), life |-> 0]]
    /\ UNCHANGED <<journalVars, caller, wire, live, server>>

\* freeze, second half: the definitive compare-and-set.  A repeated request finds its own claim.
Freeze(s) ==
    LET c == sess[s].claim
        n == gate.claim.revision + 1
    IN  /\ sess[s].pc = "freeze"
        /\ phase[c.op] = c.phase
        /\ receipt[c.request].code = "none"
        /\ gate.claim.request # c.request
        /\ gate.state = "admitted"
        /\ Open(c.op)
        /\ n <= MaxRevision
        /\ gate' = [state |-> "frozen", claim |-> Claim(c.request, c.op, c.phase, n)]
        /\ sess' = [sess EXCEPT ![s] = Idle]
        /\ UNCHANGED <<target, phase, result, receipt, caller, wire, live, server>>

\* recover: the claim is read back; the phase decides how the operation is ended.
Recover(s, r, o) ==
    LET c == ReadClaim(r, o)
    IN  /\ sess[s].pc = "idle"
        /\ c # NoClaim
        /\ receipt[r].code = "none" /\ result[o] # "confirmed"
        /\ c.phase \in Submitted => gate.state = "frozen"
        /\ sess' = [sess EXCEPT ![s] =
                      [pc |-> IF c.phase = "reserved" THEN "withdraw" ELSE "collect",
                       claim |-> c, life |-> 0]]
        /\ UNCHANGED <<journalVars, caller, wire, live, server>>

CloseNotDispatched(s) ==
    /\ sess[s].pc = "withdraw"
    /\ CloseAdmits(sess[s].claim, "not_dispatched")
    /\ Record(sess[s].claim, "not_dispatched")
    /\ sess' = [sess EXCEPT ![s] = Idle]
    /\ UNCHANGED <<target, phase, gate, caller, wire, live, server>>

\* release: only the exact claim, only a closed operation, confirmed or with its receipt.
ReadRelease(s, r, o) ==
    /\ sess[s].pc = "idle"
    /\ ReadClaim(r, o) # NoClaim
    /\ result[o] # "none"
    /\ receipt[r].code # "none" \/ result[o] = "confirmed"
    /\ sess' = [sess EXCEPT ![s] = [pc |-> "release", claim |-> ReadClaim(r, o), life |-> 0]]
    /\ UNCHANGED <<journalVars, caller, wire, live, server>>

Release(s) ==
    LET c == sess[s].claim
    IN  /\ sess[s].pc = "release"
        /\ ExactGate(c)
        /\ phase[c.op] = c.phase
        /\ result[c.op] # "none"
        /\ result[c.op] # "confirmed" => receipt[c.request].code # "none"
                                         /\ receipt[c.request].claim = c
        /\ gate' = [state |-> "admitted", claim |-> gate.claim]
        /\ sess' = [sess EXCEPT ![s] = Idle]
        /\ UNCHANGED <<target, phase, result, receipt, caller, wire, live, server>>

\* A refusal, an unknown commit or the end of the process: nothing is undone.
SessionEnds(s) ==
    /\ sess[s].pc # "idle"
    /\ sess' = [sess EXCEPT ![s] = Idle]
    /\ UNCHANGED <<journalVars, caller, wire, live, server>>

------------------------------------------------------------------------------
(* LocalTerminationCollector: the controlled restart *)

\* _gate: the claim still freezes the cluster, on an open operation.
GateHolds(s) ==
    LET c == sess[s].claim
    IN  /\ receipt[c.request].code = "none"
        /\ FrozenFor(c)
        /\ phase[c.op] = c.phase
        /\ Open(c.op) /\ c.phase \in Submitted

ClientsAbsentMutant == TRUE

ClientsAbsent == \A o \in Ops : caller[o] \notin Running
SameServer(s) == server.up /\ server.life = sess[s].life

Identify(s) ==
    /\ sess[s].pc = "collect"
    /\ GateHolds(s)
    /\ server.up
    /\ sess' = [sess EXCEPT ![s] = [pc |-> "absent", claim |-> @.claim, life |-> server.life]]
    /\ UNCHANGED <<journalVars, caller, wire, live, server>>

ObserveClients(s) ==
    /\ sess[s].pc = "absent"
    /\ ClientsAbsent
    /\ Step(s, "check_stop")
    /\ UNCHANGED <<journalVars, caller, wire, live, server>>

CheckStop(s) ==
    /\ sess[s].pc = "check_stop"
    /\ GateHolds(s)
    /\ Step(s, "stop")
    /\ UNCHANGED <<journalVars, caller, wire, live, server>>

\* stop: what was sent to the incarnation that ends is never applied.
Stop(s) ==
    /\ sess[s].pc = "stop"
    /\ SameServer(s)
    /\ server' = [up |-> FALSE, life |-> server.life]
    /\ wire' = {}
    /\ Step(s, "check_start")
    /\ UNCHANGED <<journalVars, caller, live>>

CheckStart(s) ==
    /\ sess[s].pc = "check_start"
    /\ GateHolds(s)
    /\ Step(s, "start")
    /\ UNCHANGED <<journalVars, caller, wire, live, server>>

Start(s) ==
    /\ sess[s].pc = "start"
    /\ ~server.up
    /\ server.life < MaxLife
    /\ server' = [up |-> TRUE, life |-> server.life + 1]
    /\ sess' = [sess EXCEPT ![s] =
                  [pc |-> "prove", claim |-> @.claim, life |-> server.life + 1]]
    /\ UNCHANGED <<journalVars, caller, wire, live>>

\* The end of collect_verified_end: clients absent and the claim in force, again.
Prove(s) ==
    /\ sess[s].pc = "prove"
    /\ ClientsAbsent
    /\ GateHolds(s)
    /\ Step(s, "revalidate")
    /\ UNCHANGED <<journalVars, caller, wire, live, server>>

Revalidate(s) ==
    /\ sess[s].pc = "revalidate"
    /\ GateHolds(s)
    /\ SameServer(s)
    /\ ClientsAbsent
    /\ Step(s, "close")
    /\ UNCHANGED <<journalVars, caller, wire, live, server>>

CloseTerminated(s) ==
    /\ sess[s].pc = "close"
    /\ CloseAdmits(sess[s].claim, "recovered_terminated")
    /\ Record(sess[s].claim, "recovered_terminated")
    /\ sess' = [sess EXCEPT ![s] = Idle]
    /\ UNCHANGED <<target, phase, gate, caller, wire, live, server>>

------------------------------------------------------------------------------
(* The node outside of this code: it may die, and its operator starts it again *)

ServerDies ==
    /\ server.up
    /\ server' = [up |-> FALSE, life |-> server.life]
    /\ wire' = {}
    /\ UNCHANGED <<journalVars, caller, live, sess>>

OperatorStarts ==
    /\ ~server.up
    /\ server.life < MaxLife
    /\ server' = [up |-> TRUE, life |-> server.life + 1]
    /\ UNCHANGED <<journalVars, caller, wire, live, sess>>

------------------------------------------------------------------------------
\* Steps whose guards do not depend on the deployment behind the cluster; AccessEpoch adds
\* CallerStarts, CallerAdmitted, Identify, Start and OperatorStarts with the guards that do.
CallerNext(o) ==
    \/ Reserve(o) \/ Dispatch(o) \/ Send(o) \/ Apply(o) \/ Observe(o) \/ Finish(o)
    \/ CallerEnds(o)

SessionNext(s) ==
    \/ \E r \in Requests, o \in Ops : Preview(s, r, o) \/ Recover(s, r, o) \/ ReadRelease(s, r, o)
    \/ Freeze(s) \/ CloseNotDispatched(s) \/ Release(s) \/ SessionEnds(s)
    \/ ObserveClients(s) \/ CheckStop(s) \/ Stop(s) \/ CheckStart(s)
    \/ Prove(s) \/ Revalidate(s) \/ CloseTerminated(s)

------------------------------------------------------------------------------
(* Properties *)

AliasTypeOK ==
    /\ target \in [Ops -> Aliases]
    /\ phase \in [Ops -> {"none", "reserved"} \cup Submitted]
    /\ result \in [Ops -> {"none", "confirmed", "not_dispatched", "recovered_terminated"}]
    /\ gate \in [state : {"admitted", "frozen"}, claim : Claims \cup {NoClaim}]
    /\ receipt \in [Requests -> [code : {"none", "not_dispatched", "recovered_terminated"},
                                 claim : Claims \cup {NoClaim}]]
    /\ caller \in [Ops -> Running \cup {"idle", "ended"}]
    /\ wire \in SUBSET Ops
    /\ live \in [Aliases -> Ops \cup {None}]
    /\ server \in [up : BOOLEAN, life : 0..MaxLife]
    /\ sess \in [Sessions -> [pc : SessionPc, claim : Claims \cup {NoClaim}, life : 0..MaxLife]]

\* The promise of the journal (alias_journal.dispatch, alias_recovery_repository.close): once an
\* operation is closed, whoever closed it, nothing of it is on the way to the server and no process
\* is left that would still send it.
ClosedIsOver ==
    \A o \in Ops : result[o] # "none" =>
        /\ o \notin wire
        /\ caller[o] \notin {"send", "sent", "observe", "finish"}

\* An alias moves only to the one operation that is open on it: a late request of an operation that
\* was given up never overwrites what a later operation confirmed (run_alias_operation).
OnlyOpenMoves ==
    [][\A a \in Aliases : live'[a] # live[a] =>
         {o \in Ops : target[o] = a /\ Open(o)} = {live'[a]}]_live
==============================================================================
