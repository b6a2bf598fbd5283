-------------------------- MODULE AccessEpochProofs --------------------------
(***************************************************************************)
(* Proofs about the alias journal, the role keys and the cutover, for      *)
(* every number of operations, aliases, requests, sessions, controllers    *)
(* and roles.                                                              *)
(*                                                                         *)
(* The inductive invariant has one part per piece of state: what is known  *)
(* of a role's key (KeyInv), of an operation and of the sessions that end  *)
(* it (CallerInv, SessionInv), of the mutex (HolderInv), of the actions    *)
(* and their commands (OrderInv), of the end of the cutover (EndInv) and   *)
(* of the applications (AppsInv).  The journal is safe because of all of   *)
(* them: an operation the cutover closes is over only since its            *)
(* application was ended and the container it wrote to was stopped.        *)
(***************************************************************************)
EXTENDS AccessEpoch, TLAPS

(* The role keys *)

\* A role has at most the key of its latest round.  A command is on the way only while its row is
\* unsettled and the server has not carried it out, and a kept secret is that of an accepted key.
RoleInv(r) ==
    /\ active[r] \subseteq {round[r]}
    /\ \A n \in 1..MaxIssues :
         <<r, "issue", n>> \in posts =>
            n = round[r] /\ issue[r] \in Unsettled /\ active[r] = {}
    /\ \A n \in 1..MaxIssues :
         <<r, "invalidate", n>> \in posts =>
            n = round[r] /\ revoke[r] \in Unsettled /\ n \in active[r]
    /\ revoke[r] = "invalidated" => active[r] = {}
    /\ revoke[r] # "none" => issue[r] = "inaccessible"
    /\ issue[r] = "issued" => round[r] \in active[r] /\ secret[r] = round[r]
    /\ secret[r] # 0 => /\ secret[r] = round[r] /\ round[r] \in active[r]
                        /\ issue[r] \in {"issued", "unknown"}
    /\ issue[r] = "none" => round[r] = 0
    /\ issue[r] # "none" => round[r] # 0

KeyInv == \A r \in Roles : RoleInv(r)

(* The journal *)

\* Where the process of an operation can be, from its row; and what is on the wire is open.
CallerOK(o) ==
    /\ caller[o] \in {"idle", "verify", "reserve"} => phase[o] = "none"
    /\ caller[o] = "dispatch" => phase[o] = "reserved"
    /\ caller[o] \in {"send", "sent", "observe", "finish"} =>
         phase[o] = "dispatching" /\ result[o] = "none"
    /\ phase[o] = "none" => result[o] = "none"
    /\ o \in wire =>
         phase[o] \in Submitted /\ result[o] = "none" /\ caller[o] \in {"sent", "ended"}

CallerInv == \A o \in Ops : CallerOK(o)

\* One open operation per alias.
OneOpen == \A o, p \in Ops : target[o] = target[p] /\ Open(o) /\ Open(p) => o = p

Collecting == {"collect", "absent", "check_stop", "stop", "check_start", "start", "prove",
               "revalidate", "close"}
PastClients == Collecting \ {"collect", "absent"}
PastStop == PastClients \ {"check_stop", "stop"}

\* What a session has found out about its operation stays true until it closes it.
SessionOK(s) ==
    /\ sess[s].pc # "idle" => sess[s].claim \in Claims
    /\ sess[s].pc \in Collecting => phase[sess[s].claim.op] \in Submitted
    /\ sess[s].pc \in PastClients => caller[sess[s].claim.op] = "ended"
    /\ sess[s].pc \in PastStop => sess[s].claim.op \notin wire

SessionInv == \A s \in Sessions : SessionOK(s)

\* A claim on a transmitted operation.
GateInv == gate.claim.phase \in Submitted => phase[gate.claim.op] \in Submitted

AliasInv == AliasTypeOK /\ CallerInv /\ OneOpen /\ SessionInv /\ GateInv

(* The cutover *)

\* Only the holder of the mutex is inside an action.
HolderInv == \A c \in Controllers : ctl[c].pc \notin {"idle", "lock"} => lock = c

\* The journal of commands: what took effect, what is on the way and what was run, against the
\* sequence in the database.
OrderInv ==
    /\ 1..done \subseteq applied /\ applied \subseteq 1..Current
    /\ inflight \subseteq {Current} \ {ISSUE_ROLE_KEY}
    /\ record \in {"none", "intent", "finished"} => inflight = {}
    /\ last = "none" => record = "none"
    /\ last # "none" => done < VERIFY_ACCESS
    /\ \A k \in Kinds : submitted[k] <= 1 /\ (k > Current => submitted[k] = 0)
    /\ record \in {"none", "intent"} => \A k \in Kinds : k = Current => submitted[k] = 0

\* What a process knows inside its action.
ActionOK(c) ==
    /\ ctl[c].pc \in {"run", "wait"} => last # "none"
    /\ ctl[c].pc = "run" => Current # ISSUE_ROLE_KEY
    /\ ctl[c].pc = "keys" => Current = ISSUE_ROLE_KEY /\ record # "none"
    /\ ctl[c].pc = "settle" => Current \in applied /\ inflight = {}

ActionInv == \A c \in Controllers : ActionOK(c)

\* The end comes after all actions.
EndInv ==
    /\ done >= ISSUE_ROLE_KEY => KeysComplete
    /\ anchor => done = VERIFY_ACCESS
    /\ floor => anchor
    /\ floor <=> Finished

\* The operation of the epoch is a transmitted one of the original deployment; without an epoch
\* nothing has begun.
ClaimInv ==
    /\ epoch # NoEpoch => /\ epoch.claim \in Claims
                          /\ phase[epoch.claim.op] \in Submitted
                          /\ store[epoch.claim.op] = "original"
    /\ epoch = NoEpoch => /\ done = 0 /\ last = "none" /\ applied = {}
                          /\ \A c \in Controllers : ctl[c].prepared = 0

RunningOriginal(o) == caller[o] \in Running /\ store[o] = "original"

\* The allowlist holds every application of the original deployment from the moment it was taken
\* until they are ended; then none is left, and after the container is stopped nothing of theirs
\* is on the wire.
AppsInv ==
    /\ \A o \in Ops : store[o] = "none" <=> caller[o] = "idle"
    /\ \A o \in Ops : store[o] = "secured" => floor
    /\ STOP_REGISTERED_APPS \in applied => \A o \in Ops : ~RunningOriginal(o)
    /\ STOP_REGISTERED_APPS \notin applied
         /\ (last # "none" \/ \E c \in Controllers : ctl[c].prepared # 0)
         => \A o \in Ops : RunningOriginal(o) => o \in apps
    /\ STOP_OLD \in applied => \A o \in wire : store[o] = "secured"

ControllerPc == {"idle", "lock", "held", "reserve", "execute", "run", "wait", "observe", "keys",
                 "settle", "unresolved", "verify"}

\* TypeOK, as far as the variables of the cutover go.
CutoverTypeOK ==
    /\ epoch \in [claim : Claims \cup {NoClaim},
                  phase : {"none", "prepared", "old_stopped", "old_retired", "secured_started",
                           "verified", "receipted"}]
    /\ done \in 0..VERIFY_ACCESS
    /\ last \in {"none", "pending", "unknown"}
    /\ record \in {"none", "intent", "created", "finished", "unknown"}
    /\ submitted \in [Kinds -> 0..2]
    /\ inflight \in SUBSET Kinds /\ applied \in SUBSET Kinds
    /\ apps \in SUBSET Ops
    /\ anchor \in BOOLEAN /\ floor \in BOOLEAN
    /\ lock \in Controllers \cup {None, "abandoned"}
    /\ ctl \in [Controllers -> [pc : ControllerPc, prepared : 0..VERIFY_ACCESS,
                                inventory : BOOLEAN]]
    /\ store \in [Ops -> {"none", "original", "secured"}]

CutoverInv ==
    /\ CutoverTypeOK /\ HolderInv /\ OrderInv /\ ActionInv /\ EndInv /\ ClaimInv /\ AppsInv

EpochInv == KeyTypeOK /\ KeyInv /\ AliasInv /\ CutoverInv

------------------------------------------------------------------------------
(* The role keys *)

\* A step of one role leaves what is known of the others alone.
LEMMA OtherRoleStays ==
    ASSUME NEW r \in Roles, NEW q \in Roles, q # r, RoleInv(q),
           issue'[q] = issue[q], revoke'[q] = revoke[q], round'[q] = round[q],
           active'[q] = active[q], secret'[q] = secret[q],
           \A k \in {"issue", "invalidate"}, n \in 1..MaxIssues :
              <<q, k, n>> \in posts' => <<q, k, n>> \in posts
    PROVE  RoleInv(q)'
  BY DEF RoleInv

\* KeyTypeOK and KeyInv speak of the variables of the keys only.
LEMMA KeysFrame ==
    ASSUME KeyTypeOK, KeyInv, UNCHANGED keyVars
    PROVE  KeyTypeOK' /\ KeyInv'
  BY DEF KeyTypeOK, KeyInv, RoleInv, keyVars

LEMMA ReserveIssueKeeps ==
    ASSUME KeyTypeOK, KeyInv, NEW r \in Roles, ReserveIssue(r)
    PROVE  KeyTypeOK' /\ KeyInv'
  <1>1. RoleInv(r)
    BY DEF KeyInv
  <1>2. KeyTypeOK'
    BY RoleConstants DEF KeyTypeOK, ReserveIssue, Unsettled
  <1>3. RoleInv(r)'
    <2>1. active[r] = {}
      BY <1>1 DEF RoleInv, KeyTypeOK, ReserveIssue
    <2>2. \A n \in 1..MaxIssues, k \in {"issue", "invalidate"} : <<r, k, n>> \notin posts
      BY <1>1 DEF RoleInv, ReserveIssue, Unsettled
    <2>3. secret[r] = 0
      BY <1>1 DEF RoleInv, ReserveIssue
    <2>4. /\ issue'[r] = "pending" /\ revoke'[r] = "none" /\ round'[r] = round[r] + 1
          /\ posts' = posts /\ active' = active /\ secret' = secret /\ round[r] \in Nat
      BY DEF KeyTypeOK, ReserveIssue
    <2>5. \A n \in 1..MaxIssues : <<r, "issue", n>> \notin posts'
                                   /\ <<r, "invalidate", n>> \notin posts'
      BY <2>2, <2>4
    <2>6. round'[r] # 0 /\ active'[r] = {} /\ secret'[r] = 0
      BY <2>1, <2>3, <2>4
    <2> QED  BY <2>4, <2>5, <2>6 DEF RoleInv
  <1>4. ASSUME NEW q \in Roles, q # r PROVE RoleInv(q)'
    BY <1>4, OtherRoleStays DEF KeyInv, KeyTypeOK, ReserveIssue
  <1> QED  BY <1>2, <1>3, <1>4 DEF KeyInv

LEMMA ReserveInvalidationKeeps ==
    ASSUME KeyTypeOK, KeyInv, NEW r \in Roles, ReserveInvalidation(r)
    PROVE  KeyTypeOK' /\ KeyInv'
  <1>1. RoleInv(r)
    BY DEF KeyInv
  <1>2. KeyTypeOK'
    BY DEF KeyTypeOK, ReserveInvalidation, Unsettled
  <1>3. RoleInv(r)'
    BY <1>1 DEF RoleInv, KeyTypeOK, ReserveInvalidation, Unsettled
  <1>4. ASSUME NEW q \in Roles, q # r PROVE RoleInv(q)'
    BY <1>4, OtherRoleStays DEF KeyInv, KeyTypeOK, ReserveInvalidation
  <1> QED  BY <1>2, <1>3, <1>4 DEF KeyInv

LEMMA SubmitIssueKeeps ==
    ASSUME KeyTypeOK, KeyInv, NEW r \in Roles, SubmitIssue(r)
    PROVE  KeyTypeOK' /\ KeyInv'
  <1>1. RoleInv(r)
    BY DEF KeyInv
  <1>2. round[r] \in 1..MaxIssues
    BY <1>1 DEF RoleInv, KeyTypeOK, SubmitIssue
  <1>3. KeyTypeOK'
    BY <1>2 DEF KeyTypeOK, SubmitIssue
  <1>4. RoleInv(r)'
    BY <1>1 DEF RoleInv, KeyTypeOK, SubmitIssue, Unsettled
  <1>5. ASSUME NEW q \in Roles, q # r PROVE RoleInv(q)'
    BY <1>5, OtherRoleStays DEF KeyInv, KeyTypeOK, SubmitIssue
  <1> QED  BY <1>3, <1>4, <1>5 DEF KeyInv

LEMMA SubmitInvalidationKeeps ==
    ASSUME KeyTypeOK, KeyInv, NEW r \in Roles, SubmitInvalidation(r)
    PROVE  KeyTypeOK' /\ KeyInv'
  <1>1. RoleInv(r)
    BY DEF KeyInv
  <1>2. round[r] \in 1..MaxIssues
    BY <1>1 DEF RoleInv, KeyTypeOK, SubmitInvalidation
  <1>3. KeyTypeOK'
    BY <1>2 DEF KeyTypeOK, SubmitInvalidation
  <1>4. RoleInv(r)'
    BY <1>1 DEF RoleInv, KeyTypeOK, SubmitInvalidation, Unsettled
  <1>5. ASSUME NEW q \in Roles, q # r PROVE RoleInv(q)'
    BY <1>5, OtherRoleStays DEF KeyInv, KeyTypeOK, SubmitInvalidation
  <1> QED  BY <1>3, <1>4, <1>5 DEF KeyInv

\* The server carries a command out at most once: it is on the way at most once.
LEMMA KeyServerKeeps ==
    ASSUME KeyTypeOK, KeyInv, NEW r \in Roles, KeyServer(r)
    PROVE  KeyTypeOK' /\ KeyInv'
  <1>1. RoleInv(r)
    BY DEF KeyInv
  <1>2. PICK n \in 1..MaxIssues, k \in {"issue", "invalidate"} :
          /\ <<r, k, n>> \in posts
          /\ posts' = posts \ {<<r, k, n>>}
          /\ \/ active' = [active EXCEPT ![r] = IF k = "issue" THEN @ \cup {n} ELSE @ \ {n}]
             \/ UNCHANGED active
          /\ UNCHANGED <<issue, revoke, round, helper, secret>>
    BY DEF KeyServer
  <1>3. KeyTypeOK'
    BY <1>2 DEF KeyTypeOK
  <1>4. RoleInv(r)'
    <2>1. CASE k = "issue"
      BY <1>1, <1>2, <2>1 DEF RoleInv, KeyTypeOK, Unsettled
    <2>2. CASE k = "invalidate"
      BY <1>1, <1>2, <2>2 DEF RoleInv, KeyTypeOK, Unsettled
    <2> QED  BY <2>1, <2>2
  <1>5. ASSUME NEW q \in Roles, q # r PROVE RoleInv(q)'
    BY <1>2, <1>5, OtherRoleStays DEF KeyInv, KeyTypeOK
  <1> QED  BY <1>3, <1>4, <1>5 DEF KeyInv

LEMMA IssueAnsweredKeeps ==
    ASSUME KeyTypeOK, KeyInv, NEW r \in Roles, IssueAnswered(r)
    PROVE  KeyTypeOK' /\ KeyInv'
  <1>1. RoleInv(r)
    BY DEF KeyInv
  <1>2. KeyTypeOK'
    BY DEF KeyTypeOK, IssueAnswered, Unsettled
  <1>3. RoleInv(r)'
    BY <1>1 DEF RoleInv, KeyTypeOK, IssueAnswered, Unsettled
  <1>4. ASSUME NEW q \in Roles, q # r PROVE RoleInv(q)'
    BY <1>4, OtherRoleStays DEF KeyInv, KeyTypeOK, IssueAnswered
  <1> QED  BY <1>2, <1>3, <1>4 DEF KeyInv

LEMMA InvalidationEndKeeps ==
    ASSUME KeyTypeOK, KeyInv, NEW r \in Roles, InvalidationAnswered(r) \/ RecoverInvalidation(r)
    PROVE  KeyTypeOK' /\ KeyInv'
  <1>1. RoleInv(r)
    BY DEF KeyInv
  <1>2. KeyTypeOK'
    BY DEF KeyTypeOK, InvalidationAnswered, RecoverInvalidation, Unsettled
  <1>3. RoleInv(r)'
    BY <1>1 DEF RoleInv, KeyTypeOK, InvalidationAnswered, RecoverInvalidation, Unsettled
  <1>4. ASSUME NEW q \in Roles, q # r PROVE RoleInv(q)'
    BY <1>4, OtherRoleStays DEF KeyInv, KeyTypeOK, InvalidationAnswered, RecoverInvalidation
  <1> QED  BY <1>2, <1>3, <1>4 DEF KeyInv

LEMMA AnswerLostKeeps ==
    ASSUME KeyTypeOK, KeyInv, NEW r \in Roles, AnswerLost(r)
    PROVE  KeyTypeOK' /\ KeyInv'
  <1>1. RoleInv(r)
    BY DEF KeyInv
  <1>2. KeyTypeOK'
    BY DEF KeyTypeOK, AnswerLost, Unsettled
  <1>3. RoleInv(r)'
    BY <1>1 DEF RoleInv, KeyTypeOK, AnswerLost, Unsettled
  <1>4. ASSUME NEW q \in Roles, q # r PROVE RoleInv(q)'
    BY <1>4, OtherRoleStays DEF KeyInv, KeyTypeOK, AnswerLost
  <1> QED  BY <1>2, <1>3, <1>4 DEF KeyInv

LEMMA RecoverIssueKeeps ==
    ASSUME KeyTypeOK, KeyInv, NEW r \in Roles, RecoverIssue(r)
    PROVE  KeyTypeOK' /\ KeyInv'
  <1>1. RoleInv(r)
    BY DEF KeyInv
  <1>2. KeyTypeOK'
    BY DEF KeyTypeOK, RecoverIssue, Unsettled
  <1>3. RoleInv(r)'
    BY <1>1 DEF RoleInv, KeyTypeOK, RecoverIssue, Unsettled
  <1>4. ASSUME NEW q \in Roles, q # r PROVE RoleInv(q)'
    BY <1>4, OtherRoleStays DEF KeyInv, KeyTypeOK, RecoverIssue
  <1> QED  BY <1>2, <1>3, <1>4 DEF KeyInv

LEMMA KeyGroupKeeps ==
    ASSUME KeyTypeOK, KeyInv, KeyGroupNext
    PROVE  KeyTypeOK' /\ KeyInv'
  <1>1. CASE LookupLost
    BY <1>1 DEF LookupLost, KeyTypeOK, KeyInv, RoleInv
  <1>2. CASE \E r \in Roles : ReserveIssue(r)
    BY <1>2, ReserveIssueKeeps
  <1>3. CASE \E r \in Roles : ReserveInvalidation(r)
    BY <1>3, ReserveInvalidationKeeps
  <1>4. CASE \E r \in Roles : SubmitIssue(r)
    BY <1>4, SubmitIssueKeeps
  <1>5. CASE \E r \in Roles : SubmitInvalidation(r)
    BY <1>5, SubmitInvalidationKeeps
  <1>6. CASE \E r \in Roles : IssueAnswered(r)
    BY <1>6, IssueAnsweredKeeps
  <1>7. CASE \E r \in Roles : InvalidationAnswered(r) \/ RecoverInvalidation(r)
    BY <1>7, InvalidationEndKeeps
  <1>8. CASE \E r \in Roles : AnswerLost(r)
    BY <1>8, AnswerLostKeeps
  <1>9. CASE \E r \in Roles : RecoverIssue(r)
    BY <1>9, RecoverIssueKeeps
  <1> QED  BY <1>1, <1>2, <1>3, <1>4, <1>5, <1>6, <1>7, <1>8, <1>9 DEF KeyGroupNext

\* A complete group has no command on the way, so the server cannot change it any more.
LEMMA CompleteIsOne ==
    ASSUME KeyTypeOK, KeyInv
    PROVE  OneKeyPerRole
  <1> SUFFICES ASSUME KeysComplete, NEW r \in Roles
               PROVE  /\ active[r] = {round[r]} /\ secret[r] = round[r]
                      /\ \A n \in 1..MaxIssues, k \in {"issue", "invalidate"} :
                           <<r, k, n>> \notin posts
    BY DEF OneKeyPerRole
  <1> QED  BY DEF KeyInv, RoleInv, KeysComplete, AllSettled

LEMMA CompleteStays ==
    ASSUME KeyTypeOK, KeyInv, KeysComplete, NEW r \in Roles
    PROVE  ~KeyServer(r)
  BY CompleteIsOne DEF OneKeyPerRole, KeyServer

------------------------------------------------------------------------------
(* The journal *)

LEMMA ClaimFields ==
    ASSUME NEW c \in Claims
    PROVE  /\ c.request \in Requests /\ c.op \in Ops /\ c.revision \in 0..MaxRevision
           /\ c.phase \in Submitted \cup {"reserved"} /\ c # NoClaim
  BY DEF Claims, NoClaim, Submitted

LEMMA NoClaimFields ==
    NoClaim.phase = "none" /\ NoClaim.op = None /\ NoClaim.request = None /\ NoClaim.revision = 0
  BY DEF NoClaim

\* What every step does to an operation: a transmitted one stays so, an ended process stays ended
\* and sends nothing more.
Forward ==
    \A o \in Ops :
        /\ phase[o] \in Submitted => phase'[o] \in Submitted
        /\ caller[o] = "ended" => caller'[o] = "ended"
        /\ caller[o] = "ended" /\ o \in wire' => o \in wire

LEMMA SessionStays ==
    ASSUME NEW s \in Sessions, SessionOK(s), sess'[s] = sess[s], Forward
    PROVE  SessionOK(s)'
  <1>1. CASE sess[s].pc = "idle"
    BY <1>1 DEF SessionOK, Collecting, PastClients, PastStop
  <1>2. CASE sess[s].pc # "idle"
    <2>1. sess[s].claim \in Claims
      BY <1>2 DEF SessionOK
    <2>2. sess[s].claim.op \in Ops
      BY <2>1, ClaimFields
    <2>3. sess[s].pc \in PastStop => caller[sess[s].claim.op] = "ended"
      BY DEF SessionOK, PastStop
    <2> QED  BY <2>1, <2>2, <2>3 DEF SessionOK, Forward
  <1> QED  BY <1>1, <1>2

LEMMA CallerStays ==
    ASSUME NEW o \in Ops, CallerOK(o), caller'[o] = caller[o], phase'[o] = phase[o],
           result'[o] = result[o], o \in wire' => o \in wire
    PROVE  CallerOK(o)'
  BY DEF CallerOK

LEMMA GateStays ==
    ASSUME AliasTypeOK, GateInv, gate'.claim = gate.claim, Forward
    PROVE  GateInv'
  <1> SUFFICES ASSUME gate.claim.phase \in Submitted PROVE phase'[gate.claim.op] \in Submitted
    BY DEF GateInv
  <1>1. gate.claim # NoClaim
    BY NoClaimFields DEF Submitted
  <1>2. gate.claim \in Claims
    BY <1>1 DEF AliasTypeOK
  <1>3. gate.claim.op \in Ops
    BY <1>2, ClaimFields
  <1> QED  BY <1>3 DEF GateInv, Forward

LEMMA OneOpenStays ==
    ASSUME OneOpen, target' = target, \A o \in Ops : Open(o)' => Open(o)
    PROVE  OneOpen'
  BY DEF OneOpen

LEMMA AliasFrame ==
    ASSUME AliasInv, UNCHANGED aliasVars
    PROVE  AliasInv'
  <1>0. /\ target' = target /\ phase' = phase /\ result' = result /\ gate' = gate
        /\ receipt' = receipt /\ caller' = caller /\ wire' = wire /\ live' = live
        /\ server' = server /\ sess' = sess
    BY DEF aliasVars, journalVars
  <1>1. AliasTypeOK'
    BY <1>0 DEF AliasInv, AliasTypeOK
  <1>2. CallerInv' /\ OneOpen' /\ SessionInv' /\ GateInv'
    BY <1>0 DEF AliasInv, CallerInv, CallerOK, OneOpen, Open, SessionInv, SessionOK, GateInv
  <1> QED  BY <1>1, <1>2 DEF AliasInv

\* A step of a process: it changes its own operation, and the sessions stay.
LEMMA OneCallerMoves ==
    ASSUME AliasInv, AliasTypeOK', NEW o \in Ops, CallerOK(o)',
           target' = target, gate' = gate, sess' = sess,
           \A p \in Ops : p # o => /\ caller'[p] = caller[p] /\ phase'[p] = phase[p]
                                   /\ result'[p] = result[p] /\ (p \in wire' => p \in wire),
           phase[o] \in Submitted => phase'[o] \in Submitted,
           caller[o] = "ended" => caller'[o] = "ended" /\ (o \in wire' => o \in wire),
           OneOpen'
    PROVE  AliasInv'
  <1>1. CallerInv'
    <2> SUFFICES ASSUME NEW p \in Ops, p # o PROVE CallerOK(p)'
      BY DEF CallerInv
    <2> QED  BY CallerStays DEF AliasInv, CallerInv
  <1>2. Forward
    BY DEF Forward
  <1>3. SessionInv'
    BY <1>2, SessionStays DEF SessionInv, AliasInv
  <1>4. GateInv'
    BY <1>2, GateStays DEF AliasInv
  <1> QED  BY <1>1, <1>3, <1>4 DEF AliasInv

LEMMA CallerStepKeeps ==
    ASSUME AliasInv, NEW o \in Ops, CallerStarts(o) \/ CallerAdmitted(o) \/ CallerNext(o)
    PROVE  AliasInv'
  <1> USE DEF Running
  <1>a. AliasTypeOK /\ CallerOK(o) /\ OneOpen
    BY DEF AliasInv, CallerInv
  <1>1. CASE CallerStarts(o)
    <2>1. /\ target' = target /\ phase' = phase /\ result' = result /\ gate' = gate
          /\ wire' = wire /\ sess' = sess /\ caller[o] = "idle"
          /\ caller' = [caller EXCEPT ![o] = "verify"]
      BY <1>1 DEF CallerStarts, journalVars
    <2>2. AliasTypeOK'
      BY <1>1, <1>a DEF CallerStarts, AliasTypeOK, journalVars
    <2>3. CallerOK(o)' /\ \A p \in Ops : p # o => caller'[p] = caller[p]
      BY <1>a, <2>1 DEF AliasTypeOK, CallerOK
    <2>4. OneOpen'
      BY <1>a, <2>1, OneOpenStays DEF Open
    <2> QED  BY <2>1, <2>2, <2>3, <2>4, OneCallerMoves
  <1>2. CASE CallerAdmitted(o)
    <2>1. /\ target' = target /\ phase' = phase /\ result' = result /\ gate' = gate
          /\ wire' = wire /\ sess' = sess /\ caller[o] = "verify"
          /\ caller' = [caller EXCEPT ![o] = "reserve"]
      BY <1>2 DEF CallerAdmitted, journalVars
    <2>2. AliasTypeOK'
      BY <1>2, <1>a DEF CallerAdmitted, AliasTypeOK, journalVars
    <2>3. CallerOK(o)' /\ \A p \in Ops : p # o => caller'[p] = caller[p]
      BY <1>a, <2>1 DEF AliasTypeOK, CallerOK
    <2>4. OneOpen'
      BY <1>a, <2>1, OneOpenStays DEF Open
    <2> QED  BY <2>1, <2>2, <2>3, <2>4, OneCallerMoves
  <1>3. CASE Reserve(o)
    <2>1. /\ target' = target /\ result' = result /\ gate' = gate /\ wire' = wire /\ sess' = sess
          /\ caller[o] = "reserve" /\ ~Busy(target[o])
          /\ caller' = [caller EXCEPT ![o] = "dispatch"]
          /\ phase' = [phase EXCEPT ![o] = "reserved"]
      BY <1>3 DEF Reserve
    <2>2. AliasTypeOK'
      BY <1>3, <1>a DEF Reserve, AliasTypeOK
    <2>3. /\ CallerOK(o)' /\ phase[o] = "none"
          /\ \A p \in Ops : p # o => caller'[p] = caller[p] /\ phase'[p] = phase[p]
      BY <1>a, <2>1 DEF AliasTypeOK, CallerOK, Submitted
    <2>4. OneOpen'
      BY <1>a, <2>1, <2>3 DEF OneOpen, Open, Busy
    <2> QED  BY <2>1, <2>2, <2>3, <2>4, OneCallerMoves DEF Submitted
  <1>4. CASE Dispatch(o)
    <2>1. /\ target' = target /\ result' = result /\ gate' = gate /\ wire' = wire /\ sess' = sess
          /\ caller[o] = "dispatch" /\ phase[o] = "reserved" /\ Open(o)
          /\ caller' = [caller EXCEPT ![o] = "send"]
          /\ phase' = [phase EXCEPT ![o] = "dispatching"]
      BY <1>4 DEF Dispatch
    <2>2. AliasTypeOK'
      BY <1>4, <1>a DEF Dispatch, AliasTypeOK, Submitted
    <2>3. /\ CallerOK(o)' /\ phase'[o] \in Submitted
          /\ \A p \in Ops : p # o => caller'[p] = caller[p] /\ phase'[p] = phase[p]
      BY <1>a, <2>1 DEF AliasTypeOK, CallerOK, Submitted, Open
    <2>4. OneOpen'
      BY <1>a, <2>1, <2>3, OneOpenStays DEF Open
    <2> QED  BY <2>1, <2>2, <2>3, <2>4, OneCallerMoves
  <1>5. CASE Send(o)
    <2>1. /\ target' = target /\ phase' = phase /\ result' = result /\ gate' = gate /\ sess' = sess
          /\ caller[o] = "send" /\ wire' = wire \cup {o}
          /\ caller' = [caller EXCEPT ![o] = "sent"]
      BY <1>5 DEF Send, journalVars
    <2>2. AliasTypeOK'
      BY <1>5, <1>a DEF Send, AliasTypeOK, journalVars
    <2>3. CallerOK(o)' /\ \A p \in Ops : p # o => caller'[p] = caller[p]
      BY <1>a, <2>1 DEF AliasTypeOK, CallerOK, Submitted
    <2>4. OneOpen'
      BY <1>a, <2>1, OneOpenStays DEF Open
    <2> QED  BY <2>1, <2>2, <2>3, <2>4, OneCallerMoves
  <1>6. CASE Apply(o)
    <2>1. /\ target' = target /\ phase' = phase /\ result' = result /\ gate' = gate /\ sess' = sess
          /\ wire' = wire \ {o}
          /\ caller' = [caller EXCEPT ![o] = IF @ = "sent" THEN "observe" ELSE @]
      BY <1>6 DEF Apply, journalVars
    <2>2. AliasTypeOK'
      BY <1>6, <1>a DEF Apply, AliasTypeOK, journalVars
    <2>3. /\ CallerOK(o)' /\ \A p \in Ops : p # o => caller'[p] = caller[p]
          /\ caller[o] = "ended" => caller'[o] = "ended"
      BY <1>a, <2>1 DEF AliasTypeOK, CallerOK
    <2>4. OneOpen'
      BY <1>a, <2>1, OneOpenStays DEF Open
    <2> QED  BY <2>1, <2>2, <2>3, <2>4, OneCallerMoves
  <1>7. CASE Observe(o)
    <2>1. /\ target' = target /\ phase' = phase /\ result' = result /\ gate' = gate
          /\ wire' = wire /\ sess' = sess /\ caller[o] = "observe"
          /\ caller' = [caller EXCEPT ![o] = "finish"]
      BY <1>7 DEF Observe, journalVars
    <2>2. AliasTypeOK'
      BY <1>7, <1>a DEF Observe, AliasTypeOK, journalVars
    <2>3. CallerOK(o)' /\ \A p \in Ops : p # o => caller'[p] = caller[p]
      BY <1>a, <2>1 DEF AliasTypeOK, CallerOK
    <2>4. OneOpen'
      BY <1>a, <2>1, OneOpenStays DEF Open
    <2> QED  BY <2>1, <2>2, <2>3, <2>4, OneCallerMoves
  <1>8. CASE Finish(o)
    <2>1. /\ target' = target /\ phase' = phase /\ gate' = gate /\ wire' = wire /\ sess' = sess
          /\ caller[o] = "finish" /\ caller' = [caller EXCEPT ![o] = "ended"]
          /\ result' = [result EXCEPT ![o] =
                          IF @ = "none" /\ phase[o] \in Submitted THEN "confirmed" ELSE @]
      BY <1>8 DEF Finish
    <2>2. AliasTypeOK'
      BY <1>8, <1>a DEF Finish, AliasTypeOK
    <2>3. /\ CallerOK(o)' /\ \A p \in Ops : p # o => caller'[p] = caller[p]
          /\ \A p \in Ops : p # o => result'[p] = result[p]
          /\ result'[o] = "none" => result[o] = "none"
      BY <1>a, <2>1 DEF AliasTypeOK, CallerOK, Submitted
    <2>4. OneOpen'
      BY <1>a, <2>1, <2>3, OneOpenStays DEF Open
    <2> QED  BY <2>1, <2>2, <2>3, <2>4, OneCallerMoves
  <1>9. CASE CallerEnds(o)
    <2>1. /\ target' = target /\ phase' = phase /\ result' = result /\ gate' = gate
          /\ wire' = wire /\ sess' = sess /\ caller[o] \in Running
          /\ caller' = [caller EXCEPT ![o] = "ended"]
      BY <1>9 DEF CallerEnds, journalVars
    <2>2. AliasTypeOK'
      BY <1>9, <1>a DEF CallerEnds, AliasTypeOK, journalVars
    <2>3. CallerOK(o)' /\ \A p \in Ops : p # o => caller'[p] = caller[p]
      BY <1>a, <2>1 DEF AliasTypeOK, CallerOK
    <2>4. OneOpen'
      BY <1>a, <2>1, OneOpenStays DEF Open
    <2> QED  BY <2>1, <2>2, <2>3, <2>4, OneCallerMoves
  <1> QED  BY <1>1, <1>2, <1>3, <1>4, <1>5, <1>6, <1>7, <1>8, <1>9 DEF CallerNext

\* A step of a session or of the cutover: processes stay, and a row is closed only when its
\* operation is over.
LEMMA JournalMoves ==
    ASSUME AliasInv, AliasTypeOK', target' = target, phase' = phase, caller' = caller,
           wire' \subseteq wire,
           \A o \in Ops : \/ result'[o] = result[o]
                          \/ /\ result[o] = "none" /\ phase[o] # "none"
                             /\ o \notin wire /\ caller[o] \in {"dispatch", "ended"},
           SessionInv', GateInv'
    PROVE  AliasInv'
  <1>1. CallerInv'
    <2> SUFFICES ASSUME NEW o \in Ops PROVE CallerOK(o)'
      BY DEF CallerInv
    <2>1. CallerOK(o)
      BY DEF AliasInv, CallerInv
    <2>2. CASE result'[o] = result[o]
      BY <2>1, <2>2, CallerStays
    <2>3. CASE o \notin wire /\ phase[o] # "none" /\ caller[o] \in {"dispatch", "ended"}
      BY <2>1, <2>3 DEF CallerOK
    <2> QED  BY <2>2, <2>3
  <1>2. OneOpen'
    BY OneOpenStays DEF AliasInv, Open
  <1> QED  BY <1>1, <1>2 DEF AliasInv

LEMMA OneSessionMoves ==
    ASSUME AliasInv, NEW s \in Sessions, SessionOK(s)', Forward,
           \A q \in Sessions : q # s => sess'[q] = sess[q]
    PROVE  SessionInv'
  BY SessionStays DEF SessionInv, AliasInv

\* A step of a session that writes nothing but its own state.
LEMMA SessionReads ==
    ASSUME AliasInv, NEW s \in Sessions,
           UNCHANGED <<journalVars, caller, wire, live, server>>,
           NEW x \in [pc : SessionPc, claim : Claims \cup {NoClaim}, life : 0..MaxLife],
           sess' = [sess EXCEPT ![s] = x],
           x.pc # "idle" => x.claim \in Claims,
           x.pc \in Collecting => phase[x.claim.op] \in Submitted,
           x.pc \in PastClients => caller[x.claim.op] = "ended",
           x.pc \in PastStop => x.claim.op \notin wire
    PROVE  AliasInv'
  <1>1. /\ target' = target /\ phase' = phase /\ result' = result /\ gate' = gate
        /\ receipt' = receipt /\ caller' = caller /\ wire' = wire /\ live' = live
        /\ server' = server
    BY DEF journalVars
  <1>2. AliasTypeOK' /\ sess'[s] = x /\ \A q \in Sessions : q # s => sess'[q] = sess[q]
    BY <1>1 DEF AliasInv, AliasTypeOK
  <1>3. SessionOK(s)'
    BY <1>1, <1>2 DEF SessionOK
  <1>4. Forward
    BY <1>1 DEF Forward
  <1>5. SessionInv'
    BY <1>2, <1>3, <1>4, OneSessionMoves
  <1>6. GateInv'
    BY <1>1, <1>4, GateStays DEF AliasInv
  <1> QED  BY <1>1, <1>2, <1>5, <1>6, JournalMoves

\* What a session is, with its claim.
LEMMA SessionFields ==
    ASSUME AliasInv, NEW s \in Sessions
    PROVE  /\ sess[s] \in [pc : SessionPc, claim : Claims \cup {NoClaim}, life : 0..MaxLife]
           /\ SessionOK(s)
  BY DEF AliasInv, AliasTypeOK, SessionInv

\* The next step of the collector, with what it adds to what is known.
LEMMA StepReads ==
    ASSUME AliasInv, NEW s \in Sessions, NEW pc \in Collecting,
           UNCHANGED <<journalVars, caller, wire, live, server>>,
           sess[s].pc \in Collecting,
           NEW n \in 0..MaxLife,
           sess' = [sess EXCEPT ![s] = [pc |-> pc, claim |-> @.claim, life |-> n]],
           pc \in PastClients => caller[sess[s].claim.op] = "ended",
           pc \in PastStop => sess[s].claim.op \notin wire
    PROVE  AliasInv'
  <1> DEFINE x == [pc |-> pc, claim |-> sess[s].claim, life |-> n]
  <1>1. /\ sess[s].claim \in Claims /\ phase[sess[s].claim.op] \in Submitted
    BY SessionFields DEF SessionOK, Collecting
  <1>2. x \in [pc : SessionPc, claim : Claims \cup {NoClaim}, life : 0..MaxLife]
    BY <1>1 DEF Collecting, SessionPc
  <1>3. sess' = [sess EXCEPT ![s] = x]
    BY SessionFields DEF AliasInv, AliasTypeOK
  <1>4. x.pc = pc /\ x.claim = sess[s].claim
    OBVIOUS
  <1> HIDE DEF x
  <1> QED  BY <1>1, <1>2, <1>3, <1>4, SessionReads

LEMMA ReadClaimIs ==
    ASSUME AliasTypeOK, NEW r \in Requests, NEW o \in Ops, ReadClaim(r, o) # NoClaim
    PROVE  /\ ReadClaim(r, o) \in Claims /\ ReadClaim(r, o).op = o
           /\ ReadClaim(r, o).phase = phase[o]
  <1> DEFINE c == IF receipt[r].code # "none" THEN receipt[r].claim ELSE gate.claim
  <1>1. c \in Claims \cup {NoClaim}
    BY DEF AliasTypeOK
  <1>2. ReadClaim(r, o) = c /\ c.op = o /\ c.phase = phase[o]
    BY DEF ReadClaim
  <1> HIDE DEF c
  <1> QED  BY <1>1, <1>2

LEMMA IdleKeeps ==
    ASSUME NEW s \in Sessions, sess'[s] = Idle
    PROVE  SessionOK(s)'
  BY DEF SessionOK, Idle, Collecting, PastClients, PastStop

LEMMA IdleType == Idle \in [pc : SessionPc, claim : Claims \cup {NoClaim}, life : 0..MaxLife]
  BY AliasConstants DEF Idle, SessionPc

\* The commands of an operator.
LEMMA CommandKeeps ==
    ASSUME AliasInv, NEW s \in Sessions, NEW r \in Requests, NEW o \in Ops,
           Preview(s, r, o) \/ Recover(s, r, o) \/ ReadRelease(s, r, o)
    PROVE  AliasInv'
  <1>0. AliasTypeOK
    BY DEF AliasInv
  <1>1. CASE Preview(s, r, o)
    <2> DEFINE c == Claim(r, o, phase[o], 0)
               x == [pc |-> "freeze", claim |-> c, life |-> 0]
    <2>1. c \in Claims
      BY <1>0, <1>1, AliasConstants DEF Preview, Claim, Claims, AliasTypeOK
    <2>2. x \in [pc : SessionPc, claim : Claims \cup {NoClaim}, life : 0..MaxLife]
      BY <2>1, AliasConstants DEF SessionPc
    <2>3. /\ sess' = [sess EXCEPT ![s] = x]
          /\ UNCHANGED <<journalVars, caller, wire, live, server>>
      BY <1>1 DEF Preview
    <2>4. x.pc = "freeze" /\ x.claim = c
      OBVIOUS
    <2> HIDE DEF x, c
    <2> QED  BY <2>1, <2>2, <2>3, <2>4, SessionReads DEF Collecting, PastClients, PastStop
  <1>2. CASE Recover(s, r, o)
    <2> DEFINE c == ReadClaim(r, o)
               x == [pc |-> IF c.phase = "reserved" THEN "withdraw" ELSE "collect",
                     claim |-> c, life |-> 0]
    <2>1. c \in Claims /\ c.op = o /\ c.phase = phase[o]
      BY <1>0, <1>2, ReadClaimIs DEF Recover
    <2>2. /\ sess' = [sess EXCEPT ![s] = x]
          /\ UNCHANGED <<journalVars, caller, wire, live, server>>
      BY <1>2 DEF Recover
    <2> HIDE DEF c
    <2>3. x \in [pc : SessionPc, claim : Claims \cup {NoClaim}, life : 0..MaxLife]
      BY <2>1, AliasConstants DEF SessionPc
    <2>4. /\ x.claim = c /\ x.pc \in {"withdraw", "collect"}
          /\ x.pc = "collect" => phase[c.op] \in Submitted
      BY <2>1, ClaimFields
    <2> HIDE DEF x
    <2> QED  BY <2>1, <2>2, <2>3, <2>4, SessionReads DEF Collecting, PastClients, PastStop
  <1>3. CASE ReadRelease(s, r, o)
    <2> DEFINE c == ReadClaim(r, o)
               x == [pc |-> "release", claim |-> c, life |-> 0]
    <2>1. c \in Claims
      BY <1>0, <1>3, ReadClaimIs DEF ReadRelease
    <2>2. /\ sess' = [sess EXCEPT ![s] = x]
          /\ UNCHANGED <<journalVars, caller, wire, live, server>>
      BY <1>3 DEF ReadRelease
    <2> HIDE DEF c
    <2>3. x \in [pc : SessionPc, claim : Claims \cup {NoClaim}, life : 0..MaxLife]
      BY <2>1, AliasConstants DEF SessionPc
    <2>4. x.pc = "release" /\ x.claim = c
      OBVIOUS
    <2> HIDE DEF x
    <2> QED  BY <2>1, <2>2, <2>3, <2>4, SessionReads DEF Collecting, PastClients, PastStop
  <1> QED  BY <1>1, <1>2, <1>3

LEMMA SessionEndsKeeps ==
    ASSUME AliasInv, NEW s \in Sessions, SessionEnds(s)
    PROVE  AliasInv'
  <1>1. sess' = [sess EXCEPT ![s] = Idle] /\ UNCHANGED <<journalVars, caller, wire, live, server>>
    BY DEF SessionEnds
  <1>2. Idle.pc = "idle"
    BY DEF Idle
  <1> QED  BY <1>1, <1>2, IdleType, SessionReads DEF Collecting, PastClients, PastStop

\* The gate is frozen on a claim whose phase was read in the same transaction.
LEMMA GateKeeps ==
    ASSUME AliasInv, NEW s \in Sessions, Freeze(s) \/ Release(s)
    PROVE  AliasInv'
  <1> DEFINE c == sess[s].claim
             n == gate.claim.revision + 1
  <1>0. AliasTypeOK /\ c \in Claims
    BY SessionFields DEF AliasInv, SessionOK, Freeze, Release
  <1>1. /\ target' = target /\ phase' = phase /\ result' = result /\ receipt' = receipt
        /\ caller' = caller /\ wire' = wire /\ live' = live /\ server' = server
        /\ sess' = [sess EXCEPT ![s] = Idle]
    BY DEF Freeze, Release
  <1>2. gate' \in [state : {"admitted", "frozen"}, claim : Claims \cup {NoClaim}] /\ GateInv'
    <2>1. CASE Freeze(s)
      <3>1. gate.claim.revision \in Nat
        <4>1. gate.claim \in Claims \/ gate.claim = NoClaim
          BY <1>0 DEF AliasTypeOK
        <4> QED  BY <4>1, ClaimFields, NoClaimFields
      <3>2. /\ n <= MaxRevision /\ phase[c.op] = c.phase
            /\ gate' = [state |-> "frozen", claim |-> Claim(c.request, c.op, c.phase, n)]
        BY <2>1 DEF Freeze
      <3>3. c.request \in Requests /\ c.op \in Ops /\ c.phase \in Submitted \cup {"reserved"}
        BY <1>0, ClaimFields
      <3>4. n \in 0..MaxRevision
        BY <3>1, <3>2, AliasConstants
      <3> HIDE DEF c, n
      <3>5. Claim(c.request, c.op, c.phase, n) \in Claims
        BY <3>3, <3>4 DEF Claim, Claims
      <3>6. gate'.claim.op = c.op /\ gate'.claim.phase = c.phase
        BY <3>2 DEF Claim
      <3> QED  BY <1>1, <3>2, <3>5, <3>6 DEF GateInv
    <2>2. CASE Release(s)
      <3>1. gate' = [state |-> "admitted", claim |-> gate.claim]
        BY <2>2 DEF Release
      <3>2. gate.claim \in Claims \cup {NoClaim}
        BY <1>0 DEF AliasTypeOK
      <3> QED  BY <1>1, <3>1, <3>2 DEF GateInv, AliasInv
    <2> QED  BY <2>1, <2>2
  <1>3. AliasTypeOK' /\ sess'[s] = Idle /\ \A q \in Sessions : q # s => sess'[q] = sess[q]
    BY <1>0, <1>1, <1>2, IdleType DEF AliasTypeOK
  <1>4. Forward
    BY <1>1 DEF Forward
  <1>5. SessionInv'
    BY <1>3, <1>4, IdleKeeps, OneSessionMoves
  <1> QED  BY <1>1, <1>2, <1>3, <1>5, JournalMoves

\* close_*: the receipt and the end of the operation, which is over.
LEMMA RecordKeeps ==
    ASSUME AliasInv, NEW c \in Claims, NEW code \in {"not_dispatched", "recovered_terminated"},
           Record(c, code), Open(c.op), c.op \notin wire, caller[c.op] \in {"dispatch", "ended"},
           UNCHANGED <<target, phase, gate, caller, wire, live, server>>,
           sess' \in [Sessions -> [pc : SessionPc, claim : Claims \cup {NoClaim},
                                   life : 0..MaxLife]],
           SessionInv'
    PROVE  AliasInv'
  <1>0. AliasTypeOK /\ c.request \in Requests /\ c.op \in Ops
    BY ClaimFields DEF AliasInv
  <1>1. /\ target' = target /\ phase' = phase /\ gate' = gate /\ caller' = caller
        /\ wire' = wire /\ live' = live /\ server' = server
    OBVIOUS
  <1>2. /\ receipt' = [receipt EXCEPT ![c.request] = [code |-> code, claim |-> c]]
        /\ result' = [result EXCEPT ![c.op] = code]
    BY DEF Record
  <1>3. AliasTypeOK'
    <2>1. [code |-> code, claim |-> c] \in
            [code : {"none", "not_dispatched", "recovered_terminated"},
             claim : Claims \cup {NoClaim}]
      OBVIOUS
    <2> QED  BY <1>0, <1>1, <1>2, <2>1 DEF AliasTypeOK
  <1>4. \A o \in Ops : o # c.op => result'[o] = result[o]
    BY <1>0, <1>2 DEF AliasTypeOK
  <1>5. GateInv'
    BY <1>1 DEF AliasInv, GateInv
  <1> QED  BY <1>0, <1>1, <1>3, <1>4, <1>5, JournalMoves DEF Open

LEMMA SessionCloses ==
    ASSUME AliasInv, NEW s \in Sessions, CloseNotDispatched(s) \/ CloseTerminated(s)
    PROVE  AliasInv'
  <1> DEFINE c == sess[s].claim
  <1>1. c \in Claims
    BY SessionFields DEF SessionOK, CloseNotDispatched, CloseTerminated
  <1>2. c.op \in Ops
    BY <1>1, ClaimFields
  <1>3. /\ UNCHANGED <<target, phase, gate, caller, wire, live, server>>
        /\ sess' = [sess EXCEPT ![s] = Idle] /\ Open(c.op)
    BY DEF CloseNotDispatched, CloseTerminated, CloseAdmits
  <1>4. /\ sess' \in
              [Sessions -> [pc : SessionPc, claim : Claims \cup {NoClaim}, life : 0..MaxLife]]
        /\ sess'[s] = Idle /\ \A q \in Sessions : q # s => sess'[q] = sess[q]
    BY <1>3, IdleType DEF AliasInv, AliasTypeOK
  <1>5. SessionInv'
    BY <1>3, <1>4, IdleKeeps, OneSessionMoves DEF Forward
  <1>6. CallerOK(c.op) /\ caller[c.op] \in Running \cup {"idle", "ended"}
    BY <1>2 DEF AliasInv, CallerInv, AliasTypeOK
  <1>7. CASE CloseNotDispatched(s)
    <2>1. Record(c, "not_dispatched") /\ phase[c.op] = "reserved"
      BY <1>7 DEF CloseNotDispatched, CloseAdmits
    <2>2. c.op \notin wire /\ caller[c.op] \in {"dispatch", "ended"}
      BY <1>6, <2>1 DEF CallerOK, Submitted, Running
    <2> QED  BY <1>1, <1>3, <1>4, <1>5, <2>1, <2>2, RecordKeeps
  <1>8. CASE CloseTerminated(s)
    <2>1. Record(c, "recovered_terminated") /\ sess[s].pc = "close"
      BY <1>8 DEF CloseTerminated
    <2>2. c.op \notin wire /\ caller[c.op] = "ended"
      BY <2>1, SessionFields DEF SessionOK, Collecting, PastClients, PastStop
    <2> QED  BY <1>1, <1>3, <1>4, <1>5, <2>1, <2>2, RecordKeeps
  <1> QED  BY <1>7, <1>8

\* A transmitted operation has no process once the clients are absent.
LEMMA AbsentIsEnded ==
    ASSUME AliasInv, NEW o \in Ops, phase[o] \in Submitted, caller[o] \notin Running
    PROVE  caller[o] = "ended"
  <1>1. CallerOK(o) /\ caller[o] \in Running \cup {"idle", "ended"}
    BY DEF AliasInv, CallerInv, AliasTypeOK
  <1> QED  BY <1>1 DEF CallerOK, Submitted

\* Nothing is left on the wire of a server that was stopped.
LEMMA StopKeeps ==
    ASSUME AliasInv, NEW s \in Sessions, Stop(s)
    PROVE  AliasInv'
  <1> DEFINE x == [pc |-> "check_start", claim |-> sess[s].claim, life |-> sess[s].life]
  <1>0. AliasTypeOK /\ SessionOK(s) /\ sess[s].pc = "stop"
    BY SessionFields DEF AliasInv, Stop
  <1>1. /\ target' = target /\ phase' = phase /\ result' = result /\ gate' = gate
        /\ receipt' = receipt /\ caller' = caller /\ wire' = {} /\ live' = live
        /\ server' = [up |-> FALSE, life |-> server.life]
        /\ sess' = [sess EXCEPT ![s] = x]
    BY SessionFields DEF Stop, Step, journalVars, AliasInv, AliasTypeOK
  <1>2. x \in [pc : SessionPc, claim : Claims \cup {NoClaim}, life : 0..MaxLife]
    BY SessionFields DEF SessionPc
  <1>3. server' \in [up : BOOLEAN, life : 0..MaxLife]
    BY <1>0, <1>1 DEF AliasTypeOK
  <1>4. x.pc = "check_start" /\ x.claim = sess[s].claim
    OBVIOUS
  <1> HIDE DEF x
  <1>5. AliasTypeOK' /\ sess'[s] = x /\ \A q \in Sessions : q # s => sess'[q] = sess[q]
    BY <1>0, <1>1, <1>2, <1>3 DEF AliasTypeOK
  <1>6. SessionOK(s)'
    BY <1>0, <1>1, <1>4, <1>5 DEF SessionOK, Collecting, PastClients, PastStop
  <1>7. Forward
    BY <1>1 DEF Forward
  <1>8. SessionInv' /\ GateInv'
    BY <1>1, <1>5, <1>6, <1>7, OneSessionMoves, GateStays DEF AliasInv
  <1> QED  BY <1>1, <1>5, <1>8, JournalMoves

\* The server changes outside of the journal.
LEMMA ServerMoves ==
    ASSUME AliasInv, server' \in [up : BOOLEAN, life : 0..MaxLife], wire' \subseteq wire,
           UNCHANGED <<journalVars, live, sess>>, UNCHANGED caller
    PROVE  AliasInv'
  <1>1. /\ target' = target /\ phase' = phase /\ result' = result /\ gate' = gate
        /\ receipt' = receipt /\ caller' = caller /\ live' = live /\ sess' = sess
    BY DEF journalVars
  <1>2. AliasTypeOK'
    BY <1>1 DEF AliasInv, AliasTypeOK
  <1>3. Forward
    BY <1>1 DEF Forward
  <1>4. SessionInv' /\ GateInv'
    BY <1>1, <1>3, SessionStays, GateStays DEF AliasInv, SessionInv
  <1> QED  BY <1>1, <1>2, <1>4, JournalMoves

LEMMA StartKeeps ==
    ASSUME AliasInv, NEW s \in Sessions, Start(s)
    PROVE  AliasInv'
  <1> DEFINE n == server.life + 1
             x == [pc |-> "prove", claim |-> sess[s].claim, life |-> n]
  <1>0. AliasTypeOK /\ SessionOK(s) /\ sess[s].pc = "start"
    BY SessionFields DEF AliasInv, Start
  <1>1. /\ target' = target /\ phase' = phase /\ result' = result /\ gate' = gate
        /\ receipt' = receipt /\ caller' = caller /\ wire' = wire /\ live' = live
        /\ server' = [up |-> TRUE, life |-> n]
        /\ sess' = [sess EXCEPT ![s] = x]
    BY SessionFields DEF Start, journalVars, AliasInv, AliasTypeOK
  <1>2. n \in 0..MaxLife
    BY <1>0, AliasConstants DEF Start, AliasTypeOK
  <1> HIDE DEF n
  <1>3. /\ x \in [pc : SessionPc, claim : Claims \cup {NoClaim}, life : 0..MaxLife]
        /\ server' \in [up : BOOLEAN, life : 0..MaxLife]
    BY <1>1, <1>2, SessionFields DEF SessionPc
  <1>4. x.pc = "prove" /\ x.claim = sess[s].claim
    OBVIOUS
  <1> HIDE DEF x
  <1>5. AliasTypeOK' /\ sess'[s] = x /\ \A q \in Sessions : q # s => sess'[q] = sess[q]
    BY <1>0, <1>1, <1>3 DEF AliasTypeOK
  <1>6. SessionOK(s)'
    BY <1>0, <1>1, <1>4, <1>5 DEF SessionOK, Collecting, PastClients, PastStop
  <1>7. Forward
    BY <1>1 DEF Forward
  <1>8. SessionInv' /\ GateInv'
    BY <1>1, <1>5, <1>6, <1>7, OneSessionMoves, GateStays DEF AliasInv
  <1> QED  BY <1>1, <1>5, <1>8, JournalMoves

\* The reads of the collector.
LEMMA CollectorReads ==
    ASSUME AliasInv, NEW s \in Sessions,
           \/ Identify(s) \/ ObserveClients(s) \/ CheckStop(s) \/ CheckStart(s) \/ Prove(s)
           \/ Revalidate(s)
    PROVE  AliasInv'
  <1> DEFINE c == sess[s].claim
  <1>0. UNCHANGED <<journalVars, caller, wire, live, server>> /\ sess[s].pc \in Collecting
    BY DEF Identify, ObserveClients, CheckStop, CheckStart, Prove, Revalidate, Collecting
  <1>1. SessionOK(s) /\ sess[s].life \in 0..MaxLife /\ server.life \in 0..MaxLife
    BY SessionFields DEF AliasInv, AliasTypeOK
  <1>2. CASE Identify(s)
    <2>1. sess' = [sess EXCEPT ![s] = [pc |-> "absent", claim |-> @.claim, life |-> server.life]]
      BY <1>2 DEF Identify
    <2> QED  BY <1>0, <1>1, <2>1, StepReads DEF Collecting, PastClients, PastStop
  <1>3. ASSUME NEW pc \in Collecting, Step(s, pc),
               pc \in PastClients => caller[c.op] = "ended",
               pc \in PastStop => c.op \notin wire
        PROVE  AliasInv'
    <2>1. sess' = [sess EXCEPT ![s] = [pc |-> pc, claim |-> @.claim, life |-> sess[s].life]]
      BY <1>3 DEF Step
    <2> QED  BY <1>0, <1>1, <1>3, <2>1, StepReads
  <1>4. CASE ObserveClients(s)
    <2>1. c \in Claims /\ phase[c.op] \in Submitted
      BY <1>1, <1>4 DEF SessionOK, ObserveClients, Collecting
    <2>2. caller[c.op] = "ended"
      BY <1>4, <2>1, ClaimFields, AbsentIsEnded DEF ObserveClients, ClientsAbsent
    <2> QED  BY <1>3, <1>4, <2>2 DEF ObserveClients, Collecting, PastClients, PastStop
  <1>5. CASE CheckStop(s)
    BY <1>1, <1>3, <1>5 DEF SessionOK, CheckStop, Collecting, PastClients, PastStop
  <1>6. CASE CheckStart(s)
    BY <1>1, <1>3, <1>6 DEF SessionOK, CheckStart, Collecting, PastClients, PastStop
  <1>7. CASE Prove(s)
    BY <1>1, <1>3, <1>7 DEF SessionOK, Prove, Collecting, PastClients, PastStop
  <1>8. CASE Revalidate(s)
    BY <1>1, <1>3, <1>8 DEF SessionOK, Revalidate, Collecting, PastClients, PastStop
  <1> QED  BY <1>2, <1>4, <1>5, <1>6, <1>7, <1>8

LEMMA ServerKeeps ==
    ASSUME AliasInv, ServerDies \/ OperatorStarts
    PROVE  AliasInv'
  <1>0. server \in [up : BOOLEAN, life : 0..MaxLife]
    BY DEF AliasInv, AliasTypeOK
  <1>1. CASE ServerDies
    <2>1. server' \in [up : BOOLEAN, life : 0..MaxLife]
      BY <1>0, <1>1 DEF ServerDies
    <2> QED  BY <1>1, <2>1, ServerMoves DEF ServerDies
  <1>2. CASE OperatorStarts
    <2>1. server.life + 1 \in 0..MaxLife
      BY <1>0, <1>2, AliasConstants DEF OperatorStarts
    <2>2. server' \in [up : BOOLEAN, life : 0..MaxLife]
      BY <1>2, <2>1 DEF OperatorStarts
    <2> QED  BY <1>2, <2>2, ServerMoves DEF OperatorStarts
  <1> QED  BY <1>1, <1>2

LEMMA SessionStepKeeps ==
    ASSUME AliasInv, NEW s \in Sessions, SessionNext(s) \/ Identify(s) \/ Start(s)
    PROVE  AliasInv'
  <1>1. CASE \E r \in Requests, o \in Ops :
               Preview(s, r, o) \/ Recover(s, r, o) \/ ReadRelease(s, r, o)
    BY <1>1, CommandKeeps
  <1>2. CASE Freeze(s) \/ Release(s)
    BY <1>2, GateKeeps
  <1>3. CASE CloseNotDispatched(s) \/ CloseTerminated(s)
    BY <1>3, SessionCloses
  <1>4. CASE \/ Identify(s) \/ ObserveClients(s) \/ CheckStop(s) \/ CheckStart(s) \/ Prove(s)
             \/ Revalidate(s)
    BY <1>4, CollectorReads
  <1>5. CASE Stop(s) \/ Start(s) \/ SessionEnds(s)
    BY <1>5, StopKeeps, StartKeeps, SessionEndsKeeps
  <1> QED  BY <1>1, <1>2, <1>3, <1>4, <1>5 DEF SessionNext

LEMMA AliasStepKeeps ==
    ASSUME AliasInv, AliasStep
    PROVE  AliasInv'
  BY CallerStepKeeps, SessionStepKeeps, ServerKeeps DEF AliasStep

------------------------------------------------------------------------------
(* The cutover: what a step leaves alone *)

LEMMA ToFields ==
    ASSUME CutoverTypeOK, NEW c \in Controllers, NEW pc \in ControllerPc, To(c, pc)
    PROVE  /\ ctl' \in [Controllers -> [pc : ControllerPc, prepared : 0..VERIFY_ACCESS,
                                        inventory : BOOLEAN]]
           /\ ctl'[c].pc = pc /\ ctl'[c].prepared = ctl[c].prepared
           /\ \A d \in Controllers : d # c => ctl'[d] = ctl[d]
  BY DEF CutoverTypeOK, To

\* A process that is not the holder is outside of every action.
LEMMA OthersOutside ==
    ASSUME HolderInv, NEW d \in Controllers, lock # d
    PROVE  ctl[d].pc \in {"idle", "lock"}
  BY DEF HolderInv

LEMMA OutsideKnowsNothing ==
    ASSUME NEW d \in Controllers, ctl[d].pc \notin {"run", "wait", "keys", "settle"}
    PROVE  ActionOK(d)
  BY DEF ActionOK

\* A step of the holder.
LEMMA HolderSteps ==
    ASSUME HolderInv, NEW c \in Controllers, lock = c, lock' = lock,
           \A d \in Controllers : d # c => ctl'[d] = ctl[d],
           ActionOK(c)'
    PROVE  HolderInv' /\ ActionInv'
  <1>1. HolderInv'
    BY DEF HolderInv
  <1>2. ASSUME NEW d \in Controllers, d # c PROVE ActionOK(d)'
    <2>1. ctl'[d].pc \in {"idle", "lock"}
      BY <1>2, OthersOutside
    <2> QED  BY <2>1 DEF ActionOK
  <1> QED  BY <1>1, <1>2 DEF ActionInv

LEMMA OrderFrame ==
    ASSUME OrderInv, done' = done, last' = last, record' = record, submitted' = submitted,
           inflight' = inflight, applied' = applied
    PROVE  OrderInv'
  BY DEF OrderInv, Current

LEMMA CompleteFrame ==
    ASSUME KeysComplete, UNCHANGED keyVars
    PROVE  KeysComplete'
  BY DEF KeysComplete, AllSettled, keyVars

LEMMA EndFrame ==
    ASSUME EndInv, done' = done, anchor' = anchor, floor' = floor, epoch'.phase = epoch.phase,
           UNCHANGED keyVars
    PROVE  EndInv'
  BY CompleteFrame DEF EndInv, Finished

LEMMA ClaimFrame ==
    ASSUME ClaimInv, epoch' = epoch, phase' = phase, store' = store,
           epoch = NoEpoch => /\ done' = done /\ last' = last /\ applied' = applied
                              /\ \A d \in Controllers : \/ ctl'[d].prepared = ctl[d].prepared
                                                        \/ ctl'[d].prepared = 0
    PROVE  ClaimInv'
  BY DEF ClaimInv, NoEpoch

LEMMA AppsFrame ==
    ASSUME AppsInv, caller' = caller, wire' = wire, store' = store, floor' = floor,
           STOP_REGISTERED_APPS \in applied' <=> STOP_REGISTERED_APPS \in applied,
           STOP_OLD \in applied' <=> STOP_OLD \in applied,
           apps' = apps,
           (last' # "none" \/ \E d \in Controllers : ctl'[d].prepared # 0) =>
              (last # "none" \/ \E d \in Controllers : ctl[d].prepared # 0)
    PROVE  AppsInv'
  BY DEF AppsInv, RunningOriginal

\* The variables a step of a controller leaves alone, one by one.
LEMMA AliasSame ==
    ASSUME UNCHANGED aliasVars
    PROVE  phase' = phase /\ caller' = caller /\ wire' = wire
  BY DEF aliasVars, journalVars

\* A step that only moves one process.
LEMMA PcMoves ==
    ASSUME CutoverInv, NEW c \in Controllers, NEW pc \in ControllerPc, To(c, pc),
           UNCHANGED <<aliasVars, keyVars, commandVars, epoch, done, last, record, apps, anchor,
                       floor, lock, store>>,
           pc \notin {"idle", "lock"} => lock = c,
           pc \notin {"run", "wait"},
           pc = "keys" => Current = ISSUE_ROLE_KEY /\ record # "none",
           pc = "settle" => Current \in applied /\ inflight = {}
    PROVE  CutoverInv'
  <1>0. /\ CutoverTypeOK /\ HolderInv /\ OrderInv /\ ActionInv /\ EndInv /\ ClaimInv /\ AppsInv
    BY DEF CutoverInv
  <1>1. /\ submitted' = submitted /\ inflight' = inflight /\ applied' = applied /\ epoch' = epoch
        /\ done' = done /\ last' = last /\ record' = record /\ apps' = apps /\ anchor' = anchor
        /\ floor' = floor /\ lock' = lock /\ store' = store /\ UNCHANGED keyVars
        /\ phase' = phase /\ caller' = caller /\ wire' = wire
    BY AliasSame DEF commandVars
  <1>2. /\ ctl' \in [Controllers -> [pc : ControllerPc, prepared : 0..VERIFY_ACCESS,
                                     inventory : BOOLEAN]]
        /\ ctl'[c].pc = pc /\ ctl'[c].prepared = ctl[c].prepared
        /\ \A d \in Controllers : d # c => ctl'[d] = ctl[d]
    BY <1>0, ToFields
  <1>3. \A d \in Controllers : ctl'[d].prepared = ctl[d].prepared
    BY <1>2
  <1>4. CutoverTypeOK'
    BY <1>0, <1>1, <1>2 DEF CutoverTypeOK
  <1>5. HolderInv'
    BY <1>0, <1>1, <1>2 DEF HolderInv
  <1>6. ActionInv'
    BY <1>0, <1>1, <1>2 DEF ActionInv, ActionOK, Current
  <1>7. OrderInv'
    BY <1>0, <1>1, OrderFrame
  <1>8. EndInv'
    BY <1>0, <1>1, EndFrame
  <1>9. ClaimInv'
    BY <1>0, <1>1, <1>3, ClaimFrame
  <1>10. AppsInv'
    BY <1>0, <1>1, <1>3, AppsFrame
  <1> QED  BY <1>4, <1>5, <1>6, <1>7, <1>8, <1>9, <1>10 DEF CutoverInv

\* What the order says where it is used.
LEMMA OrderFacts ==
    ASSUME CutoverTypeOK, OrderInv
    PROVE  /\ Current \in 1..(VERIFY_ACCESS + 1) /\ Current = done + 1
           /\ STOP_OLD \in applied => STOP_REGISTERED_APPS \in applied
           /\ STOP_REGISTERED_APPS \notin applied => done = 0 /\ Current = STOP_REGISTERED_APPS
           /\ done = VERIFY_ACCESS => applied = Kinds /\ inflight = {} /\ last = "none"
  <1>1. done \in 0..12 /\ Current = done + 1 /\ applied \subseteq 1..12 /\ inflight \subseteq 1..12
    BY DEF CutoverTypeOK, Current, VERIFY_ACCESS, Kinds
  <1>2. 1..done \subseteq applied /\ applied \subseteq 1..Current /\ inflight \subseteq {Current}
    BY DEF OrderInv
  <1>3. 1 \notin applied => done = 0
    BY <1>1, <1>2
  <1>4. 2 \in applied => done # 0
    BY <1>1, <1>2
  <1>5. ASSUME done = 12 PROVE applied = 1..12 /\ inflight = {}
    <2>1. Current = 13 /\ 1..12 \subseteq applied
      BY <1>1, <1>2, <1>5
    <2>2. 13 \notin 1..12
      OBVIOUS
    <2>3. inflight = {}
      BY <1>1, <1>2, <2>1, <2>2
    <2> QED  BY <1>1, <2>1, <2>3
  <1>6. done = 12 => last = "none"
    BY <1>1 DEF OrderInv, VERIFY_ACCESS
  <1> QED  BY <1>1, <1>3, <1>4, <1>5, <1>6 DEF STOP_OLD, STOP_REGISTERED_APPS, VERIFY_ACCESS, Kinds

------------------------------------------------------------------------------
(* The cutover: the steps of a controller *)

LEMMA InvParts ==
    ASSUME CutoverInv
    PROVE  /\ CutoverTypeOK /\ HolderInv /\ OrderInv /\ ActionInv /\ EndInv /\ ClaimInv /\ AppsInv
  BY DEF CutoverInv

\* Steps that only move the process.
LEMMA MovesKeep ==
    ASSUME CutoverInv, NEW c \in Controllers,
           \/ ReadNoActions(c) \/ ObserveEnd(c) \/ Reconcile(c) \/ AdvanceFails(c)
           \/ KeysUnresolved(c)
    PROVE  CutoverInv'
  <1>0. UNCHANGED <<aliasVars, keyVars, commandVars, epoch, done, last, record, apps, anchor,
                    floor, lock, store>>
    BY DEF ReadNoActions, ObserveEnd, Reconcile, AdvanceFails, KeysUnresolved
  <1>1. CASE ReadNoActions(c)
    BY <1>0, <1>1, PcMoves DEF ReadNoActions, ControllerPc
  <1>2. CASE ObserveEnd(c)
    <2>1. lock = c /\ Current \in applied /\ inflight = {} /\ To(c, "settle")
      BY <1>2, InvParts DEF ObserveEnd, Owned, Seen, OrderInv
    <2> QED  BY <1>0, <2>1, PcMoves DEF ControllerPc
  <1>3. CASE Reconcile(c)
    <2>1. /\ lock = c
          /\ \/ To(c, "observe")
             \/ Current = ISSUE_ROLE_KEY /\ record # "none" /\ To(c, "keys")
      BY <1>3 DEF Reconcile, Owned
    <2> QED  BY <1>0, <2>1, PcMoves DEF ControllerPc
  <1>4. CASE AdvanceFails(c)
    <2>1. lock = c /\ To(c, "held")
      BY <1>4, InvParts DEF AdvanceFails, HolderInv
    <2> QED  BY <1>0, <2>1, PcMoves DEF ControllerPc
  <1>5. CASE KeysUnresolved(c)
    <2>1. PICK pc \in {"held", "unresolved"} : To(c, pc)
      BY <1>5 DEF KeysUnresolved
    <2>2. lock = c
      BY <1>5 DEF KeysUnresolved
    <2> QED  BY <1>0, <2>1, <2>2, PcMoves DEF ControllerPc
  <1> QED  BY <1>1, <1>2, <1>3, <1>4, <1>5

\* acquire: the operation of the claim was sent to the original deployment.
LEMMA AcquireKeeps ==
    ASSUME AliasInv, CutoverInv, NEW c \in Controllers, AcquireEpoch(c)
    PROVE  CutoverInv'
  <1>0. /\ CutoverTypeOK /\ HolderInv /\ OrderInv /\ ActionInv /\ EndInv /\ ClaimInv /\ AppsInv
    BY InvParts
  <1>1. /\ submitted' = submitted /\ inflight' = inflight /\ applied' = applied
        /\ done' = done /\ last' = last /\ record' = record /\ apps' = apps /\ anchor' = anchor
        /\ floor' = floor /\ lock' = lock /\ ctl' = ctl /\ store' = store /\ UNCHANGED keyVars
        /\ phase' = phase /\ caller' = caller /\ wire' = wire
    BY AliasSame DEF AcquireEpoch, commandVars
  <1>2. /\ epoch = NoEpoch /\ epoch' = [claim |-> gate.claim, phase |-> "prepared"]
        /\ gate.claim.phase \in Submitted
    BY DEF AcquireEpoch
  <1>3. gate.claim \in Claims
    BY <1>2, NoClaimFields DEF AliasInv, AliasTypeOK, Submitted
  <1>4. gate.claim.op \in Ops /\ phase[gate.claim.op] \in Submitted
    BY <1>2, <1>3, ClaimFields DEF AliasInv, GateInv
  <1>5. ~floor /\ epoch.phase = "none"
    BY <1>0, <1>2 DEF EndInv, Finished, NoEpoch
  <1>6. store[gate.claim.op] = "original"
    <2>1. caller[gate.claim.op] # "idle"
      BY <1>4 DEF AliasInv, CallerInv, CallerOK, Submitted
    <2> QED  BY <1>0, <1>4, <1>5, <2>1 DEF AppsInv, CutoverTypeOK
  <1>7. epoch'.claim = gate.claim /\ epoch'.phase = "prepared"
    BY <1>2
  <1>8. CutoverTypeOK'
    <2>1. epoch' \in [claim : Claims \cup {NoClaim},
                      phase : {"none", "prepared", "old_stopped", "old_retired",
                               "secured_started", "verified", "receipted"}]
      BY <1>2, <1>3
    <2> QED  BY <1>0, <1>1, <2>1 DEF CutoverTypeOK
  <1>9. epoch' # NoEpoch
    BY <1>7 DEF NoEpoch
  <1>10. ClaimInv'
    BY <1>1, <1>3, <1>4, <1>6, <1>7, <1>9 DEF ClaimInv, NoEpoch
  <1>11. HolderInv' /\ ActionInv' /\ OrderInv'
    BY <1>0, <1>1, OrderFrame DEF HolderInv, ActionInv, ActionOK, Current
  <1>12. EndInv'
    BY <1>0, <1>1, <1>5, <1>7, CompleteFrame DEF EndInv, Finished
  <1>13. AppsInv'
    BY <1>0, <1>1, AppsFrame
  <1> QED  BY <1>8, <1>10, <1>11, <1>12, <1>13 DEF CutoverInv

\* The mutex passes to one process at a time.
LEMMA LockKeeps ==
    ASSUME CutoverInv, NEW c \in Controllers, TakeLock(c) \/ ControllerEnds(c)
    PROVE  CutoverInv'
  <1>0. /\ CutoverTypeOK /\ HolderInv /\ OrderInv /\ ActionInv /\ EndInv /\ ClaimInv /\ AppsInv
    BY InvParts
  <1>1. /\ submitted' = submitted /\ inflight' = inflight /\ applied' = applied /\ epoch' = epoch
        /\ done' = done /\ last' = last /\ record' = record /\ apps' = apps /\ anchor' = anchor
        /\ floor' = floor /\ store' = store /\ UNCHANGED keyVars
        /\ phase' = phase /\ caller' = caller /\ wire' = wire
    BY AliasSame DEF TakeLock, ControllerEnds, commandVars
  <1>2. /\ ctl' \in [Controllers -> [pc : ControllerPc, prepared : 0..VERIFY_ACCESS,
                                     inventory : BOOLEAN]]
        /\ \A d \in Controllers : d # c => ctl'[d] = ctl[d]
        /\ ctl'[c].prepared \in {0, ctl[c].prepared}
        /\ lock' \in Controllers \cup {None, "abandoned"}
        /\ HolderInv'
        /\ ctl'[c].pc \in {"idle", "held"}
    <2>1. CASE TakeLock(c) /\ lock = None
      <3>1. lock' = c /\ To(c, "held")
        BY <2>1 DEF TakeLock
      <3>2. \A d \in Controllers : ctl[d].pc \in {"idle", "lock"}
        BY <1>0, <2>1, ControllerConstants DEF HolderInv
      <3> QED  BY <1>0, <3>1, <3>2, ToFields DEF HolderInv, ControllerPc
    <2>2. CASE TakeLock(c) /\ lock # None
      <3>1. lock' = (IF lock = "abandoned" THEN None ELSE lock) /\ To(c, "idle")
        BY <2>2 DEF TakeLock
      <3>2. lock = "abandoned" => \A d \in Controllers : ctl[d].pc \in {"idle", "lock"}
        BY <1>0, ControllerConstants DEF HolderInv
      <3>3. lock' \in Controllers \cup {None, "abandoned"}
        BY <1>0, <3>1 DEF CutoverTypeOK
      <3> QED  BY <1>0, <3>1, <3>2, <3>3, ToFields DEF HolderInv, ControllerPc
    <2>3. CASE ControllerEnds(c)
      <3>1. /\ ctl' = [ctl EXCEPT ![c] = Fresh]
            /\ lock' \in (IF lock = c THEN {None, "abandoned"} ELSE {lock})
        BY <2>3 DEF ControllerEnds
      <3>2. /\ Fresh \in [pc : ControllerPc, prepared : 0..VERIFY_ACCESS, inventory : BOOLEAN]
            /\ Fresh.pc = "idle" /\ Fresh.prepared = 0
        BY DEF Fresh, ControllerPc, VERIFY_ACCESS
      <3>3. /\ ctl'[c] = Fresh /\ \A d \in Controllers : d # c => ctl'[d] = ctl[d]
            /\ ctl' \in [Controllers -> [pc : ControllerPc, prepared : 0..VERIFY_ACCESS,
                                         inventory : BOOLEAN]]
        BY <1>0, <3>1, <3>2 DEF CutoverTypeOK
      <3>4. lock' \in Controllers \cup {None, "abandoned"}
        BY <1>0, <3>1 DEF CutoverTypeOK
      <3>5. HolderInv'
        BY <1>0, <3>1, <3>2, <3>3 DEF HolderInv
      <3> QED  BY <3>2, <3>3, <3>4, <3>5
    <2> QED  BY <2>1, <2>2, <2>3
  <1>3. \A d \in Controllers : ctl'[d].prepared = ctl[d].prepared \/ ctl'[d].prepared = 0
    BY <1>2
  <1>4. CutoverTypeOK'
    BY <1>0, <1>1, <1>2 DEF CutoverTypeOK
  <1>5. ActionInv'
    BY <1>0, <1>1, <1>2 DEF ActionInv, ActionOK, Current
  <1>6. OrderInv' /\ EndInv'
    BY <1>0, <1>1, OrderFrame, EndFrame
  <1>7. ClaimInv'
    BY <1>0, <1>1, <1>3, ClaimFrame
  <1>8. AppsInv'
    BY <1>0, <1>1, <1>3, AppsFrame
  <1> QED  BY <1>2, <1>4, <1>5, <1>6, <1>7, <1>8 DEF CutoverInv

\* expected: the allowlist is taken with the first action, or the applications are ended already.
LEMMA ExpectedKeeps ==
    ASSUME CutoverInv, NEW c \in Controllers, Expected(c)
    PROVE  CutoverInv'
  <1>0. /\ CutoverTypeOK /\ HolderInv /\ OrderInv /\ ActionInv /\ EndInv /\ ClaimInv /\ AppsInv
    BY InvParts
  <1>1. /\ submitted' = submitted /\ inflight' = inflight /\ applied' = applied /\ epoch' = epoch
        /\ done' = done /\ last' = last /\ record' = record /\ anchor' = anchor
        /\ floor' = floor /\ lock' = lock /\ store' = store /\ UNCHANGED keyVars
        /\ phase' = phase /\ caller' = caller /\ wire' = wire
    BY AliasSame DEF Expected, commandVars
  <1>2. /\ lock = c /\ epoch # NoEpoch /\ done < VERIFY_ACCESS
        /\ ctl' = [ctl EXCEPT ![c].pc = "reserve", ![c].prepared = Current]
        /\ apps' = IF Current = STOP_REGISTERED_APPS THEN {o \in Ops : caller[o] \in Running}
                   ELSE apps
    BY DEF Expected, Owned, Locked
  <1>3. Current \in 0..VERIFY_ACCESS
    BY <1>0, <1>2 DEF CutoverTypeOK, Current, VERIFY_ACCESS
  <1>4. /\ ctl' \in [Controllers -> [pc : ControllerPc, prepared : 0..VERIFY_ACCESS,
                                     inventory : BOOLEAN]]
        /\ ctl'[c].pc = "reserve" /\ \A d \in Controllers : d # c => ctl'[d] = ctl[d]
    <2> DEFINE x == [ctl[c] EXCEPT !.pc = "reserve", !.prepared = Current]
    <2>1. ctl' = [ctl EXCEPT ![c] = x]
      BY <1>2
    <2>2. ctl[c] \in [pc : ControllerPc, prepared : 0..VERIFY_ACCESS, inventory : BOOLEAN]
      BY <1>0 DEF CutoverTypeOK
    <2>3. /\ x \in [pc : ControllerPc, prepared : 0..VERIFY_ACCESS, inventory : BOOLEAN]
          /\ x.pc = "reserve"
      BY <1>3, <2>2 DEF ControllerPc
    <2> HIDE DEF x
    <2> QED  BY <1>0, <2>1, <2>3 DEF CutoverTypeOK
  <1>5. apps' \in SUBSET Ops
    BY <1>0, <1>2 DEF CutoverTypeOK
  <1>6. CutoverTypeOK'
    BY <1>0, <1>1, <1>4, <1>5 DEF CutoverTypeOK
  <1>7. HolderInv' /\ ActionInv'
    BY <1>0, <1>1, <1>2, <1>4, HolderSteps DEF ActionOK
  <1>8. OrderInv' /\ EndInv'
    BY <1>0, <1>1, OrderFrame, EndFrame
  <1>9. ClaimInv'
    BY <1>0, <1>1, <1>2, ClaimFrame
  <1>10. AppsInv'
    <2>1. \A o \in Ops : RunningOriginal(o)' <=> RunningOriginal(o)
      BY <1>1 DEF RunningOriginal
    <2>2. CASE STOP_REGISTERED_APPS \in applied
      BY <1>0, <1>1, <2>1, <2>2 DEF AppsInv
    <2>3. CASE STOP_REGISTERED_APPS \notin applied
      <3>1. apps' = {o \in Ops : caller[o] \in Running}
        BY <1>0, <1>2, <2>3, OrderFacts
      <3>2. \A o \in Ops : RunningOriginal(o) => o \in apps'
        BY <3>1 DEF RunningOriginal
      <3> QED  BY <1>0, <1>1, <2>1, <2>3, <3>2 DEF AppsInv
    <2> QED  BY <2>2, <2>3
  <1> QED  BY <1>6, <1>7, <1>8, <1>9, <1>10 DEF CutoverInv

\* reserve_action, and settle_action with "unknown": the outcome of the action.
LEMMA OutcomeKeeps ==
    ASSUME CutoverInv, NEW c \in Controllers, ReserveAction(c) \/ SettleUnknown(c)
    PROVE  CutoverInv'
  <1>0. /\ CutoverTypeOK /\ HolderInv /\ OrderInv /\ ActionInv /\ EndInv /\ ClaimInv /\ AppsInv
    BY InvParts
  <1>1. /\ submitted' = submitted /\ inflight' = inflight /\ applied' = applied /\ epoch' = epoch
        /\ done' = done /\ record' = record /\ apps' = apps /\ anchor' = anchor
        /\ floor' = floor /\ lock' = lock /\ store' = store /\ UNCHANGED keyVars
        /\ phase' = phase /\ caller' = caller /\ wire' = wire
    BY AliasSame DEF ReserveAction, SettleUnknown, commandVars
  <1>2. /\ lock = c /\ epoch # NoEpoch /\ last' \in {"pending", "unknown"}
        /\ \E pc \in {"execute", "held"} : To(c, pc)
    BY DEF ReserveAction, SettleUnknown, Locked
  <1>3. PICK pc \in {"execute", "held"} : To(c, pc)
    BY <1>2
  <1>4. /\ ctl' \in [Controllers -> [pc : ControllerPc, prepared : 0..VERIFY_ACCESS,
                                     inventory : BOOLEAN]]
        /\ ctl'[c].pc = pc /\ ctl'[c].prepared = ctl[c].prepared
        /\ \A d \in Controllers : d # c => ctl'[d] = ctl[d]
    BY <1>0, <1>3, ToFields DEF ControllerPc
  <1>5. done < VERIFY_ACCESS /\ (last # "none" \/ ctl[c].prepared # 0)
    <2>1. CASE ReserveAction(c)
      <3>1. ctl[c].prepared = Current /\ ctl[c].prepared \in 0..12 /\ done \in 0..12
        BY <1>0, <2>1 DEF ReserveAction, CutoverTypeOK, VERIFY_ACCESS
      <3> QED  BY <3>1 DEF Current, VERIFY_ACCESS
    <2>2. CASE SettleUnknown(c)
      BY <1>0, <2>2 DEF SettleUnknown, OrderInv
    <2> QED  BY <2>1, <2>2
  <1>6. CutoverTypeOK'
    BY <1>0, <1>1, <1>2, <1>4 DEF CutoverTypeOK
  <1>7. HolderInv' /\ ActionInv'
    BY <1>0, <1>1, <1>2, <1>4, HolderSteps DEF ActionOK
  <1>8. OrderInv'
    BY <1>0, <1>1, <1>2, <1>5 DEF OrderInv, Current
  <1>9. EndInv' /\ ClaimInv'
    BY <1>0, <1>1, <1>2, EndFrame, ClaimFrame
  <1>10. AppsInv'
    BY <1>0, <1>1, <1>5, AppsFrame
  <1> QED  BY <1>6, <1>7, <1>8, <1>9, <1>10 DEF CutoverInv

\* Steps of the protected journal: the record of the action changes.
LEMMA RecordMoves ==
    ASSUME CutoverInv, NEW c \in Controllers, lock = c,
           UNCHANGED <<aliasVars, keyVars, commandVars, epoch, done, last, apps, anchor, floor,
                       lock, store>>,
           record' \in {"intent", "finished", "unknown"}, last # "none",
           ctl' \in [Controllers -> [pc : ControllerPc, prepared : 0..VERIFY_ACCESS,
                                     inventory : BOOLEAN]],
           ctl'[c].prepared = ctl[c].prepared,
           \A d \in Controllers : d # c => ctl'[d] = ctl[d],
           ctl'[c].pc \notin {"wait", "settle"},
           ctl'[c].pc = "run" => Current # ISSUE_ROLE_KEY,
           ctl'[c].pc = "keys" => Current = ISSUE_ROLE_KEY,
           record' = "intent" => record = "none",
           record' = "finished" => inflight = {}
    PROVE  CutoverInv'
  <1>0. /\ CutoverTypeOK /\ HolderInv /\ OrderInv /\ ActionInv /\ EndInv /\ ClaimInv /\ AppsInv
    BY InvParts
  <1>1. /\ submitted' = submitted /\ inflight' = inflight /\ applied' = applied /\ epoch' = epoch
        /\ done' = done /\ last' = last /\ apps' = apps /\ anchor' = anchor
        /\ floor' = floor /\ lock' = lock /\ store' = store /\ UNCHANGED keyVars
        /\ phase' = phase /\ caller' = caller /\ wire' = wire
    BY AliasSame DEF commandVars
  <1>2. \A d \in Controllers : ctl'[d].prepared = ctl[d].prepared
    OBVIOUS
  <1>3. CutoverTypeOK'
    BY <1>0, <1>1 DEF CutoverTypeOK
  <1>4. HolderInv' /\ ActionInv'
    BY <1>0, <1>1, HolderSteps DEF ActionOK, Current
  <1>5. OrderInv'
    BY <1>0, <1>1 DEF OrderInv, Current
  <1>6. EndInv' /\ ClaimInv' /\ AppsInv'
    BY <1>0, <1>1, <1>2, EndFrame, ClaimFrame, AppsFrame
  <1> QED  BY <1>3, <1>4, <1>5, <1>6 DEF CutoverInv

LEMMA JournalKeeps ==
    ASSUME CutoverInv, NEW c \in Controllers, Execute(c) \/ WaitDone(c) \/ CutOff(c)
    PROVE  CutoverInv'
  <1>0. /\ CutoverTypeOK /\ OrderInv /\ ActionOK(c)
    BY InvParts DEF ActionInv
  <1>1. /\ UNCHANGED <<aliasVars, keyVars, commandVars, epoch, done, last, apps, anchor, floor,
                       lock, store>>
        /\ lock = c
    BY DEF Execute, WaitDone, CutOff, Owned
  <1>2. CASE Execute(c)
    <2>1. /\ last # "none" /\ record = "none" /\ record' = "intent"
          /\ ctl' = [ctl EXCEPT ![c].pc = IF Current = ISSUE_ROLE_KEY THEN "keys" ELSE "run",
                                ![c].inventory = @ \/ Current = STOP_OLD]
      BY <1>2 DEF Execute
    <2>2. /\ ctl' \in [Controllers -> [pc : ControllerPc, prepared : 0..VERIFY_ACCESS,
                                       inventory : BOOLEAN]]
          /\ ctl'[c].prepared = ctl[c].prepared
          /\ \A d \in Controllers : d # c => ctl'[d] = ctl[d]
          /\ ctl'[c].pc = IF Current = ISSUE_ROLE_KEY THEN "keys" ELSE "run"
      <3> DEFINE pc == IF Current = ISSUE_ROLE_KEY THEN "keys" ELSE "run"
                 seen == ctl[c].inventory \/ Current = STOP_OLD
                 x == [ctl[c] EXCEPT !.pc = pc, !.inventory = seen]
      <3>1. ctl' = [ctl EXCEPT ![c] = x]
        BY <2>1
      <3>2. seen \in BOOLEAN /\ pc \in ControllerPc
        BY DEF ControllerPc
      <3>3. ctl[c] \in [pc : ControllerPc, prepared : 0..VERIFY_ACCESS, inventory : BOOLEAN]
        BY <1>0 DEF CutoverTypeOK
      <3> HIDE DEF seen, pc
      <3>4. /\ x \in [pc : ControllerPc, prepared : 0..VERIFY_ACCESS, inventory : BOOLEAN]
            /\ x.pc = pc /\ x.prepared = ctl[c].prepared
        BY <3>2, <3>3
      <3> HIDE DEF x
      <3>5. /\ ctl' \in [Controllers -> [pc : ControllerPc, prepared : 0..VERIFY_ACCESS,
                                         inventory : BOOLEAN]]
            /\ ctl'[c] = x /\ \A d \in Controllers : d # c => ctl'[d] = ctl[d]
        BY <1>0, <3>1, <3>4 DEF CutoverTypeOK
      <3> QED  BY <3>4, <3>5 DEF pc
    <2> QED  BY <1>1, <2>1, <2>2, RecordMoves
  <1>3. CASE WaitDone(c)
    <2>1. last # "none" /\ Current \notin inflight
      BY <1>0, <1>3 DEF WaitDone, ActionOK
    <2>2. inflight = {}
      BY <1>0, <2>1 DEF OrderInv
    <2>3. \/ record' = "finished" /\ To(c, "observe")
          \/ record' = "unknown" /\ To(c, "held")
      BY <1>3 DEF WaitDone
    <2>4. /\ ctl' \in [Controllers -> [pc : ControllerPc, prepared : 0..VERIFY_ACCESS,
                                       inventory : BOOLEAN]]
          /\ ctl'[c].prepared = ctl[c].prepared /\ ctl'[c].pc \in {"observe", "held"}
          /\ \A d \in Controllers : d # c => ctl'[d] = ctl[d]
      BY <1>0, <2>3, ToFields DEF ControllerPc
    <2> QED  BY <1>1, <2>1, <2>2, <2>3, <2>4, RecordMoves
  <1>4. CASE CutOff(c)
    <2>1. last # "none" /\ record' = "unknown" /\ To(c, "held")
      BY <1>0, <1>4 DEF CutOff, ActionOK
    <2>2. /\ ctl' \in [Controllers -> [pc : ControllerPc, prepared : 0..VERIFY_ACCESS,
                                       inventory : BOOLEAN]]
          /\ ctl'[c].prepared = ctl[c].prepared /\ ctl'[c].pc = "held"
          /\ \A d \in Controllers : d # c => ctl'[d] = ctl[d]
      BY <1>0, <2>1, ToFields DEF ControllerPc
    <2> QED  BY <1>1, <2>1, <2>2, RecordMoves
  <1> QED  BY <1>2, <1>3, <1>4

\* The command of the action is run for the first time: its intent was recorded before.
LEMMA RunKeeps ==
    ASSUME CutoverInv, NEW c \in Controllers, RunCommand(c)
    PROVE  CutoverInv'
  <1>0. /\ CutoverTypeOK /\ HolderInv /\ OrderInv /\ ActionInv /\ EndInv /\ ClaimInv /\ AppsInv
    BY InvParts
  <1>1. /\ applied' = applied /\ epoch' = epoch /\ done' = done /\ last' = last /\ apps' = apps
        /\ anchor' = anchor /\ floor' = floor /\ lock' = lock /\ store' = store
        /\ UNCHANGED keyVars /\ phase' = phase /\ caller' = caller /\ wire' = wire
    BY AliasSame DEF RunCommand
  <1>2. /\ lock = c /\ record = "intent" /\ record' = "created" /\ To(c, "wait")
        /\ submitted' = [submitted EXCEPT ![Current] = @ + 1]
        /\ inflight' = inflight \cup {Current}
    BY DEF RunCommand
  <1>3. last # "none" /\ Current # ISSUE_ROLE_KEY
    BY <1>0 DEF RunCommand, ActionInv, ActionOK
  <1>4. Current \in Kinds
    BY <1>0, <1>3 DEF OrderInv, CutoverTypeOK, Current, Kinds, VERIFY_ACCESS
  <1>5. /\ ctl' \in [Controllers -> [pc : ControllerPc, prepared : 0..VERIFY_ACCESS,
                                     inventory : BOOLEAN]]
        /\ ctl'[c].pc = "wait" /\ ctl'[c].prepared = ctl[c].prepared
        /\ \A d \in Controllers : d # c => ctl'[d] = ctl[d]
    BY <1>0, <1>2, ToFields DEF ControllerPc
  <1>6. \A d \in Controllers : ctl'[d].prepared = ctl[d].prepared
    BY <1>5
  <1>7. submitted[Current] = 0 /\ inflight = {}
    BY <1>0, <1>2, <1>4 DEF OrderInv
  <1>8. /\ submitted' \in [Kinds -> 0..2] /\ submitted'[Current] = 1
        /\ \A k \in Kinds : k # Current => submitted'[k] = submitted[k]
    BY <1>0, <1>2, <1>4, <1>7 DEF CutoverTypeOK
  <1>9. CutoverTypeOK'
    BY <1>0, <1>1, <1>2, <1>4, <1>5, <1>7, <1>8 DEF CutoverTypeOK
  <1>10. HolderInv' /\ ActionInv'
    BY <1>0, <1>1, <1>2, <1>3, <1>5, HolderSteps DEF ActionOK
  <1>11. OrderInv'
    <2>1. Current' = Current
      BY <1>1 DEF Current
    <2>2. inflight' \subseteq {Current} \ {ISSUE_ROLE_KEY}
      BY <1>2, <1>3, <1>7
    <2>3. \A k \in Kinds : submitted'[k] <= 1 /\ (k > Current => submitted'[k] = 0)
      <3> SUFFICES ASSUME NEW k \in Kinds
                   PROVE  submitted'[k] <= 1 /\ (k > Current => submitted'[k] = 0)
        OBVIOUS
      <3>1. CASE k = Current
        BY <1>4, <1>8, <3>1 DEF Kinds
      <3>2. CASE k # Current
        BY <1>0, <1>8, <3>2 DEF OrderInv
      <3> QED  BY <3>1, <3>2
    <2> HIDE DEF Current
    <2> QED  BY <1>0, <1>1, <1>2, <1>3, <2>1, <2>2, <2>3 DEF OrderInv
  <1>12. EndInv' /\ ClaimInv' /\ AppsInv'
    BY <1>0, <1>1, <1>6, EndFrame, ClaimFrame, AppsFrame
  <1> QED  BY <1>9, <1>10, <1>11, <1>12 DEF CutoverInv

\* settle_action: the next action begins with nothing on the way.
LEMMA SettleKeeps ==
    ASSUME CutoverInv, NEW c \in Controllers, Settle(c)
    PROVE  CutoverInv'
  <1>0. /\ CutoverTypeOK /\ HolderInv /\ OrderInv /\ ActionInv /\ EndInv /\ ClaimInv /\ AppsInv
    BY InvParts
  <1>1. /\ submitted' = submitted /\ inflight' = inflight /\ applied' = applied /\ apps' = apps
        /\ anchor' = anchor /\ floor' = floor /\ lock' = lock /\ store' = store
        /\ UNCHANGED keyVars /\ phase' = phase /\ caller' = caller /\ wire' = wire
    BY AliasSame DEF Settle, commandVars
  <1>2. /\ lock = c /\ epoch # NoEpoch /\ last # "none" /\ To(c, "held")
        /\ Current = ISSUE_ROLE_KEY => KeysComplete
        /\ done' = Current /\ last' = "none" /\ record' = "none"
    BY DEF Settle, Locked
  <1>3. Current \in applied /\ inflight = {}
    BY <1>0 DEF Settle, ActionInv, ActionOK
  <1>4. done < 12 /\ done \in 0..12
    BY <1>0, <1>2 DEF OrderInv, CutoverTypeOK, VERIFY_ACCESS
  <1>5. /\ ctl' \in [Controllers -> [pc : ControllerPc, prepared : 0..VERIFY_ACCESS,
                                     inventory : BOOLEAN]]
        /\ ctl'[c].pc = "held" /\ ctl'[c].prepared = ctl[c].prepared
        /\ \A d \in Controllers : d # c => ctl'[d] = ctl[d]
    BY <1>0, <1>2, ToFields DEF ControllerPc
  <1>6. \A d \in Controllers : ctl'[d].prepared = ctl[d].prepared
    BY <1>5
  <1>7. ~anchor /\ ~floor /\ epoch.phase \notin {"verified", "receipted"}
    BY <1>0, <1>4 DEF EndInv, Finished, VERIFY_ACCESS
  <1>8. /\ epoch' \in [claim : Claims \cup {NoClaim},
                       phase : {"none", "prepared", "old_stopped", "old_retired",
                                "secured_started", "verified", "receipted"}]
        /\ epoch'.claim = epoch.claim /\ epoch'.phase \notin {"verified", "receipted"}
    <2>1. PICK p \in {"old_stopped", "old_retired", "secured_started", epoch.phase} :
            epoch' = [epoch EXCEPT !.phase = p]
      <3>1. epoch' = [epoch EXCEPT !.phase = CASE Current = STOP_OLD -> "old_stopped"
                                          [] Current = RETIRE_OLD -> "old_retired"
                                          [] Current = START_SECURED -> "secured_started"
                                          [] OTHER -> @]
        BY DEF Settle
      <3>2. CASE Current = STOP_OLD
        BY <3>1, <3>2 DEF STOP_OLD, RETIRE_OLD, START_SECURED
      <3>3. CASE Current = RETIRE_OLD
        BY <3>1, <3>3 DEF STOP_OLD, RETIRE_OLD, START_SECURED
      <3>4. CASE Current = START_SECURED
        BY <3>1, <3>4 DEF STOP_OLD, RETIRE_OLD, START_SECURED
      <3>5. CASE Current # STOP_OLD /\ Current # RETIRE_OLD /\ Current # START_SECURED
        BY <3>1, <3>5
      <3> QED  BY <3>2, <3>3, <3>4, <3>5
    <2> QED  BY <1>0, <1>7, <2>1 DEF CutoverTypeOK
  <1>9. done' \in 0..VERIFY_ACCESS
    BY <1>2, <1>4 DEF Current, VERIFY_ACCESS
  <1>10. CutoverTypeOK'
    BY <1>0, <1>1, <1>2, <1>5, <1>8, <1>9 DEF CutoverTypeOK
  <1>11. HolderInv' /\ ActionInv'
    BY <1>0, <1>1, <1>2, <1>5, HolderSteps DEF ActionOK
  <1>12. OrderInv'
    <2>1. Current = done + 1 /\ done' = done + 1 /\ Current' = done + 2
      BY <1>2, <1>4 DEF Current
    <2>2. 1..done' \subseteq applied' /\ applied' \subseteq 1..Current'
      BY <1>0, <1>1, <1>3, <1>4, <2>1 DEF OrderInv
    <2>3. \A k \in Kinds : k > done + 1 => submitted[k] = 0
      BY <1>0, <2>1 DEF OrderInv
    <2>4. \A k \in Kinds : /\ submitted'[k] <= 1 /\ (k > Current' => submitted'[k] = 0)
                           /\ k = Current' => submitted'[k] = 0
      BY <1>0, <1>1, <1>4, <2>1, <2>3 DEF OrderInv, Kinds, VERIFY_ACCESS
    <2> QED  BY <1>1, <1>2, <1>3, <2>2, <2>4 DEF OrderInv
  <1>13. EndInv'
    <2>1. done' >= ISSUE_ROLE_KEY => KeysComplete
      BY <1>0, <1>2, <1>4 DEF EndInv, Current, ISSUE_ROLE_KEY
    <2>2. KeysComplete => KeysComplete'
      BY <1>1, CompleteFrame
    <2> QED  BY <1>1, <1>7, <1>8, <2>1, <2>2 DEF EndInv, Finished
  <1>14. ClaimInv'
    <2>1. epoch.claim \in Claims
      BY <1>0, <1>2 DEF ClaimInv
    <2>2. epoch' # NoEpoch
      BY <1>8, <2>1, ClaimFields DEF NoEpoch
    <2> QED  BY <1>0, <1>1, <1>2, <1>8, <2>2 DEF ClaimInv, NoEpoch
  <1>15. AppsInv'
    BY <1>0, <1>1, <1>2, <1>6, AppsFrame
  <1> QED  BY <1>10, <1>11, <1>12, <1>13, <1>14, <1>15 DEF CutoverInv

\* The group of keys changes inside its own action only, before it is settled.
LEMMA KeyStepKeeps ==
    ASSUME CutoverInv, NEW c \in Controllers, KeyStep(c)
    PROVE  CutoverInv'
  <1>0. /\ CutoverTypeOK /\ HolderInv /\ OrderInv /\ ActionInv /\ EndInv /\ ClaimInv /\ AppsInv
    BY InvParts
  <1>1. /\ submitted' = submitted /\ inflight' = inflight /\ applied' = applied /\ epoch' = epoch
        /\ done' = done /\ last' = last /\ record' = record /\ apps' = apps /\ anchor' = anchor
        /\ floor' = floor /\ lock' = lock /\ ctl' = ctl /\ store' = store
        /\ phase' = phase /\ caller' = caller /\ wire' = wire
    BY AliasSame DEF KeyStep, cutoverVars, epochVars, commandVars
  <1>2. ~(done >= ISSUE_ROLE_KEY)
    <2>1. done + 1 = 8 /\ done \in 0..12
      BY <1>0 DEF KeyStep, ActionInv, ActionOK, Current, ISSUE_ROLE_KEY,
         CutoverTypeOK, VERIFY_ACCESS
    <2> QED  BY <2>1 DEF ISSUE_ROLE_KEY
  <1>3. CutoverTypeOK'
    BY <1>0, <1>1 DEF CutoverTypeOK
  <1>4. HolderInv' /\ ActionInv'
    BY <1>0, <1>1 DEF HolderInv, ActionInv, ActionOK, Current
  <1>5. EndInv'
    BY <1>0, <1>1, <1>2 DEF EndInv, Finished
  <1>6. OrderInv' /\ ClaimInv' /\ AppsInv'
    BY <1>0, <1>1, OrderFrame, ClaimFrame, AppsFrame
  <1> QED  BY <1>3, <1>4, <1>5, <1>6 DEF CutoverInv

LEMMA KeysDoneKeeps ==
    ASSUME CutoverInv, NEW c \in Controllers, KeysDone(c)
    PROVE  CutoverInv'
  <1>0. /\ CutoverTypeOK /\ HolderInv /\ OrderInv /\ ActionInv /\ EndInv /\ ClaimInv /\ AppsInv
    BY InvParts
  <1>1. /\ submitted' = submitted /\ inflight' = inflight /\ epoch' = epoch
        /\ done' = done /\ last' = last /\ record' = record /\ apps' = apps /\ anchor' = anchor
        /\ floor' = floor /\ lock' = lock /\ store' = store /\ UNCHANGED keyVars
        /\ phase' = phase /\ caller' = caller /\ wire' = wire
    BY AliasSame DEF KeysDone
  <1>2. /\ lock = c /\ epoch # NoEpoch /\ To(c, "settle")
        /\ applied' = applied \cup {ISSUE_ROLE_KEY}
    BY DEF KeysDone, Owned, Locked
  <1>3. Current = ISSUE_ROLE_KEY
    BY <1>0 DEF KeysDone, ActionInv, ActionOK
  <1>4. /\ ctl' \in [Controllers -> [pc : ControllerPc, prepared : 0..VERIFY_ACCESS,
                                     inventory : BOOLEAN]]
        /\ ctl'[c].pc = "settle" /\ ctl'[c].prepared = ctl[c].prepared
        /\ \A d \in Controllers : d # c => ctl'[d] = ctl[d]
    BY <1>0, <1>2, ToFields DEF ControllerPc
  <1>5. \A d \in Controllers : ctl'[d].prepared = ctl[d].prepared
    BY <1>4
  <1>6. inflight = {} /\ Current' = Current
    BY <1>0, <1>1, <1>3 DEF OrderInv, Current
  <1>7. CutoverTypeOK'
    <2>1. applied' \in SUBSET Kinds
      BY <1>0, <1>2 DEF CutoverTypeOK, Kinds, ISSUE_ROLE_KEY, VERIFY_ACCESS
    <2> QED  BY <1>0, <1>1, <1>4, <2>1 DEF CutoverTypeOK
  <1>8. HolderInv' /\ ActionInv'
    BY <1>0, <1>1, <1>2, <1>3, <1>4, <1>6, HolderSteps DEF ActionOK
  <1>9. OrderInv'
    <2>1. ISSUE_ROLE_KEY \in 1..Current
      BY <1>3 DEF ISSUE_ROLE_KEY
    <2> HIDE DEF Current
    <2> QED  BY <1>0, <1>1, <1>2, <1>6, <2>1 DEF OrderInv
  <1>10. EndInv' /\ ClaimInv'
    BY <1>0, <1>1, <1>2, EndFrame, ClaimFrame
  <1>11. AppsInv'
    BY <1>0, <1>1, <1>2, <1>5, AppsFrame DEF ISSUE_ROLE_KEY, STOP_OLD, STOP_REGISTERED_APPS
  <1> QED  BY <1>7, <1>8, <1>9, <1>10, <1>11 DEF CutoverInv

\* The private anchor, then the floor in the database.
LEMMA FloorKeeps ==
    ASSUME CutoverInv, NEW c \in Controllers, CommitAnchor(c) \/ MarkVerified(c)
    PROVE  CutoverInv'
  <1>0. /\ CutoverTypeOK /\ HolderInv /\ OrderInv /\ ActionInv /\ EndInv /\ ClaimInv /\ AppsInv
    BY InvParts
  <1>1. /\ submitted' = submitted /\ inflight' = inflight /\ applied' = applied
        /\ done' = done /\ last' = last /\ record' = record /\ apps' = apps
        /\ lock' = lock /\ store' = store /\ UNCHANGED keyVars
        /\ phase' = phase /\ caller' = caller /\ wire' = wire
    BY AliasSame DEF CommitAnchor, MarkVerified, commandVars
  <1>2. /\ lock = c /\ epoch # NoEpoch /\ done = VERIFY_ACCESS
        /\ To(c, "verify") \/ To(c, "held")
    BY DEF CommitAnchor, MarkVerified, Owned, Locked
  <1>3. /\ ctl' \in [Controllers -> [pc : ControllerPc, prepared : 0..VERIFY_ACCESS,
                                     inventory : BOOLEAN]]
        /\ ctl'[c].pc \in {"verify", "held"} /\ ctl'[c].prepared = ctl[c].prepared
        /\ \A d \in Controllers : d # c => ctl'[d] = ctl[d]
    BY <1>0, <1>2, ToFields DEF ControllerPc
  <1>4. \A d \in Controllers : ctl'[d].prepared = ctl[d].prepared
    BY <1>3
  <1>5. /\ epoch' \in [claim : Claims \cup {NoClaim},
                       phase : {"none", "prepared", "old_stopped", "old_retired",
                                "secured_started", "verified", "receipted"}]
        /\ epoch'.claim = epoch.claim
        /\ anchor' = TRUE /\ floor' \in BOOLEAN /\ (floor => floor')
        /\ floor' <=> epoch'.phase \in {"verified", "receipted"}
    <2>1. CASE CommitAnchor(c)
      BY <1>0, <2>1 DEF CommitAnchor, EndInv, Finished, CutoverTypeOK
    <2>2. CASE MarkVerified(c)
      <3>1. epoch' = [epoch EXCEPT !.phase = "verified"] /\ anchor' = anchor /\ anchor
            /\ floor' = TRUE
        BY <2>2 DEF MarkVerified
      <3> QED  BY <1>0, <3>1 DEF CutoverTypeOK
    <2> QED  BY <2>1, <2>2
  <1>6. CutoverTypeOK'
    BY <1>0, <1>1, <1>3, <1>5 DEF CutoverTypeOK
  <1>7. HolderInv' /\ ActionInv'
    BY <1>0, <1>1, <1>2, <1>3, HolderSteps DEF ActionOK
  <1>8. OrderInv'
    BY <1>0, <1>1, OrderFrame
  <1>9. EndInv'
    <2>1. KeysComplete => KeysComplete'
      BY <1>1, CompleteFrame
    <2> QED  BY <1>0, <1>1, <1>2, <1>5, <2>1 DEF EndInv, Finished
  <1>10. ClaimInv'
    <2>1. epoch.claim \in Claims
      BY <1>0, <1>2 DEF ClaimInv
    <2>2. epoch' # NoEpoch
      BY <1>5, <2>1, ClaimFields DEF NoEpoch
    <2> QED  BY <1>0, <1>1, <1>2, <1>5, <2>2 DEF ClaimInv, NoEpoch
  <1>11. AppsInv'
    BY <1>0, <1>1, <1>4, <1>5 DEF AppsInv, RunningOriginal
  <1> QED  BY <1>6, <1>7, <1>8, <1>9, <1>10, <1>11 DEF CutoverInv

\* A verified cutover has ended the process of its operation and stopped the server it wrote to.
LEMMA ClaimIsOver ==
    ASSUME AliasInv, CutoverInv, epoch.phase \in {"verified", "receipted"}
    PROVE  /\ epoch.claim \in Claims
           /\ epoch.claim.op \notin wire /\ caller[epoch.claim.op] = "ended"
  <1>0. /\ CutoverTypeOK /\ OrderInv /\ EndInv /\ ClaimInv /\ AppsInv
    BY InvParts
  <1>1. floor /\ anchor /\ done = VERIFY_ACCESS
    BY <1>0 DEF EndInv, Finished
  <1>2. applied = Kinds
    BY <1>0, <1>1, OrderFacts
  <1>3. STOP_REGISTERED_APPS \in applied /\ STOP_OLD \in applied
    BY <1>2 DEF Kinds, STOP_REGISTERED_APPS, STOP_OLD, VERIFY_ACCESS
  <1>4. epoch # NoEpoch
    BY DEF NoEpoch
  <1>5. /\ epoch.claim \in Claims /\ phase[epoch.claim.op] \in Submitted
        /\ store[epoch.claim.op] = "original"
    BY <1>0, <1>4 DEF ClaimInv
  <1>6. epoch.claim.op \in Ops
    BY <1>5, ClaimFields
  <1>7. caller[epoch.claim.op] \notin Running /\ epoch.claim.op \notin wire
    BY <1>0, <1>3, <1>5, <1>6 DEF AppsInv, RunningOriginal
  <1> QED  BY <1>5, <1>6, <1>7, AbsentIsEnded

LEMMA CloseEpochKeeps ==
    ASSUME AliasInv, CutoverInv, NEW c \in Controllers, CloseEpoch(c)
    PROVE  AliasInv' /\ CutoverInv'
  <1>0. /\ CutoverTypeOK /\ HolderInv /\ OrderInv /\ ActionInv /\ EndInv /\ ClaimInv /\ AppsInv
    BY InvParts
  <1>1. /\ submitted' = submitted /\ inflight' = inflight /\ applied' = applied
        /\ done' = done /\ last' = last /\ record' = record /\ apps' = apps /\ anchor' = anchor
        /\ floor' = floor /\ lock' = lock /\ ctl' = ctl /\ store' = store /\ UNCHANGED keyVars
        /\ phase' = phase /\ caller' = caller /\ wire' = wire /\ sess' = sess
    BY DEF CloseEpoch, commandVars
  <1>2. /\ epoch.phase = "verified" /\ Open(epoch.claim.op)
        /\ Record(epoch.claim, "recovered_terminated")
        /\ epoch' = [epoch EXCEPT !.phase = "receipted"]
        /\ UNCHANGED <<target, phase, gate, caller, wire, live, server>>
    BY DEF CloseEpoch
  <1>3. /\ epoch.claim \in Claims
        /\ epoch.claim.op \notin wire /\ caller[epoch.claim.op] = "ended"
    BY <1>2, ClaimIsOver
  <1>4. AliasInv'
    <2>1. /\ sess' \in [Sessions -> [pc : SessionPc, claim : Claims \cup {NoClaim},
                                     life : 0..MaxLife]]
          /\ SessionInv'
      BY <1>1 DEF AliasInv, AliasTypeOK, SessionInv, SessionOK
    <2> QED  BY <1>2, <1>3, <2>1, RecordKeeps
  <1>5. /\ epoch' \in [claim : Claims \cup {NoClaim},
                       phase : {"none", "prepared", "old_stopped", "old_retired",
                                "secured_started", "verified", "receipted"}]
        /\ epoch'.claim = epoch.claim /\ epoch'.phase = "receipted"
    BY <1>0, <1>2 DEF CutoverTypeOK
  <1>6. CutoverTypeOK'
    BY <1>0, <1>1, <1>5 DEF CutoverTypeOK
  <1>7. HolderInv' /\ ActionInv' /\ OrderInv'
    BY <1>0, <1>1, OrderFrame DEF HolderInv, ActionInv, ActionOK, Current
  <1>8. EndInv'
    BY <1>0, <1>1, <1>2, <1>5, CompleteFrame DEF EndInv, Finished
  <1>9. ClaimInv'
    <2>1. epoch # NoEpoch /\ epoch' # NoEpoch
      BY <1>2, <1>5 DEF NoEpoch
    <2> QED  BY <1>0, <1>1, <1>5, <2>1 DEF ClaimInv, NoEpoch
  <1>10. AppsInv'
    BY <1>0, <1>1, AppsFrame
  <1> QED  BY <1>4, <1>6, <1>7, <1>8, <1>9, <1>10 DEF CutoverInv

LEMMA ControllerKeeps ==
    ASSUME KeyTypeOK, KeyInv, AliasInv, CutoverInv, NEW c \in Controllers, ControllerNext(c)
    PROVE  KeyTypeOK' /\ KeyInv' /\ AliasInv' /\ CutoverInv'
  <1>1. CASE CloseEpoch(c)
    <2>1. UNCHANGED keyVars
      BY <1>1 DEF CloseEpoch
    <2> QED  BY <1>1, <2>1, KeysFrame, CloseEpochKeeps
  <1>2. CASE KeyStep(c)
    <2>1. UNCHANGED aliasVars /\ KeyGroupNext
      BY <1>2 DEF KeyStep
    <2> QED  BY <1>2, <2>1, KeyGroupKeeps, AliasFrame, KeyStepKeeps
  <1>3. CASE AcquireEpoch(c)
    <2>1. UNCHANGED aliasVars /\ UNCHANGED keyVars
      BY <1>3 DEF AcquireEpoch
    <2> QED  BY <1>3, <2>1, KeysFrame, AliasFrame, AcquireKeeps
  <1>4. CASE \/ ReadNoActions(c) \/ ObserveEnd(c) \/ Reconcile(c) \/ AdvanceFails(c)
             \/ KeysUnresolved(c)
    <2>1. UNCHANGED aliasVars /\ UNCHANGED keyVars
      BY <1>4 DEF ReadNoActions, ObserveEnd, Reconcile, AdvanceFails, KeysUnresolved
    <2> QED  BY <1>4, <2>1, KeysFrame, AliasFrame, MovesKeep
  <1>5. CASE TakeLock(c) \/ ControllerEnds(c)
    <2>1. UNCHANGED aliasVars /\ UNCHANGED keyVars
      BY <1>5 DEF TakeLock, ControllerEnds
    <2> QED  BY <1>5, <2>1, KeysFrame, AliasFrame, LockKeeps
  <1>6. CASE Expected(c)
    <2>1. UNCHANGED aliasVars /\ UNCHANGED keyVars
      BY <1>6 DEF Expected
    <2> QED  BY <1>6, <2>1, KeysFrame, AliasFrame, ExpectedKeeps
  <1>7. CASE ReserveAction(c) \/ SettleUnknown(c)
    <2>1. UNCHANGED aliasVars /\ UNCHANGED keyVars
      BY <1>7 DEF ReserveAction, SettleUnknown
    <2> QED  BY <1>7, <2>1, KeysFrame, AliasFrame, OutcomeKeeps
  <1>8. CASE Execute(c) \/ WaitDone(c) \/ CutOff(c)
    <2>1. UNCHANGED aliasVars /\ UNCHANGED keyVars
      BY <1>8 DEF Execute, WaitDone, CutOff
    <2> QED  BY <1>8, <2>1, KeysFrame, AliasFrame, JournalKeeps
  <1>9. CASE RunCommand(c)
    <2>1. UNCHANGED aliasVars /\ UNCHANGED keyVars
      BY <1>9 DEF RunCommand
    <2> QED  BY <1>9, <2>1, KeysFrame, AliasFrame, RunKeeps
  <1>10. CASE Settle(c)
    <2>1. UNCHANGED aliasVars /\ UNCHANGED keyVars
      BY <1>10 DEF Settle
    <2> QED  BY <1>10, <2>1, KeysFrame, AliasFrame, SettleKeeps
  <1>11. CASE KeysDone(c)
    <2>1. UNCHANGED aliasVars /\ UNCHANGED keyVars
      BY <1>11 DEF KeysDone
    <2> QED  BY <1>11, <2>1, KeysFrame, AliasFrame, KeysDoneKeeps
  <1>12. CASE CommitAnchor(c) \/ MarkVerified(c)
    <2>1. UNCHANGED aliasVars /\ UNCHANGED keyVars
      BY <1>12 DEF CommitAnchor, MarkVerified
    <2> QED  BY <1>12, <2>1, KeysFrame, AliasFrame, FloorKeeps
  <1> QED  BY <1>1, <1>2, <1>3, <1>4, <1>5, <1>6, <1>7, <1>8, <1>9, <1>10, <1>11, <1>12
           DEF ControllerNext

------------------------------------------------------------------------------
(* The cutover: the steps of the others *)

\* A process that runs was started before, and what is sent is sent by a process that runs.
Onward ==
    \A o \in Ops :
        /\ phase[o] \in Submitted => phase'[o] \in Submitted
        /\ caller'[o] = "idle" <=> caller[o] = "idle"
        /\ caller'[o] \in Running => caller[o] \in Running
        /\ o \in wire' => o \in wire \/ caller[o] \in Running

\* The applications under a step that leaves the database of the cutover alone.
LEMMA AppsOnward ==
    ASSUME CutoverInv, Onward, wire \subseteq Ops, wire' \subseteq Ops, store' = store,
           floor' = floor, applied' = applied, apps' = apps, last' = last, ctl' = ctl
    PROVE  AppsInv'
  <1>0. /\ CutoverTypeOK /\ OrderInv /\ AppsInv
    BY InvParts
  <1>1. \A o \in Ops : RunningOriginal(o)' => RunningOriginal(o)
    BY DEF Onward, RunningOriginal
  <1>2. ASSUME STOP_OLD \in applied, NEW o \in wire' PROVE store[o] = "secured"
    <2>1. CASE o \in wire
      BY <1>0, <1>2, <2>1 DEF AppsInv
    <2>2. CASE caller[o] \in Running
      <3>1. STOP_REGISTERED_APPS \in applied
        BY <1>0, <1>2, OrderFacts
      <3>2. store[o] # "original" /\ store[o] # "none"
        BY <1>0, <1>2, <2>2, <3>1 DEF AppsInv, RunningOriginal, Running
      <3> QED  BY <1>0, <1>2, <3>2 DEF CutoverTypeOK
    <2> QED  BY <1>2, <2>1, <2>2 DEF Onward
  <1>3. \A o \in Ops : store'[o] = "none" <=> caller'[o] = "idle"
    BY <1>0 DEF AppsInv, Onward
  <1> QED  BY <1>0, <1>1, <1>2, <1>3 DEF AppsInv

LEMMA OnwardKeeps ==
    ASSUME CutoverInv, AliasInv, AliasInv', Onward, UNCHANGED <<keyVars, cutoverVars>>
    PROVE  CutoverInv'
  <1>0. /\ CutoverTypeOK /\ HolderInv /\ OrderInv /\ ActionInv /\ EndInv /\ ClaimInv /\ AppsInv
    BY InvParts
  <1>1. /\ submitted' = submitted /\ inflight' = inflight /\ applied' = applied /\ epoch' = epoch
        /\ done' = done /\ last' = last /\ record' = record /\ apps' = apps /\ anchor' = anchor
        /\ floor' = floor /\ lock' = lock /\ ctl' = ctl /\ store' = store /\ UNCHANGED keyVars
    BY DEF cutoverVars, epochVars, commandVars
  <1>2. wire \subseteq Ops /\ wire' \subseteq Ops
    BY DEF AliasInv, AliasTypeOK
  <1>3. CutoverTypeOK'
    BY <1>0, <1>1 DEF CutoverTypeOK
  <1>4. HolderInv' /\ ActionInv'
    BY <1>0, <1>1 DEF HolderInv, ActionInv, ActionOK, Current
  <1>5. OrderInv' /\ EndInv'
    BY <1>0, <1>1, OrderFrame, EndFrame
  <1>6. ClaimInv'
    BY <1>0, <1>1, ClaimFields DEF ClaimInv, NoEpoch, Onward
  <1>7. AppsInv'
    BY <1>1, <1>2, AppsOnward
  <1> QED  BY <1>3, <1>4, <1>5, <1>6, <1>7 DEF CutoverInv

LEMMA CallersOnward ==
    ASSUME AliasInv, NEW o \in Ops, CallerNext(o) \/ CallerAdmitted(o)
    PROVE  Onward
  <1>0. AliasTypeOK /\ CallerOK(o)
    BY DEF AliasInv, CallerInv
  <1>1. CASE Reserve(o) \/ Dispatch(o)
    <2>1. /\ wire' = wire /\ caller[o] \in {"reserve", "dispatch"}
          /\ \/ /\ caller' = [caller EXCEPT ![o] = "dispatch"] /\ caller[o] = "reserve"
                /\ phase' = [phase EXCEPT ![o] = "reserved"]
             \/ /\ caller' = [caller EXCEPT ![o] = "send"]
                /\ phase' = [phase EXCEPT ![o] = "dispatching"]
      BY <1>1 DEF Reserve, Dispatch
    <2> QED  BY <1>0, <2>1 DEF Onward, AliasTypeOK, CallerOK, Running, Submitted
  <1>2. CASE Send(o) \/ Apply(o)
    <2>1. /\ phase' = phase
          /\ \/ /\ caller' = [caller EXCEPT ![o] = "sent"] /\ caller[o] = "send"
                /\ wire' = wire \cup {o}
             \/ /\ caller' = [caller EXCEPT ![o] = IF @ = "sent" THEN "observe" ELSE @]
                /\ wire' = wire \ {o}
      BY <1>2 DEF Send, Apply, journalVars
    <2> QED  BY <1>0, <2>1 DEF Onward, AliasTypeOK, Running
  <1>3. CASE Observe(o) \/ Finish(o) \/ CallerEnds(o) \/ CallerAdmitted(o)
    <2>1. /\ phase' = phase /\ wire' = wire /\ caller[o] \in Running
          /\ \E x \in {"finish", "ended", "reserve"} : caller' = [caller EXCEPT ![o] = x]
      BY <1>3 DEF Observe, Finish, CallerEnds, CallerAdmitted, journalVars, Running
    <2> QED  BY <1>0, <2>1 DEF Onward, AliasTypeOK, Running
  <1> QED  BY <1>1, <1>2, <1>3 DEF CallerNext

LEMMA AliasStepOnward ==
    ASSUME AliasInv, AliasStep
    PROVE  Onward
  <1>1. CASE \E o \in Ops : CallerNext(o)
    BY <1>1, CallersOnward
  <1>2. CASE ServerDies \/ OperatorStarts
    <2>1. phase' = phase /\ caller' = caller /\ wire' \subseteq wire
      BY <1>2 DEF ServerDies, OperatorStarts, journalVars
    <2> QED  BY <2>1 DEF Onward
  <1>3. ASSUME NEW s \in Sessions, SessionNext(s) \/ Identify(s) \/ Start(s) PROVE Onward
    <2>1. phase' = phase /\ caller' = caller /\ wire' \subseteq wire
      <3>1. CASE \E r \in Requests, o \in Ops :
                   Preview(s, r, o) \/ Recover(s, r, o) \/ ReadRelease(s, r, o)
        BY <3>1 DEF Preview, Recover, ReadRelease, journalVars
      <3>2. CASE \/ Freeze(s) \/ Release(s) \/ CloseNotDispatched(s) \/ CloseTerminated(s)
        BY <3>2 DEF Freeze, Release, CloseNotDispatched, CloseTerminated
      <3>3. CASE \/ SessionEnds(s) \/ ObserveClients(s) \/ CheckStop(s) \/ Stop(s)
                 \/ CheckStart(s) \/ Prove(s) \/ Revalidate(s) \/ Identify(s) \/ Start(s)
        BY <3>3 DEF SessionEnds, ObserveClients, CheckStop, Stop, CheckStart, Prove, Revalidate,
                    Identify, Start, journalVars
      <3> QED  BY <1>3, <3>1, <3>2, <3>3 DEF SessionNext
    <2> QED  BY <2>1 DEF Onward
  <1> QED  BY <1>1, <1>2, <1>3 DEF AliasStep

\* A command is carried out: the applications it ends and the server it stops.
LEMMA LandingEffect ==
    ASSUME AliasInv, NEW k \in Kinds, Landing(k)
    PROVE  /\ AliasInv'
           /\ phase' = phase /\ wire' \subseteq wire /\ (k = STOP_OLD => wire' = {})
           /\ \A o \in Ops : caller'[o] = IF /\ k = STOP_REGISTERED_APPS /\ o \in apps
                                             /\ caller[o] \in Running
                                          THEN "ended" ELSE caller[o]
  <1>0. AliasTypeOK
    BY DEF AliasInv
  <1>1. /\ target' = target /\ phase' = phase /\ result' = result /\ gate' = gate
        /\ receipt' = receipt /\ live' = live /\ sess' = sess
        /\ wire' \subseteq wire /\ (k = STOP_OLD => wire' = {})
        /\ caller' = [o \in Ops |-> IF /\ k = STOP_REGISTERED_APPS /\ o \in apps
                                       /\ caller[o] \in Running
                                    THEN "ended" ELSE caller[o]]
    BY DEF Landing, journalVars
  <1>2. \A o \in Ops : caller'[o] = IF /\ k = STOP_REGISTERED_APPS /\ o \in apps
                                       /\ caller[o] \in Running
                                    THEN "ended" ELSE caller[o]
    BY <1>1
  <1>3. caller' \in [Ops -> Running \cup {"idle", "ended"}]
    BY <1>0, <1>1 DEF AliasTypeOK
  <1>4. server' \in [up : BOOLEAN, life : 0..MaxLife]
    <2>1. server \in [up : BOOLEAN, life : 0..MaxLife]
      BY <1>0 DEF AliasTypeOK
    <2>2. \/ server' = [up |-> FALSE, life |-> server.life]
          \/ server' = [up |-> TRUE, life |-> server.life + 1]
          \/ server' = server
      <3>1. server' = CASE k \in {STOP_OLD, STOP_BOOTSTRAP} ->
                             [up |-> FALSE, life |-> server.life]
                        [] k \in {START_BOOTSTRAP, START_SECURED} ->
                             [up |-> TRUE, life |-> server.life + 1]
                        [] OTHER -> server
        BY DEF Landing
      <3>2. CASE k \in {STOP_OLD, STOP_BOOTSTRAP}
        BY <3>1, <3>2 DEF STOP_OLD, STOP_BOOTSTRAP, START_BOOTSTRAP, START_SECURED
      <3>3. CASE k \in {START_BOOTSTRAP, START_SECURED}
        BY <3>1, <3>3 DEF STOP_OLD, STOP_BOOTSTRAP, START_BOOTSTRAP, START_SECURED
      <3>4. CASE k \notin {STOP_OLD, STOP_BOOTSTRAP} /\ k \notin {START_BOOTSTRAP, START_SECURED}
        BY <3>1, <3>4
      <3> QED  BY <3>2, <3>3, <3>4
    <2>3. server'.life <= MaxLife
      BY DEF Landing
    <2>4. CASE server' = [up |-> TRUE, life |-> server.life + 1]
      <3>1. server'.life = server.life + 1
        BY <2>4
      <3>2. server.life + 1 \in 0..MaxLife
        BY <2>1, <2>3, <3>1, AliasConstants
      <3> QED  BY <2>4, <3>2
    <2>5. CASE server' = [up |-> FALSE, life |-> server.life]
      BY <2>1, <2>5
    <2>6. CASE server' = server
      BY <2>1, <2>6
    <2> QED  BY <2>2, <2>4, <2>5, <2>6
  <1>5. AliasTypeOK'
    <2>1. wire' \in SUBSET Ops
      BY <1>0, <1>1 DEF AliasTypeOK
    <2> QED  BY <1>0, <1>1, <1>3, <1>4, <2>1 DEF AliasTypeOK
  <1>6. CallerInv'
    <2> SUFFICES ASSUME NEW o \in Ops PROVE CallerOK(o)'
      BY DEF CallerInv
    <2>1. CallerOK(o)
      BY DEF AliasInv, CallerInv
    <2>2. CASE caller'[o] = caller[o]
      BY <1>1, <2>1, <2>2, CallerStays
    <2>3. CASE caller'[o] = "ended"
      BY <1>1, <2>1, <2>3 DEF CallerOK
    <2> QED  BY <1>2, <2>2, <2>3
  <1>7. OneOpen'
    BY <1>1, OneOpenStays DEF AliasInv, Open
  <1>8. Forward
    BY <1>1, <1>2 DEF Forward
  <1>9. SessionInv' /\ GateInv'
    BY <1>1, <1>8, SessionStays, GateStays DEF AliasInv, SessionInv
  <1> QED  BY <1>1, <1>2, <1>5, <1>6, <1>7, <1>9 DEF AliasInv

\* It is the command of the current action, and no process is past it.
LEMMA InflightIs ==
    ASSUME CutoverInv, NEW k \in inflight
    PROVE  /\ k = Current /\ k # ISSUE_ROLE_KEY /\ last # "none" /\ epoch # NoEpoch
           /\ record \in {"created", "unknown"}
           /\ \A c \in Controllers : ctl[c].pc # "settle"
  <1>0. CutoverTypeOK /\ OrderInv /\ ActionInv /\ ClaimInv
    BY InvParts
  <1>1. k = Current /\ k # ISSUE_ROLE_KEY /\ record \in {"created", "unknown"}
    BY <1>0 DEF OrderInv, CutoverTypeOK
  <1>2. last # "none"
    BY <1>0, <1>1 DEF OrderInv
  <1> QED  BY <1>0, <1>1, <1>2 DEF ClaimInv, ActionInv, ActionOK

LEMMA LandingKeeps ==
    ASSUME AliasInv, CutoverInv, NEW k \in Kinds, Landing(k)
    PROVE  CutoverInv'
  <1>0. /\ CutoverTypeOK /\ HolderInv /\ OrderInv /\ ActionInv /\ EndInv /\ ClaimInv /\ AppsInv
    BY InvParts
  <1>1. /\ submitted' = submitted /\ epoch' = epoch /\ done' = done /\ last' = last
        /\ record' = record /\ anchor' = anchor /\ floor' = floor /\ lock' = lock
        /\ ctl' = ctl /\ store' = store /\ UNCHANGED keyVars
    BY DEF Landing
  <1>2. /\ k \in inflight /\ inflight' = inflight \ {k} /\ applied' = applied \cup {k}
        /\ apps' = {} /\ (k # STOP_OLD => wire' = wire)
    BY DEF Landing
  <1>3. /\ k = Current /\ k # ISSUE_ROLE_KEY /\ last # "none" /\ epoch # NoEpoch
        /\ record \in {"created", "unknown"}
        /\ \A c \in Controllers : ctl[c].pc # "settle"
    BY <1>2, InflightIs
  <1>4. /\ phase' = phase /\ wire' \subseteq wire /\ (k = STOP_OLD => wire' = {})
        /\ \A o \in Ops : caller'[o] = IF /\ k = STOP_REGISTERED_APPS /\ o \in apps
                                          /\ caller[o] \in Running
                                       THEN "ended" ELSE caller[o]
    BY LandingEffect
  <1>5. CutoverTypeOK'
    BY <1>0, <1>1, <1>2 DEF CutoverTypeOK
  <1>6. HolderInv' /\ ActionInv'
    BY <1>0, <1>1, <1>3 DEF HolderInv, ActionInv, ActionOK, Current
  <1>7. OrderInv'
    <2>1. Current' = Current /\ k \in 1..Current
      BY <1>0, <1>1, <1>3, OrderFacts DEF Current
    <2>2. /\ 1..done' \subseteq applied' /\ applied' \subseteq 1..Current'
          /\ inflight' \subseteq {Current'} \ {ISSUE_ROLE_KEY}
      BY <1>0, <1>1, <1>2, <2>1 DEF OrderInv
    <2>3. record' \notin {"none", "intent", "finished"} /\ last' # "none" /\ done' < VERIFY_ACCESS
      BY <1>0, <1>1, <1>3 DEF OrderInv
    <2>4. \A j \in Kinds : submitted'[j] <= 1 /\ (j > Current' => submitted'[j] = 0)
      BY <1>0, <1>1, <2>1 DEF OrderInv
    <2> QED  BY <2>2, <2>3, <2>4 DEF OrderInv
  <1>8. EndInv' /\ ClaimInv'
    BY <1>0, <1>1, <1>3, <1>4, EndFrame, ClaimFrame
  <1>9. AppsInv'
    <2>1. \A o \in Ops : store'[o] = "none" <=> caller'[o] = "idle"
      BY <1>0, <1>1, <1>4 DEF AppsInv, Running
    <2>2. \A o \in Ops : ~RunningOriginal(o)'
      <3> SUFFICES ASSUME NEW o \in Ops, RunningOriginal(o)' PROVE FALSE
        OBVIOUS
      <3>1. /\ RunningOriginal(o)
            /\ ~(k = STOP_REGISTERED_APPS /\ o \in apps)
        BY <1>1, <1>4 DEF RunningOriginal, Running
      <3>2. STOP_REGISTERED_APPS \notin applied
        BY <1>0, <3>1 DEF AppsInv
      <3>3. k = STOP_REGISTERED_APPS
        BY <1>0, <1>3, <3>2, OrderFacts
      <3> QED  BY <1>0, <1>3, <3>1, <3>2, <3>3 DEF AppsInv
    <2>3. STOP_OLD \in applied' => \A o \in wire' : store'[o] = "secured"
      BY <1>0, <1>1, <1>2, <1>4 DEF AppsInv
    <2> QED  BY <1>0, <1>1, <2>1, <2>2, <2>3 DEF AppsInv
  <1> QED  BY <1>5, <1>6, <1>7, <1>8, <1>9 DEF CutoverInv

LEMMA LostKeeps ==
    ASSUME CutoverInv, NEW k \in Kinds, Lost(k)
    PROVE  CutoverInv'
  <1>0. /\ CutoverTypeOK /\ HolderInv /\ OrderInv /\ ActionInv /\ EndInv /\ ClaimInv /\ AppsInv
    BY InvParts
  <1>1. /\ submitted' = submitted /\ applied' = applied /\ epoch' = epoch /\ done' = done
        /\ last' = last /\ record' = record /\ apps' = apps /\ anchor' = anchor
        /\ floor' = floor /\ lock' = lock /\ ctl' = ctl /\ store' = store /\ UNCHANGED keyVars
        /\ phase' = phase /\ caller' = caller /\ wire' = wire
    BY AliasSame DEF Lost, epochVars
  <1>2. inflight' = inflight \ {k}
    BY DEF Lost
  <1>3. CutoverTypeOK'
    BY <1>0, <1>1, <1>2 DEF CutoverTypeOK
  <1>4. HolderInv' /\ ActionInv'
    BY <1>0, <1>1, <1>2 DEF HolderInv, ActionInv, ActionOK, Current
  <1>5. OrderInv'
    BY <1>0, <1>1, <1>2 DEF OrderInv, Current
  <1>6. EndInv' /\ ClaimInv' /\ AppsInv'
    BY <1>0, <1>1, EndFrame, ClaimFrame, AppsFrame
  <1> QED  BY <1>3, <1>4, <1>5, <1>6 DEF CutoverInv

LEMMA BootstrapKeeps ==
    ASSUME KeyTypeOK, KeyInv, CutoverInv, NEW r \in Roles, BootstrapKeys(r)
    PROVE  CutoverInv'
  <1>0. /\ CutoverTypeOK /\ HolderInv /\ OrderInv /\ ActionInv /\ EndInv /\ ClaimInv /\ AppsInv
    BY InvParts
  <1>1. /\ submitted' = submitted /\ inflight' = inflight /\ applied' = applied /\ epoch' = epoch
        /\ done' = done /\ last' = last /\ record' = record /\ apps' = apps /\ anchor' = anchor
        /\ floor' = floor /\ lock' = lock /\ ctl' = ctl /\ store' = store
        /\ phase' = phase /\ caller' = caller /\ wire' = wire
    BY AliasSame DEF BootstrapKeys, cutoverVars, epochVars, commandVars
  <1>2. ~KeysComplete
    BY CompleteStays DEF BootstrapKeys
  <1>3. CutoverTypeOK'
    BY <1>0, <1>1 DEF CutoverTypeOK
  <1>4. HolderInv' /\ ActionInv'
    BY <1>0, <1>1 DEF HolderInv, ActionInv, ActionOK, Current
  <1>5. EndInv'
    BY <1>0, <1>1, <1>2 DEF EndInv, Finished
  <1>6. OrderInv' /\ ClaimInv' /\ AppsInv'
    BY <1>0, <1>1, OrderFrame, ClaimFrame, AppsFrame
  <1> QED  BY <1>3, <1>4, <1>5, <1>6 DEF CutoverInv

\* A process starts: before there is an epoch on the original deployment, after its floor on the
\* secured one.
LEMMA LoadKeeps ==
    ASSUME AliasInv, CutoverInv, NEW o \in Ops, LoadNone(o) \/ LoadFloor(o)
    PROVE  CutoverInv'
  <1>0. /\ CutoverTypeOK /\ HolderInv /\ OrderInv /\ ActionInv /\ EndInv /\ ClaimInv /\ AppsInv
    BY InvParts
  <1>1. /\ submitted' = submitted /\ inflight' = inflight /\ applied' = applied /\ epoch' = epoch
        /\ done' = done /\ last' = last /\ record' = record /\ apps' = apps /\ anchor' = anchor
        /\ floor' = floor /\ lock' = lock /\ ctl' = ctl /\ UNCHANGED keyVars
    BY DEF LoadNone, LoadFloor, commandVars
  <1>2. /\ caller[o] = "idle" /\ caller' = [caller EXCEPT ![o] = "verify"]
        /\ phase' = phase /\ wire' = wire
    BY DEF LoadNone, LoadFloor, CallerStarts, journalVars
  <1>3. \/ epoch = NoEpoch /\ store' = [store EXCEPT ![o] = "original"]
        \/ floor /\ store' = [store EXCEPT ![o] = "secured"]
    BY DEF LoadNone, LoadFloor
  <1>4. caller'[o] = "verify" /\ \A p \in Ops : p # o => caller'[p] = caller[p]
    BY <1>2 DEF AliasInv, AliasTypeOK
  <1>5. /\ store' \in [Ops -> {"none", "original", "secured"}] /\ store'[o] # "none"
        /\ \A p \in Ops : p # o => store'[p] = store[p]
        /\ store'[o] = "original" => epoch = NoEpoch
        /\ store'[o] = "secured" => floor
    BY <1>0, <1>3 DEF CutoverTypeOK
  <1>6. o \notin wire /\ phase[o] = "none"
    BY <1>2 DEF AliasInv, CallerInv, CallerOK, Submitted
  <1>7. CutoverTypeOK'
    BY <1>0, <1>1, <1>5 DEF CutoverTypeOK
  <1>8. HolderInv' /\ ActionInv'
    BY <1>0, <1>1 DEF HolderInv, ActionInv, ActionOK, Current
  <1>9. OrderInv' /\ EndInv'
    BY <1>0, <1>1, OrderFrame, EndFrame
  <1>10. ClaimInv'
    <2>1. epoch # NoEpoch => epoch.claim.op \in Ops /\ epoch.claim.op # o
      BY <1>0, <1>6, ClaimFields DEF ClaimInv, Submitted
    <2> QED  BY <1>0, <1>1, <1>2, <1>5, <2>1 DEF ClaimInv, NoEpoch
  <1>11. AppsInv'
    <2>1. epoch = NoEpoch => /\ applied = {} /\ last = "none"
                             /\ \A c \in Controllers : ctl[c].prepared = 0
      BY <1>0 DEF ClaimInv
    <2>2. \A p \in Ops : RunningOriginal(p)' => epoch = NoEpoch \/ RunningOriginal(p)
      BY <1>4, <1>5 DEF RunningOriginal
    <2>3. \A p \in Ops : store'[p] = "none" <=> caller'[p] = "idle"
      BY <1>0, <1>4, <1>5 DEF AppsInv
    <2>4. \A p \in wire' : p \in Ops /\ store'[p] = store[p]
      BY <1>2, <1>5, <1>6 DEF AliasInv, AliasTypeOK
    <2>5. \A p \in Ops : store'[p] = "secured" => floor'
      BY <1>0, <1>1, <1>5 DEF AppsInv
    <2> QED  BY <1>0, <1>1, <1>2, <2>1, <2>2, <2>3, <2>4, <2>5 DEF AppsInv
  <1> QED  BY <1>7, <1>8, <1>9, <1>10, <1>11 DEF CutoverInv

------------------------------------------------------------------------------
(* Theorems *)

LEMMA EpochInitial ==
    ASSUME EpochInit
    PROVE  EpochInv
  <1>0. Init /\ KeyInit
    BY DEF EpochInit
  <1>1. KeyTypeOK /\ KeyInv
    BY <1>0, RoleConstants DEF KeyInit, KeyTypeOK, KeyInv, RoleInv, Unsettled
  <1>2. AliasTypeOK
    <2>1. NoClaim \in Claims \cup {NoClaim}
      OBVIOUS
    <2>2. gate \in [state : {"admitted", "frozen"}, claim : Claims \cup {NoClaim}]
      BY <1>0, <2>1 DEF Init
    <2>3. receipt \in [Requests -> [code : {"none", "not_dispatched", "recovered_terminated"},
                                    claim : Claims \cup {NoClaim}]]
      BY <1>0, <2>1 DEF Init
    <2>4. server \in [up : BOOLEAN, life : 0..MaxLife]
      BY <1>0, AliasConstants DEF Init
    <2>5. sess \in [Sessions -> [pc : SessionPc, claim : Claims \cup {NoClaim}, life : 0..MaxLife]]
      BY <1>0, IdleType DEF Init
    <2>6. /\ target \in [Ops -> Aliases]
          /\ phase \in [Ops -> {"none", "reserved"} \cup Submitted]
          /\ result \in [Ops -> {"none", "confirmed", "not_dispatched", "recovered_terminated"}]
          /\ caller \in [Ops -> Running \cup {"idle", "ended"}]
          /\ wire \in SUBSET Ops
          /\ live \in [Aliases -> Ops \cup {None}]
      BY <1>0 DEF Init, Submitted, Running
    <2> QED  BY <2>2, <2>3, <2>4, <2>5, <2>6 DEF AliasTypeOK
  <1>3. AliasInv
    <2>1. CallerInv
      BY <1>0 DEF Init, CallerInv, CallerOK, Submitted
    <2>2. OneOpen
      BY <1>0 DEF Init, OneOpen, Open
    <2>3. SessionInv
      BY <1>0 DEF Init, SessionInv, SessionOK, Idle, Collecting, PastClients, PastStop
    <2>4. GateInv
      BY <1>0, NoClaimFields DEF Init, GateInv, Submitted
    <2> QED  BY <1>2, <2>1, <2>2, <2>3, <2>4 DEF AliasInv
  <1>4. /\ epoch = NoEpoch /\ done = 0 /\ last = "none" /\ record = "none"
        /\ submitted = [k \in Kinds |-> 0] /\ inflight = {} /\ applied = {} /\ apps = {}
        /\ anchor = FALSE /\ floor = FALSE /\ lock = None
        /\ ctl = [c \in Controllers |-> Fresh]
        /\ store = [o \in Ops |-> IF caller[o] = "idle" THEN "none" ELSE "original"]
    BY DEF EpochInit
  <1>5. epoch.phase = "none"
    BY <1>4 DEF NoEpoch
  <1>6. /\ Fresh \in [pc : ControllerPc, prepared : 0..VERIFY_ACCESS, inventory : BOOLEAN]
        /\ Fresh.pc = "idle" /\ Fresh.prepared = 0
    BY DEF Fresh, ControllerPc, VERIFY_ACCESS
  <1>7. CutoverTypeOK
    <2>1. epoch \in [claim : Claims \cup {NoClaim},
                     phase : {"none", "prepared", "old_stopped", "old_retired",
                              "secured_started", "verified", "receipted"}]
      BY <1>4 DEF NoEpoch
    <2>2. done \in 0..VERIFY_ACCESS /\ submitted \in [Kinds -> 0..2]
      BY <1>4 DEF VERIFY_ACCESS
    <2>3. ctl \in [Controllers -> [pc : ControllerPc, prepared : 0..VERIFY_ACCESS,
                                   inventory : BOOLEAN]]
      BY <1>4, <1>6
    <2>4. anchor \in BOOLEAN /\ floor \in BOOLEAN
      BY <1>4
    <2>5. store \in [Ops -> {"none", "original", "secured"}]
      BY <1>4
    <2> QED  BY <1>4, <2>1, <2>2, <2>3, <2>4, <2>5 DEF CutoverTypeOK
  <1>8. HolderInv /\ ActionInv
    BY <1>4, <1>6 DEF HolderInv, ActionInv, ActionOK
  <1>9. OrderInv
    <2>1. 1..done = {}
      BY <1>4
    <2>2. \A k \in Kinds : submitted[k] = 0
      BY <1>4
    <2> QED  BY <1>4, <2>1, <2>2 DEF OrderInv
  <1>10. EndInv
    BY <1>4, <1>5 DEF EndInv, Finished, ISSUE_ROLE_KEY
  <1>11. ClaimInv
    BY <1>4, <1>6 DEF ClaimInv
  <1>12. AppsInv
    BY <1>4, <1>6 DEF AppsInv
  <1> QED  BY <1>1, <1>3, <1>7, <1>8, <1>9, <1>10, <1>11, <1>12 DEF EpochInv, CutoverInv

LEMMA EpochStep ==
    ASSUME EpochInv, [Next]_vars
    PROVE  EpochInv'
  <1>0. KeyTypeOK /\ KeyInv /\ AliasInv /\ CutoverInv
    BY DEF EpochInv
  <1>1. CASE UNCHANGED vars
    <2>1. UNCHANGED aliasVars /\ UNCHANGED keyVars /\ UNCHANGED cutoverVars
      BY <1>1 DEF vars
    <2>2. AliasInv' /\ KeyTypeOK' /\ KeyInv'
      BY <1>0, <2>1, AliasFrame, KeysFrame
    <2>3. Onward
      BY <2>1, AliasSame DEF Onward
    <2> QED  BY <1>0, <2>1, <2>2, <2>3, OnwardKeeps DEF EpochInv
  <1>2. CASE AliasStep
    <2>1. UNCHANGED <<keyVars, cutoverVars>>
      BY <1>2 DEF AliasStep
    <2>2. AliasInv' /\ Onward
      BY <1>0, <1>2, AliasStepKeeps, AliasStepOnward
    <2>3. UNCHANGED keyVars
      BY <2>1
    <2> QED  BY <1>0, <2>1, <2>2, <2>3, KeysFrame, OnwardKeeps DEF EpochInv
  <1>3. CASE \E c \in Controllers : ControllerNext(c)
    BY <1>0, <1>3, ControllerKeeps DEF EpochInv
  <1>4. CASE \E k \in Kinds : Landing(k)
    <2>1. UNCHANGED keyVars
      BY <1>4 DEF Landing
    <2> QED  BY <1>0, <1>4, <2>1, KeysFrame, LandingEffect, LandingKeeps DEF EpochInv
  <1>5. CASE \E k \in Kinds : Lost(k)
    <2>1. UNCHANGED aliasVars /\ UNCHANGED keyVars
      BY <1>5 DEF Lost
    <2> QED  BY <1>0, <1>5, <2>1, KeysFrame, AliasFrame, LostKeeps DEF EpochInv
  <1>6. CASE \E r \in Roles : BootstrapKeys(r)
    <2>1. PICK r \in Roles : BootstrapKeys(r)
      BY <1>6
    <2>2. UNCHANGED aliasVars /\ KeyServer(r)
      BY <2>1 DEF BootstrapKeys
    <2> QED  BY <1>0, <2>1, <2>2, KeyServerKeeps, AliasFrame, BootstrapKeeps DEF EpochInv
  <1>7. CASE \E o \in Ops : LoadNone(o) \/ LoadFloor(o)
    <2>1. PICK o \in Ops : LoadNone(o) \/ LoadFloor(o)
      BY <1>7
    <2>2. UNCHANGED keyVars /\ CallerStarts(o)
      BY <2>1 DEF LoadNone, LoadFloor
    <2> QED  BY <1>0, <2>1, <2>2, KeysFrame, CallerStepKeeps, LoadKeeps DEF EpochInv
  <1>8. CASE \E o \in Ops : Admit(o)
    <2>1. PICK o \in Ops : Admit(o)
      BY <1>8
    <2>2. UNCHANGED <<keyVars, cutoverVars>> /\ UNCHANGED keyVars /\ CallerAdmitted(o)
      BY <2>1 DEF Admit
    <2>3. AliasInv' /\ Onward
      BY <1>0, <2>2, CallerStepKeeps, CallersOnward
    <2> QED  BY <1>0, <2>2, <2>3, KeysFrame, OnwardKeeps DEF EpochInv
  <1> QED  BY <1>1, <1>2, <1>3, <1>4, <1>5, <1>6, <1>7, <1>8 DEF Next

\* The inductive invariant of the journal, the keys and the cutover.
THEOREM EpochInvariant == Spec => []EpochInv
  <1>1. EpochInit => EpochInv
    BY EpochInitial
  <1>2. EpochInv /\ [Next]_vars => EpochInv'
    BY EpochStep
  <1> QED  BY <1>1, <1>2, PTL DEF Spec

\* Every variable of the journal, the keys and the cutover keeps its type.
THEOREM EpochTypeCorrect == Spec => []TypeOK
  <1>1. EpochInv => TypeOK
    BY DEF EpochInv, AliasInv, CutoverInv, CutoverTypeOK, ControllerPc, TypeOK
  <1> QED  BY <1>1, EpochInvariant, PTL

\* Whoever closes an operation, the process that runs it, an operator's session or a cutover:
\* nothing of it is on the way any more (alias_recovery_repository.close, close_access_epoch).
THEOREM ClosedIsOverHolds == Spec => []ClosedIsOver
  <1>1. EpochInv => ClosedIsOver
    BY DEF EpochInv, AliasInv, CallerInv, CallerOK, ClosedIsOver
  <1> QED  BY <1>1, EpochInvariant, PTL

\* A complete group has one key per role, for every number of roles and of lost answers
\* (BootstrapRoleKeyGroup.advance).
THEOREM OneKeyPerRoleHolds == Spec => []OneKeyPerRole
  <1>1. EpochInv => OneKeyPerRole
    BY CompleteIsOne DEF EpochInv
  <1> QED  BY <1>1, EpochInvariant, PTL

\* The twelve actions are run once, take effect in order and precede the end of the cutover,
\* whichever controllers come and go (reserve_action, ProtectedControlJournal).
THEOREM CutoverInOrderHolds == Spec => []CutoverInOrder
  <1>1. EpochInv => CutoverInOrder
    <2> SUFFICES ASSUME EpochInv PROVE CutoverInOrder
      OBVIOUS
    <2>0. CutoverTypeOK /\ OrderInv /\ EndInv
      BY InvParts DEF EpochInv
    <2>1. \A k \in Kinds : submitted[k] <= 1
      BY <2>0 DEF OrderInv
    <2>2. \A k \in applied : 1..k \subseteq applied
      <3> SUFFICES ASSUME NEW k \in applied PROVE 1..k \subseteq applied
        OBVIOUS
      <3>1. k \in 1..(done + 1) /\ done \in 0..12 /\ 1..done \subseteq applied
        BY <2>0 DEF OrderInv, Current, CutoverTypeOK, VERIFY_ACCESS
      <3>2. \A j \in 1..k : j \in 1..done \/ j = k
        BY <3>1
      <3> QED  BY <3>1, <3>2
    <2>3. ASSUME anchor \/ floor \/ epoch.phase = "receipted"
          PROVE  applied = Kinds /\ inflight = {} /\ KeysComplete
      <3>1. done = VERIFY_ACCESS
        BY <2>0, <2>3 DEF EndInv, Finished
      <3>2. KeysComplete
        BY <2>0, <3>1 DEF EndInv, ISSUE_ROLE_KEY, VERIFY_ACCESS
      <3> QED  BY <2>0, <3>1, <3>2, OrderFacts
    <2> QED  BY <2>1, <2>2, <2>3 DEF CutoverInOrder
  <1> QED  BY <1>1, EpochInvariant, PTL

\* No application outlives its deployment: not one of the original deployment after the retirement,
\* not one of the secured deployment without floor and anchor (AccessEpochAdmission.verify).
THEOREM AppsMatchEpochHolds == Spec => []AppsMatchEpoch
  <1>1. EpochInv => AppsMatchEpoch
    <2> SUFFICES ASSUME EpochInv PROVE AppsMatchEpoch
      OBVIOUS
    <2>1. AppsInv /\ EndInv
      BY InvParts DEF EpochInv
    <2> QED  BY <2>1 DEF AppsMatchEpoch, AppsInv, EndInv, RunningOriginal
  <1> QED  BY <1>1, EpochInvariant, PTL

\* An alias moves only when the server applies a request.
LEMMA OnlyApplyMoves ==
    ASSUME [Next]_vars
    PROVE  live' = live \/ \E o \in Ops : Apply(o)
  <1>1. CASE UNCHANGED vars
    BY <1>1 DEF vars, aliasVars
  <1>2. CASE \E o \in Ops : CallerNext(o)
    BY <1>2 DEF CallerNext, Reserve, Dispatch, Send, Observe, Finish, CallerEnds
  <1>3. CASE ServerDies \/ OperatorStarts
    BY <1>3 DEF ServerDies, OperatorStarts
  <1>4. ASSUME NEW s \in Sessions, SessionNext(s) \/ Identify(s) \/ Start(s) PROVE live' = live
    <2>1. CASE \E r \in Requests, o \in Ops :
                 Preview(s, r, o) \/ Recover(s, r, o) \/ ReadRelease(s, r, o)
      BY <2>1 DEF Preview, Recover, ReadRelease
    <2>2. CASE \/ Freeze(s) \/ Release(s) \/ CloseNotDispatched(s) \/ CloseTerminated(s)
      BY <2>2 DEF Freeze, Release, CloseNotDispatched, CloseTerminated
    <2>3. CASE \/ SessionEnds(s) \/ ObserveClients(s) \/ CheckStop(s) \/ Stop(s)
               \/ CheckStart(s) \/ Prove(s) \/ Revalidate(s) \/ Identify(s) \/ Start(s)
      BY <2>3 DEF SessionEnds, ObserveClients, CheckStop, Stop, CheckStart, Prove, Revalidate,
                  Identify, Start
    <2> QED  BY <1>4, <2>1, <2>2, <2>3 DEF SessionNext
  <1>5. CASE AliasStep
    BY <1>2, <1>3, <1>4, <1>5 DEF AliasStep
  <1>6. ASSUME NEW c \in Controllers, ControllerNext(c) PROVE live' = live
    <2>1. CASE CloseEpoch(c)
      BY <2>1 DEF CloseEpoch
    <2>2. CASE \/ AcquireEpoch(c) \/ ReadNoActions(c) \/ TakeLock(c) \/ Expected(c)
               \/ ReserveAction(c) \/ Execute(c) \/ RunCommand(c) \/ WaitDone(c) \/ CutOff(c)
               \/ ObserveEnd(c)
      BY <2>2 DEF AcquireEpoch, ReadNoActions, TakeLock, Expected, ReserveAction, Execute,
                  RunCommand, WaitDone, CutOff, ObserveEnd, aliasVars
    <2>3. CASE \/ Settle(c) \/ Reconcile(c) \/ AdvanceFails(c) \/ KeyStep(c) \/ KeysDone(c)
               \/ KeysUnresolved(c) \/ SettleUnknown(c) \/ CommitAnchor(c) \/ MarkVerified(c)
               \/ ControllerEnds(c)
      BY <2>3 DEF Settle, Reconcile, AdvanceFails, KeyStep, KeysDone, KeysUnresolved,
                  SettleUnknown, CommitAnchor, MarkVerified, ControllerEnds, aliasVars
    <2> QED  BY <1>6, <2>1, <2>2, <2>3 DEF ControllerNext
  <1>7. CASE \E k \in Kinds : Landing(k) \/ Lost(k)
    BY <1>7 DEF Landing, Lost, aliasVars
  <1>8. CASE \E r \in Roles : BootstrapKeys(r)
    BY <1>8 DEF BootstrapKeys, aliasVars
  <1>9. CASE \E o \in Ops : LoadNone(o) \/ LoadFloor(o) \/ Admit(o)
    BY <1>9 DEF LoadNone, LoadFloor, Admit, CallerStarts, CallerAdmitted
  <1> QED  BY <1>1, <1>5, <1>6, <1>7, <1>8, <1>9 DEF Next

\* An alias moves to the one operation that is open on it, whatever was given up before
\* (run_alias_operation).
THEOREM OnlyOpenMovesHolds == Spec => OnlyOpenMoves
  <1>1. EpochInv /\ [Next]_vars =>
          [\A a \in Aliases : live'[a] # live[a] =>
             {o \in Ops : target[o] = a /\ Open(o)} = {live'[a]}]_live
    <2> SUFFICES ASSUME EpochInv, [Next]_vars, live' # live, NEW a \in Aliases, live'[a] # live[a]
                 PROVE  {o \in Ops : target[o] = a /\ Open(o)} = {live'[a]}
      OBVIOUS
    <2>1. PICK p \in Ops : Apply(p)
      BY OnlyApplyMoves
    <2>2. AliasTypeOK /\ CallerOK(p) /\ OneOpen
      BY DEF EpochInv, AliasInv, CallerInv
    <2>3. p \in wire /\ live' = [live EXCEPT ![target[p]] = p]
      BY <2>1 DEF Apply
    <2>4. target[p] = a /\ live'[a] = p
      BY <2>2, <2>3 DEF AliasTypeOK
    <2>5. Open(p)
      BY <2>2, <2>3 DEF CallerOK, Open, Submitted
    <2>6. \A o \in Ops : target[o] = a /\ Open(o) => o = p
      BY <2>2, <2>4, <2>5 DEF OneOpen
    <2> QED  BY <2>4, <2>5, <2>6
  <1> QED  BY <1>1, EpochInvariant, PTL DEF Spec, OnlyOpenMoves
=============================================================================
