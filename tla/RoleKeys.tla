------------------------------- MODULE RoleKeys -------------------------------
(***************************************************************************)
(* The keys of the secured search node: one per role, each issued by a     *)
(* command that may be cut off before its answer is seen.                  *)
(*                                                                         *)
(* access_epoch_keys.py reserves every issue and every invalidation before *)
(* the command runs, access_epoch_role_keys.py drives them role by role,   *)
(* access_epoch_key_process.py records each helper process and refuses a   *)
(* new mutation while an earlier helper has no recorded end.  A command    *)
(* whose end is unknown is looked up, never sent again; a key that exists  *)
(* without its secret in the private store is invalidated before another   *)
(* one is issued.                                                          *)
(***************************************************************************)
EXTENDS Naturals, Sequences

CONSTANTS
    KEY_ROLES,      \* sequence of the roles, in the order of their issue
    MaxIssues       \* bound: issues of one role

ASSUME RoleConstants == MaxIssues \in Nat \ {0}

VARIABLES
    issue,      \* child events: outcome of the latest issue of a role
    revoke,     \* child events: outcome of the invalidation of that issue
    round,      \* number of the latest issue of a role
    helper,     \* records of the helper processes: all ended, one running, one cut off
    posts,      \* commands the server may still carry out: <<role, kind, round>>
    active,     \* keys the server accepts, by role
    secret      \* private store: round of the key whose secret is kept

keyVars == <<issue, revoke, round, helper, posts, active, secret>>

Roles == {KEY_ROLES[i] : i \in DOMAIN KEY_ROLES}
Unsettled == {"pending", "unknown"}

KeyInit ==
    /\ issue = [r \in Roles |-> "none"]
    /\ revoke = [r \in Roles |-> "none"]
    /\ round = [r \in Roles |-> 0]
    /\ helper = "ended"
    /\ posts = {}
    /\ active = [r \in Roles |-> {}]
    /\ secret = [r \in Roles |-> 0]

AllSettled == \A r \in Roles : issue[r] \notin Unsettled /\ revoke[r] \notin Unsettled

\* The first role without an issued key (reserve_issue, BootstrapRoleKeyGroup.advance).
Needed(r) ==
    \E i \in DOMAIN KEY_ROLES :
        /\ KEY_ROLES[i] = r /\ issue[r] # "issued"
        /\ \A j \in 1..(i - 1) : issue[KEY_ROLES[j]] = "issued"

ReserveIssueMutant(r) ==
    /\ AllSettled /\ Needed(r)
    /\ issue[r] \in {"none", "inaccessible"}
    /\ round[r] < MaxIssues
    /\ issue' = [issue EXCEPT ![r] = "pending"]
    /\ revoke' = [revoke EXCEPT ![r] = "none"]
    /\ round' = [round EXCEPT ![r] = @ + 1]
    /\ UNCHANGED <<helper, posts, active, secret>>

\* reserve_issue: the first issue, or the one that replaces an invalidated key.
ReserveIssue(r) ==
    /\ AllSettled /\ Needed(r)
    /\ issue[r] = "none" \/ (issue[r] = "inaccessible" /\ revoke[r] = "invalidated")
    /\ round[r] < MaxIssues
    /\ issue' = [issue EXCEPT ![r] = "pending"]
    /\ revoke' = [revoke EXCEPT ![r] = "none"]
    /\ round' = [round EXCEPT ![r] = @ + 1]
    /\ UNCHANGED <<helper, posts, active, secret>>

\* reserve_invalidation, after a lookup that found the key still accepted.
ReserveInvalidation(r) ==
    /\ AllSettled /\ Needed(r)
    /\ issue[r] = "inaccessible" /\ revoke[r] = "none"
    /\ round[r] \in active[r]
    /\ revoke' = [revoke EXCEPT ![r] = "pending"]
    /\ UNCHANGED <<issue, round, helper, posts, active, secret>>

\* RecordedBootstrapKeyCommands.execute of a fresh reservation: the helper leaves.  Until it ends
\* its record stands at process_created.
SubmitIssue(r) ==
    /\ issue[r] = "pending" /\ helper = "ended"
    /\ <<r, "issue", round[r]>> \notin posts /\ round[r] \notin active[r]
    /\ helper' = "running"
    /\ posts' = posts \cup {<<r, "issue", round[r]>>}
    /\ UNCHANGED <<issue, revoke, round, active, secret>>

SubmitInvalidation(r) ==
    /\ revoke[r] = "pending" /\ helper = "ended"
    /\ round[r] \in active[r] /\ <<r, "invalidate", round[r]>> \notin posts
    /\ helper' = "running"
    /\ posts' = posts \cup {<<r, "invalidate", round[r]>>}
    /\ UNCHANGED <<issue, revoke, round, active, secret>>

\* The server carries a command out, or never gets it.
KeyServer(r) ==
    \E n \in 1..MaxIssues, k \in {"issue", "invalidate"} :
        /\ <<r, k, n>> \in posts
        /\ posts' = posts \ {<<r, k, n>>}
        /\ \/ active' = [active EXCEPT ![r] = IF k = "issue" THEN @ \cup {n} ELSE @ \ {n}]
           \/ UNCHANGED active
        /\ UNCHANGED <<issue, revoke, round, helper, secret>>

\* The helper ends and its answer is decoded; the secret is stored and read back, then settled.
\* The settlement may be lost after the secret is stored.
IssueAnswered(r) ==
    /\ issue[r] = "pending" /\ helper = "running"
    /\ round[r] \in active[r] /\ secret[r] = 0
    /\ helper' = "ended"
    /\ secret' = [secret EXCEPT ![r] = round[r]]
    /\ \/ issue' = [issue EXCEPT ![r] = "issued"]
       \/ issue' = [issue EXCEPT ![r] = "unknown"]
    /\ UNCHANGED <<revoke, round, posts, active>>

InvalidationAnswered(r) ==
    /\ revoke[r] = "pending" /\ helper = "running"
    /\ round[r] \notin active[r]
    /\ helper' = "ended"
    /\ revoke' = [revoke EXCEPT ![r] = "invalidated"]
    /\ UNCHANGED <<issue, round, posts, active, secret>>

\* The command was refused, or its answer is not usable.  A helper that ended has a record and
\* leaves nothing behind; one that was cut off has none, and its command may still arrive.
AnswerLost(r) ==
    /\ issue[r] = "pending" \/ revoke[r] = "pending"
    /\ IF issue[r] = "pending"
       THEN issue' = [issue EXCEPT ![r] = "unknown"] /\ UNCHANGED revoke
       ELSE revoke' = [revoke EXCEPT ![r] = "unknown"] /\ UNCHANGED issue
    /\ \/ helper # "running" /\ UNCHANGED helper
       \/ helper = "running" /\ helper' = "cut_off"
       \/ helper = "running" /\ helper' = "ended"
          /\ \A k \in {"issue", "invalidate"}, n \in 1..MaxIssues : <<r, k, n>> \notin posts
    /\ UNCHANGED <<round, posts, active, secret>>

\* The helper of a lookup is cut off: its record blocks every later mutation as well.
LookupLost ==
    /\ helper = "ended"
    /\ ~AllSettled
    /\ helper' = "cut_off"
    /\ UNCHANGED <<issue, revoke, round, posts, active, secret>>

\* _recover: an unresolved command is looked up by its issuance.  A key that is not found leaves
\* the command unresolved.
RecoverIssue(r) ==
    /\ issue[r] \in Unsettled
    /\ round[r] \in active[r]
    /\ issue' = [issue EXCEPT ![r] = IF secret[r] = round[r] THEN "issued" ELSE "inaccessible"]
    /\ UNCHANGED <<revoke, round, helper, posts, active, secret>>

RecoverInvalidation(r) ==
    /\ revoke[r] \in Unsettled
    /\ round[r] \notin active[r]
    /\ revoke' = [revoke EXCEPT ![r] = "invalidated"]
    /\ UNCHANGED <<issue, round, helper, posts, active, secret>>

\* key_group_manifest
KeysComplete == AllSettled /\ \A r \in Roles : issue[r] = "issued"

KeyGroupNext ==
    \/ LookupLost
    \/ \E r \in Roles :
        \/ ReserveIssue(r) \/ ReserveInvalidation(r) \/ SubmitIssue(r) \/ SubmitInvalidation(r)
        \/ IssueAnswered(r) \/ InvalidationAnswered(r) \/ AnswerLost(r)
        \/ RecoverIssue(r) \/ RecoverInvalidation(r)

------------------------------------------------------------------------------
KeyTypeOK ==
    /\ issue \in [Roles -> {"none", "issued", "inaccessible"} \cup Unsettled]
    /\ revoke \in [Roles -> {"none", "invalidated"} \cup Unsettled]
    /\ round \in [Roles -> 0..MaxIssues]
    /\ helper \in {"ended", "running", "cut_off"}
    /\ posts \in SUBSET (Roles \X {"issue", "invalidate"} \X (1..MaxIssues))
    /\ active \in [Roles -> SUBSET (1..MaxIssues)]
    /\ secret \in [Roles -> 0..MaxIssues]

\* When the group of keys is complete, every role has exactly the one key whose secret is in the
\* private store, and no command is left that could add or remove another: a command with an
\* unknown end was never repeated (BootstrapRoleKeyGroup.advance, key_group_manifest).
OneKeyPerRole ==
    KeysComplete => \A r \in Roles :
        /\ active[r] = {round[r]} /\ secret[r] = round[r]
        /\ \A n \in 1..MaxIssues, k \in {"issue", "invalidate"} : <<r, k, n>> \notin posts
==============================================================================
