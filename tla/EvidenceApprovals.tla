-------------------------- MODULE EvidenceApprovals --------------------------
(***************************************************************************)
(* The owner's approvals of document revisions as evidence for the         *)
(* external Codex provider, and the review requests of other readers.      *)
(* A grant has a generation that every approval or revocation increments   *)
(* and an append-only list of events that are also the receipts of the     *)
(* requests: a request is named by its actor and request_id, and its       *)
(* digest is everything else it says.                                      *)
(*                                                                         *)
(* One transaction of the code is one step: each holds the asset row and   *)
(* the advisory lock of its receipt from its first read to its commit.     *)
(* There is one provider, and a revision has one content digest for good.  *)
(***************************************************************************)
EXTENDS Integers, FiniteSets

CONSTANTS
    Revisions,     \* asset versions that serve as evidence
    Actors,        \* users; each may review, approve and ask for reviews
    RequestIds,    \* request_id values the clients choose
    Classes,       \* classifications: public, synthetic
    Reviews,       \* identifiers of review rows
    MaxGeneration, \* bound on the transitions of one grant
    None           \* an empty column

ASSUME EvidenceAssumption ==
    /\ MaxGeneration \in Nat
    /\ None \notin Actors \cup RequestIds \cup Revisions \cup Classes

VARIABLES
    grant,     \* grant[r]: row of rag_evidence_approval_states
    events,    \* rows of rag_evidence_approval_events
    review,    \* review[v]: row of rag_evidence_approval_requests
    receipts   \* rows of rag_evidence_approval_request_receipts

evidenceVars == <<grant, events, review, receipts>>

GrantStatus == {"unapproved", "approved", "revoked"}
Grant == [generation : Nat, status : GrantStatus, class : Classes \cup {None}]
Digest == [revision : Revisions, action : {"approve", "revoke"},
           class : Classes \cup {None}, expected : Nat]
Event == [actor : Actors, request : RequestIds, generation : Nat, digest : Digest]
ReviewStatus == {"none", "pending", "approved", "rejected"}
Review == [status : ReviewStatus, requester : Actors \cup {None},
           revision : Revisions \cup {None}, by : Actors \cup {None},
           request : RequestIds \cup {None}]
Receipt == [actor : Actors, request : RequestIds, revision : Revisions,
            expected : Nat, review : Reviews]

EvidenceTypeOK ==
    /\ grant \in [Revisions -> Grant]
    /\ events \subseteq Event
    /\ review \in [Reviews -> Review]
    /\ receipts \subseteq Receipt

EvidenceInit ==
    /\ grant = [r \in Revisions |-> [generation |-> 0, status |-> "unapproved", class |-> None]]
    /\ events = {}
    /\ review = [v \in Reviews |-> [status |-> "none", requester |-> None, by |-> None,
                                    revision |-> None, request |-> None]]
    /\ receipts = {}

-----------------------------------------------------------------------------
\* mutate_evidence_approval, called with the asset row locked.  A request whose
\* receipt exists only returns its generation, and conflicts if it says
\* something else; otherwise the generation it expects must be the current one.

DigestOf(r, action, c, expected) ==
    [revision |-> r, action |-> action, class |-> c, expected |-> expected]

ReceiptOf(a, q) == {e \in events : e.actor = a /\ e.request = q}

ReplayedMutant(a, q, d) ==
    \E e \in ReceiptOf(a, q) : e.digest = [d EXCEPT !.expected = e.digest.expected]
Replayed(a, q, d) == \E e \in ReceiptOf(a, q) : e.digest = d

ApplicableMutant(a, q, d) ==
    /\ ReceiptOf(a, q) = {}
    /\ (d.action = "approve") <=> (grant[d.revision].status # "approved")
Applicable(a, q, d) ==
    /\ ReceiptOf(a, q) = {}
    /\ grant[d.revision].generation = d.expected
    /\ (d.action = "approve") <=> (grant[d.revision].status # "approved")

NextGrant(g, d) ==
    IF d.action = "approve"
    THEN [generation |-> g.generation + 1, status |-> "approved", class |-> d.class]
    ELSE [generation |-> g.generation + 1, status |-> "revoked", class |-> g.class]

Mutate(a, q, d) ==
    \/ Replayed(a, q, d) /\ UNCHANGED <<grant, events>>
    \/ /\ Applicable(a, q, d)
       /\ grant' = [grant EXCEPT ![d.revision] = NextGrant(@, d)]
       /\ events' = events \cup {[actor |-> a, request |-> q, digest |-> d,
                                  generation |-> grant[d.revision].generation + 1]}

\* approve_evidence and revoke_evidence.
ApproveEvidence(a, q, r, c, expected) ==
    /\ expected < MaxGeneration
    /\ Mutate(a, q, DigestOf(r, "approve", c, expected))
    /\ UNCHANGED <<review, receipts>>

RevokeEvidence(a, q, r, expected) ==
    /\ expected < MaxGeneration
    /\ Mutate(a, q, DigestOf(r, "revoke", None, expected))
    /\ UNCHANGED <<review, receipts>>

-----------------------------------------------------------------------------
\* create: a repetition with the same digest only reads; a second request for
\* a pending review gets a receipt for that review instead of a row.

Pending(a, r) ==
    {v \in Reviews : review[v].status = "pending" /\ review[v].requester = a
                                                  /\ review[v].revision = r}

PendingReview(a, r) ==
    [status |-> "pending", requester |-> a, revision |-> r, by |-> None, request |-> None]

CreateReview(a, q, r, expected) ==
    /\ ~ \E s \in receipts : s.actor = a /\ s.request = q
    /\ grant[r].generation = expected
    /\ grant[r].status # "approved"
    /\ \E v \in IF Pending(a, r) # {} THEN Pending(a, r)
                ELSE {u \in Reviews : review[u].status = "none"} :
          /\ review' = IF v \in Pending(a, r) THEN review
                       ELSE [review EXCEPT ![v] = PendingReview(a, r)]
          /\ receipts' = receipts \cup {[actor |-> a, request |-> q, revision |-> r,
                                         expected |-> expected, review |-> v]}
    /\ UNCHANGED <<grant, events>>

\* decide: an approval of what is approved already is linked to that grant if
\* it has the same classification, and otherwise made under the same request.
Granted(a, q, v, c, expected) ==
    LET r == review[v].revision
    IN IF grant[r].status = "approved"
       THEN grant[r].class = c /\ UNCHANGED <<grant, events>>
       ELSE Mutate(a, q, DigestOf(r, "approve", c, expected))

Undecided(a, q, v, expected) ==
    /\ ~ \E u \in Reviews : review[u].by = a /\ review[u].request = q
    /\ review[v].status = "pending"
    /\ grant[review[v].revision].generation = expected

Decided(a, q, v, status) ==
    review' = [review EXCEPT ![v] = [status |-> status, requester |-> @.requester,
                                     revision |-> @.revision, by |-> a, request |-> q]]

DecideApprove(a, q, v, c, expected) ==
    /\ expected < MaxGeneration
    /\ Undecided(a, q, v, expected)
    /\ Granted(a, q, v, c, expected)
    /\ Decided(a, q, v, "approved")
    /\ UNCHANGED receipts

DecideReject(a, q, v, expected) ==
    /\ Undecided(a, q, v, expected)
    /\ Decided(a, q, v, "rejected")
    /\ UNCHANGED <<grant, events, receipts>>

-----------------------------------------------------------------------------
\* All steps about revision r.
EvidenceStep(r) ==
    \E a \in Actors, q \in RequestIds, expected \in 0 .. MaxGeneration :
        \/ \E c \in Classes : ApproveEvidence(a, q, r, c, expected)
        \/ RevokeEvidence(a, q, r, expected)
        \/ CreateReview(a, q, r, expected)
        \/ \E v \in {u \in Reviews : review[u].revision = r} :
              \/ \E c \in Classes : DecideApprove(a, q, v, c, expected)
              \/ DecideReject(a, q, v, expected)

EvidenceSpec == EvidenceInit /\ [][\E r \in Revisions : EvidenceStep(r)]_evidenceVars

-----------------------------------------------------------------------------
\* The events of a revision are its history: one for each generation up to the
\* grant's, approvals and revocations in turn, the last one being the grant's
\* status (mutate_evidence_approval).
EvidenceHistory ==
    \A r \in Revisions :
        LET past == {e \in events : e.digest.revision = r}
        IN /\ {e.generation : e \in past} = 1 .. grant[r].generation
           /\ \A d, e \in past : d.generation = e.generation => d = e
           /\ \A e \in past :
                 /\ e.digest.expected = e.generation - 1
                 /\ (e.digest.action = "approve") <=> (e.generation % 2 = 1)
           /\ (grant[r].status = "approved") <=> (grant[r].generation % 2 = 1)

\* A review is only ever resolved as approved while its revision is approved,
\* also when the request_id of the decision was used before (decide).
ApprovedReviewsHaveGrants ==
    [][\A v \in Reviews :
          review[v].status # "approved" /\ review'[v].status = "approved" =>
              grant'[review[v].revision].status = "approved"]_evidenceVars

=============================================================================
