--------------------------- MODULE ExecutionProofs ---------------------------
(***************************************************************************)
(* Proofs about the executions of models: evidence approvals and calls of  *)
(* the external runner (EvidenceApprovals, CodexExecution) for any number  *)
(* of revisions, requests, reviews, calls, runner settings and faults, and *)
(* evaluation runs (EvaluationRuns, GenerativeRuns) for any number of      *)
(* candidates, cases, slots, workers, deliveries, retries and faults.      *)
(***************************************************************************)
EXTENDS CodexExecution, EvaluationRuns, GenerativeRuns, FiniteSets, SequenceTheorems,
        FiniteSetTheorems, TLAPS

-----------------------------------------------------------------------------
(* Evidence approvals.                                                      *)

EvidenceInv == EvidenceTypeOK /\ EvidenceHistory

LEMMA Parity == \A n \in Nat : ((n + 1) % 2 = 1) <=> (n % 2 # 1)
  BY SMT

\* What one approval or revocation leaves behind, applied or repeated.
LEMMA MutateStep ==
    ASSUME EvidenceInv, NEW a \in Actors, NEW q \in RequestIds, NEW d \in Digest, Mutate(a, q, d)
    PROVE  /\ grant' \in [Revisions -> Grant]
           /\ events' \subseteq Event
           /\ EvidenceHistory'
           /\ \A r \in Revisions \ {d.revision} : grant'[r] = grant[r]
  <1>1. CASE UNCHANGED <<grant, events>>
    BY <1>1 DEF EvidenceInv, EvidenceTypeOK, EvidenceHistory
  <1>2. CASE /\ Applicable(a, q, d)
             /\ grant' = [grant EXCEPT ![d.revision] = NextGrant(@, d)]
             /\ events' = events \cup {[actor |-> a, request |-> q, digest |-> d,
                                        generation |-> grant[d.revision].generation + 1]}
    <2> DEFINE r0 == d.revision
               g == grant[r0].generation
               new == [actor |-> a, request |-> q, digest |-> d, generation |-> g + 1]
    <2>1. /\ r0 \in Revisions /\ g \in Nat /\ d.expected = g
          /\ d.action \in {"approve", "revoke"} /\ d.class \in Classes \cup {None}
          /\ (d.action = "approve") <=> (grant[r0].status # "approved")
      BY <1>2 DEF EvidenceInv, EvidenceTypeOK, Digest, Grant, Applicable
    <2>2. new \in Event
      BY <2>1 DEF Event
    <2>3. events' = events \cup {new}
      BY <1>2
    <2>4. NextGrant(grant[r0], d) \in Grant
      BY <2>1 DEF NextGrant, Grant, GrantStatus, EvidenceInv, EvidenceTypeOK
    <2>5. grant' \in [Revisions -> Grant] /\ \A r \in Revisions \ {r0} : grant'[r] = grant[r]
      BY <1>2, <2>1, <2>4 DEF EvidenceInv, EvidenceTypeOK
    <2>6. grant'[r0] = NextGrant(grant[r0], d)
      BY <1>2, <2>1 DEF EvidenceInv, EvidenceTypeOK
    <2>7. /\ grant'[r0].generation = g + 1
          /\ (grant'[r0].status = "approved") <=> (d.action = "approve")
      BY <2>1, <2>6 DEF NextGrant, EvidenceInv, EvidenceTypeOK, Grant
    <2>8. ASSUME NEW r \in Revisions
          PROVE  LET past == {e \in events' : e.digest.revision = r}
                 IN /\ {e.generation : e \in past} = 1 .. grant'[r].generation
                    /\ \A c, e \in past : c.generation = e.generation => c = e
                    /\ \A e \in past :
                          /\ e.digest.expected = e.generation - 1
                          /\ (e.digest.action = "approve") <=> (e.generation % 2 = 1)
                    /\ (grant'[r].status = "approved") <=> (grant'[r].generation % 2 = 1)
      <3> DEFINE old == {e \in events : e.digest.revision = r}
                 past == {e \in events' : e.digest.revision = r}
      <3>1. /\ {e.generation : e \in old} = 1 .. grant[r].generation
            /\ \A c, e \in old : c.generation = e.generation => c = e
            /\ \A e \in old : /\ e.digest.expected = e.generation - 1
                              /\ (e.digest.action = "approve") <=> (e.generation % 2 = 1)
            /\ (grant[r].status = "approved") <=> (grant[r].generation % 2 = 1)
        BY DEF EvidenceInv, EvidenceHistory
      <3>2. CASE r # r0
        <4>1. past = old
          BY <2>3, <3>2
        <4> QED  BY <3>1, <3>2, <2>5, <4>1
      <3>3. CASE r = r0
        <4>1. past = old \cup {new}
          BY <2>3, <3>3
        <4>2. \A e \in old : e.generation \in 1 .. g
          BY <3>1, <3>3
        <4>9. new.generation = g + 1 /\ new.digest = d
          OBVIOUS
        <4> HIDE DEF past, old, new
        <4>3. {e.generation : e \in past} = {e.generation : e \in old} \cup {g + 1}
          BY <4>1, <4>9
        <4>4. 1 .. g + 1 = (1 .. g) \cup {g + 1}
          BY <2>1
        <4>5. {e.generation : e \in past} = 1 .. grant'[r].generation
          BY <4>3, <4>4, <2>7, <3>1, <3>3
        <4>6. ((g + 1) % 2 = 1) <=> (d.action = "approve")
          BY <2>1, <3>1, <3>3, Parity
        <4>7. \A c, e \in past : c.generation = e.generation => c = e
          BY <4>1, <4>2, <4>9, <3>1, <2>1
        <4>8. \A e \in past : /\ e.digest.expected = e.generation - 1
                              /\ (e.digest.action = "approve") <=> (e.generation % 2 = 1)
          BY <4>1, <4>6, <4>9, <3>1, <2>1
        <4> QED  BY <4>5, <4>6, <4>7, <4>8, <2>7, <3>3 DEF past
      <3> QED  BY <3>2, <3>3
    <2>9. EvidenceHistory'
      BY <2>8 DEF EvidenceHistory
    <2> QED  BY <2>2, <2>3, <2>5, <2>9 DEF EvidenceInv, EvidenceTypeOK
  <1> QED  BY <1>1, <1>2 DEF Mutate

\* Every step about a revision keeps types and history and no other grant.
LEMMA EvidenceStepKeeps ==
    ASSUME EvidenceInv, NEW r \in Revisions, EvidenceStep(r)
    PROVE  EvidenceInv' /\ \A x \in Revisions \ {r} : grant'[x] = grant[x]
  <1> USE EvidenceAssumption
  <1>1. PICK a \in Actors, q \in RequestIds, expected \in 0 .. MaxGeneration :
          \/ \E c \in Classes : ApproveEvidence(a, q, r, c, expected)
          \/ RevokeEvidence(a, q, r, expected)
          \/ CreateReview(a, q, r, expected)
          \/ \E v \in {u \in Reviews : review[u].revision = r} :
                \/ \E c \in Classes : DecideApprove(a, q, v, c, expected)
                \/ DecideReject(a, q, v, expected)
    BY DEF EvidenceStep
  <1>2. expected \in Nat
    OBVIOUS
  <1>3. CASE \E c \in Classes : ApproveEvidence(a, q, r, c, expected)
    <2>1. PICK c \in Classes : ApproveEvidence(a, q, r, c, expected)
      BY <1>3
    <2> DEFINE d == DigestOf(r, "approve", c, expected)
    <2>2. d \in Digest /\ d.revision = r
      BY <1>2 DEF DigestOf, Digest
    <2>3. Mutate(a, q, d) /\ UNCHANGED <<review, receipts>>
      BY <2>1 DEF ApproveEvidence
    <2> HIDE DEF d
    <2> QED  BY <2>2, <2>3, MutateStep DEF EvidenceInv, EvidenceTypeOK
  <1>4. CASE RevokeEvidence(a, q, r, expected)
    <2> DEFINE d == DigestOf(r, "revoke", None, expected)
    <2>2. d \in Digest /\ d.revision = r
      BY <1>2 DEF DigestOf, Digest
    <2>3. Mutate(a, q, d) /\ UNCHANGED <<review, receipts>>
      BY <1>4 DEF RevokeEvidence
    <2> HIDE DEF d
    <2> QED  BY <2>2, <2>3, MutateStep DEF EvidenceInv, EvidenceTypeOK
  <1>5. CASE CreateReview(a, q, r, expected)
    <2>1. UNCHANGED <<grant, events>>
      BY <1>5 DEF CreateReview
    <2>2. PICK v \in Reviews :
            /\ \/ review' = review
               \/ review' = [review EXCEPT ![v] = PendingReview(a, r)]
            /\ receipts' = receipts \cup {[actor |-> a, request |-> q, revision |-> r,
                                           expected |-> expected, review |-> v]}
      BY <1>5 DEF CreateReview, Pending
    <2>3. review' \in [Reviews -> Review]
      BY <2>2 DEF EvidenceInv, EvidenceTypeOK, Review, ReviewStatus, PendingReview
    <2>4. receipts' \subseteq Receipt
      BY <2>2, <1>2 DEF EvidenceInv, EvidenceTypeOK, Receipt
    <2> QED  BY <2>1, <2>3, <2>4 DEF EvidenceInv, EvidenceTypeOK, EvidenceHistory
  <1>6. ASSUME NEW v \in Reviews, NEW status \in {"approved", "rejected"}, Decided(a, q, v, status)
        PROVE  review' \in [Reviews -> Review]
    BY <1>6 DEF Decided, EvidenceInv, EvidenceTypeOK, Review, ReviewStatus
  <1>7. ASSUME NEW v \in Reviews, review[v].revision = r,
               NEW c \in Classes, DecideApprove(a, q, v, c, expected)
        PROVE  EvidenceInv' /\ \A x \in Revisions \ {r} : grant'[x] = grant[x]
    <2>1. review' \in [Reviews -> Review] /\ receipts' = receipts
      BY <1>6, <1>7 DEF DecideApprove
    <2>2. CASE UNCHANGED <<grant, events>>
      BY <2>1, <2>2 DEF EvidenceInv, EvidenceTypeOK, EvidenceHistory
    <2>3. CASE Mutate(a, q, DigestOf(r, "approve", c, expected))
      <3> DEFINE d == DigestOf(r, "approve", c, expected)
      <3>1. d \in Digest /\ d.revision = r
        BY <1>2 DEF DigestOf, Digest
      <3> HIDE DEF d
      <3> QED  BY <2>1, <2>3, <3>1, MutateStep DEF EvidenceInv, EvidenceTypeOK, d
    <2> QED  BY <1>7, <2>2, <2>3 DEF DecideApprove, Granted
  <1>8. ASSUME NEW v \in Reviews, DecideReject(a, q, v, expected)
        PROVE  EvidenceInv' /\ \A x \in Revisions \ {r} : grant'[x] = grant[x]
    <2>1. review' \in [Reviews -> Review] /\ UNCHANGED <<grant, events, receipts>>
      BY <1>6, <1>8 DEF DecideReject
    <2> QED  BY <2>1 DEF EvidenceInv, EvidenceTypeOK, EvidenceHistory
  <1> QED  BY <1>1, <1>3, <1>4, <1>5, <1>7, <1>8

LEMMA EvidenceStart == EvidenceInit => EvidenceInv
  <1> SUFFICES ASSUME EvidenceInit PROVE EvidenceInv
    OBVIOUS
  <1>1. EvidenceTypeOK
    BY DEF EvidenceInit, EvidenceTypeOK, Grant, GrantStatus, Review, ReviewStatus
  <1>2. EvidenceHistory
    <2>1. 1 .. 0 = {} /\ 0 % 2 # 1
      BY SMT
    <2> QED  BY <2>1 DEF EvidenceInit, EvidenceHistory
  <1> QED  BY <1>1, <1>2 DEF EvidenceInv

\* Grants, events, reviews and receipts are well typed and the events of a
\* revision are its history, whatever requests are repeated, reused or refused
\* (mutate_evidence_approval, decide).
THEOREM HistoryIsKept == EvidenceSpec => [](EvidenceTypeOK /\ EvidenceHistory)
  <1>1. EvidenceInit => EvidenceInv
    BY EvidenceStart
  <1>2. EvidenceInv /\ [\E r \in Revisions : EvidenceStep(r)]_evidenceVars => EvidenceInv'
    <2> SUFFICES ASSUME EvidenceInv, [\E r \in Revisions : EvidenceStep(r)]_evidenceVars
                 PROVE  EvidenceInv'
      OBVIOUS
    <2>1. CASE \E r \in Revisions : EvidenceStep(r)
      BY <2>1, EvidenceStepKeeps
    <2>2. CASE UNCHANGED evidenceVars
      BY <2>2 DEF EvidenceInv, EvidenceTypeOK, EvidenceHistory, evidenceVars
    <2> QED  BY <2>1, <2>2
  <1> QED  BY <1>1, <1>2, PTL DEF EvidenceSpec, EvidenceInv

\* A review is resolved as approved only while its revision is approved: a
\* decision that repeats an old request_id cannot, because a receipt is never
\* ahead of the grant (decide, mutate_evidence_approval).
THEOREM DecisionsHaveGrants == EvidenceSpec => ApprovedReviewsHaveGrants
  <1> DEFINE A == \A v \in Reviews :
                     review[v].status # "approved" /\ review'[v].status = "approved" =>
                         grant'[review[v].revision].status = "approved"
  <1>1. EvidenceInv /\ [\E r \in Revisions : EvidenceStep(r)]_evidenceVars => [A]_evidenceVars
    <2> SUFFICES ASSUME EvidenceInv, NEW r \in Revisions, EvidenceStep(r),
                        NEW v \in Reviews, review[v].status # "approved",
                        review'[v].status = "approved"
                 PROVE  grant'[review[v].revision].status = "approved"
      BY DEF evidenceVars
    <2> USE EvidenceAssumption
    <2>1. PICK a \in Actors, q \in RequestIds, expected \in 0 .. MaxGeneration, u \in Reviews,
               c \in Classes : review[u].revision = r /\ DecideApprove(a, q, u, c, expected)
      <3>1. ASSUME NEW a \in Actors, NEW q \in RequestIds, NEW expected \in 0 .. MaxGeneration,
                   CreateReview(a, q, r, expected)
            PROVE  FALSE
        BY <3>1 DEF CreateReview, PendingReview, Pending, EvidenceInv, EvidenceTypeOK
      <3>2. ASSUME NEW a \in Actors, NEW q \in RequestIds, NEW expected \in 0 .. MaxGeneration,
                   NEW u \in Reviews, DecideReject(a, q, u, expected)
            PROVE  FALSE
        BY <3>2 DEF DecideReject, Decided, EvidenceInv, EvidenceTypeOK
      <3> QED  BY <3>1, <3>2 DEF EvidenceStep, ApproveEvidence, RevokeEvidence
    <2>2. u = v
      BY <2>1 DEF DecideApprove, Decided, EvidenceInv, EvidenceTypeOK
    <2>3. expected = grant[r].generation /\ expected \in Nat
      BY <2>1, <2>2 DEF DecideApprove, Undecided
    <2>4. CASE grant[r].status = "approved"
      BY <2>1, <2>2, <2>4 DEF DecideApprove, Granted
    <2>5. CASE Mutate(a, q, DigestOf(r, "approve", c, expected))
      <3> DEFINE d == DigestOf(r, "approve", c, expected)
      <3>1. d.revision = r /\ d.action = "approve" /\ d.expected = expected
        BY DEF DigestOf
      <3> HIDE DEF d
      <3>2. ~Replayed(a, q, d)
        <4> SUFFICES ASSUME NEW e \in events, e.digest = d PROVE FALSE
          BY DEF Replayed, ReceiptOf
        <4>1. e.generation \in 1 .. grant[r].generation /\ e.digest.expected = e.generation - 1
          BY <3>1 DEF EvidenceInv, EvidenceHistory
        <4> QED  BY <4>1, <3>1, <2>3
      <3>3. grant' = [grant EXCEPT ![r] = NextGrant(@, d)]
        BY <2>5, <3>1, <3>2 DEF Mutate, d
      <3> QED  BY <3>1, <3>3, <2>1, <2>2 DEF NextGrant, EvidenceInv, EvidenceTypeOK
    <2> QED  BY <2>1, <2>4, <2>5 DEF DecideApprove, Granted
  <1> QED  BY <1>1, HistoryIsKept, PTL DEF EvidenceSpec, EvidenceInv, ApprovedReviewsHaveGrants

-----------------------------------------------------------------------------
(* Calls.  What the properties need besides themselves is where a call     *)
(* stands: a process exists only past its launch and until its end was     *)
(* seen, a call that has its slot has the row, and while its gate is open  *)
(* nothing that the gate read has changed.                                 *)

Slotted == {"slotted", "issue", "gate", "consume", "prepare", "invoke", "running", "audit",
            "complete"}

ProcessInv ==
    \A c \in Calls :
        /\ pc[c] = "acquire" => runner[c] # None
        /\ pc[c] \in Slotted => slots[c] # None
        /\ pc[c] \in {"invoke", "running"} => c \notin verified
        /\ c \in live => /\ pc[c] \in {"running", "audit", "complete", "done", "dead"}
                         /\ c \notin verified
                         /\ slots[c] # None

Generations(c) == [r \in Revisions |-> IF r \in Evidence[c] THEN grant[r].generation ELSE 0]

GateInv ==
    \A c \in locked :
        /\ pc[c] \in {"consume", "prepare", "invoke", "running"}
        /\ pc[c] # "consume" => c \in consumed
        /\ approval[c] \in {"issued", "expired"}
        /\ Entitled(c)
        /\ bound[c].generation = Generations(c)

CallInv == TypeOK /\ EvidenceHistory /\ SlotLimit /\ ProcessInv /\ GateInv

LEMMA IntentType ==
    ASSUME TypeOK, NEW c \in Calls
    PROVE  CurrentIntent(c) \in Intent /\ CurrentIntent(c).generation = Generations(c)
  BY DEF TypeOK, EvidenceTypeOK, Grant, CurrentIntent, Generations, Intent

\* Whatever a call does, or is done to it alone.
CallAction(c) == CallStep(c) \/ CallFault(c) \/ Cancel(c) \/ Expire(c) \/ RevokeCall(c)

\* Types, and the grants, which no call writes.
LEMMA CallType ==
    ASSUME CallInv, NEW c \in Calls, CallAction(c)
    PROVE  TypeOK' /\ evidenceVars' = evidenceVars
  <1> USE CodexAssumption DEF CallInv, TypeOK, EvidenceTypeOK, evidenceVars, Goto, Spend, Stages
  <1>1. CASE Begin(c)
    BY <1>1 DEF Begin
  <1>2. CASE Acquire(c)
    BY <1>2 DEF Acquire
  <1>3. CASE AcquireLost(c)
    BY <1>3 DEF AcquireLost
  <1>4. CASE IssueRequest(c)
    BY <1>4, IntentType DEF IssueRequest
  <1>5. CASE IssueCall(c)
    BY <1>5 DEF IssueCall
  <1>6. CASE IssueLost(c)
    BY <1>6 DEF IssueLost
  <1>7. CASE OpenGate(c)
    BY <1>7 DEF OpenGate
  <1>8. CASE Consume(c)
    BY <1>8 DEF Consume, CloseGate
  <1>9. CASE ConsumeFails(c)
    BY <1>9 DEF ConsumeFails, CloseGate
  <1>10. CASE Prepare(c)
    BY <1>10 DEF Prepare
  <1>11. CASE PrepareFails(c)
    BY <1>11 DEF PrepareFails, CloseGate
  <1>12. CASE Launch(c)
    BY <1>12 DEF Launch
  <1>13. CASE NotLaunched(c)
    BY <1>13 DEF NotLaunched, CloseGate
  <1>14. CASE Terminated(c)
    BY <1>14 DEF Terminated, CloseGate
  <1>15. CASE Unconfirmed(c)
    BY <1>15 DEF Unconfirmed, CloseGate
  <1>16. CASE Audit(c)
    BY <1>16 DEF Audit
  <1>17. CASE Complete(c)
    BY <1>17 DEF Complete
  <1>18. CASE CompleteFails(c)
    BY <1>18 DEF CompleteFails
  <1>19. CASE Cancel(c)
    BY <1>19 DEF Cancel
  <1>20. CASE Expire(c)
    BY <1>20 DEF Expire
  <1>21. CASE RevokeCall(c)
    BY <1>21 DEF RevokeCall
  <1>22. CASE LoseSession(c)
    BY <1>22 DEF LoseSession
  <1> QED  BY <1>1, <1>2, <1>3, <1>4, <1>5, <1>6, <1>7, <1>8, <1>9, <1>10, <1>11, <1>12, <1>13, <1>14, <1>15, <1>16, <1>17, <1>18, <1>19, <1>20, <1>21, <1>22 DEF CallAction, CallStep, CallFault

\* A call keeps its row until its process is known to be gone.
LEMMA CallProcess ==
    ASSUME CallInv, NEW c \in Calls, CallAction(c)
    PROVE  ProcessInv'
  <1> USE CodexAssumption DEF CallInv, TypeOK, ProcessInv, Slotted, Goto, MayRelease
  <1>1. CASE Begin(c)
    BY <1>1 DEF Begin
  <1>2. CASE Acquire(c)
    BY <1>2 DEF Acquire
  <1>3. CASE AcquireLost(c)
    BY <1>3 DEF AcquireLost
  <1>4. CASE IssueRequest(c)
    BY <1>4 DEF IssueRequest
  <1>5. CASE IssueCall(c)
    BY <1>5 DEF IssueCall
  <1>6. CASE IssueLost(c)
    BY <1>6 DEF IssueLost
  <1>7. CASE OpenGate(c)
    BY <1>7 DEF OpenGate
  <1>8. CASE Consume(c)
    BY <1>8 DEF Consume, CloseGate
  <1>9. CASE ConsumeFails(c)
    BY <1>9 DEF ConsumeFails, CloseGate
  <1>10. CASE Prepare(c)
    BY <1>10 DEF Prepare
  <1>11. CASE PrepareFails(c)
    BY <1>11 DEF PrepareFails, CloseGate
  <1>12. CASE Launch(c)
    BY <1>12 DEF Launch
  <1>13. CASE NotLaunched(c)
    BY <1>13 DEF NotLaunched, CloseGate
  <1>14. CASE Terminated(c)
    BY <1>14 DEF Terminated, CloseGate
  <1>15. CASE Unconfirmed(c)
    BY <1>15 DEF Unconfirmed, CloseGate
  <1>16. CASE Audit(c)
    BY <1>16 DEF Audit
  <1>17. CASE Complete(c)
    BY <1>17 DEF Complete
  <1>18. CASE CompleteFails(c)
    BY <1>18 DEF CompleteFails
  <1>19. CASE Cancel(c)
    BY <1>19 DEF Cancel
  <1>20. CASE Expire(c)
    BY <1>20 DEF Expire
  <1>21. CASE RevokeCall(c)
    BY <1>21 DEF RevokeCall
  <1>22. CASE LoseSession(c)
    BY <1>22 DEF LoseSession
  <1> QED  BY <1>1, <1>2, <1>3, <1>4, <1>5, <1>6, <1>7, <1>8, <1>9, <1>10, <1>11, <1>12, <1>13, <1>14, <1>15, <1>16, <1>17, <1>18, <1>19, <1>20, <1>21, <1>22 DEF CallAction, CallStep, CallFault

\* A call does not change what its gate, or another one, has read.
LEMMA CallGate ==
    ASSUME CallInv, NEW c \in Calls, CallAction(c)
    PROVE  GateInv'
  <1> USE CodexAssumption DEF CallInv, TypeOK, GateInv, Goto, Entitled, Generations, evidenceVars
  <1>1. CASE Begin(c)
    BY <1>1 DEF Begin
  <1>2. CASE Acquire(c)
    BY <1>2 DEF Acquire
  <1>3. CASE AcquireLost(c)
    BY <1>3 DEF AcquireLost
  <1>4. CASE IssueRequest(c)
    BY <1>4 DEF IssueRequest
  <1>5. CASE IssueCall(c)
    BY <1>5 DEF IssueCall
  <1>6. CASE IssueLost(c)
    BY <1>6 DEF IssueLost
  <1>7. CASE OpenGate(c)
    BY <1>7, IntentType DEF OpenGate, Current
  <1>8. CASE Consume(c)
    BY <1>8 DEF Consume, CloseGate
  <1>9. CASE ConsumeFails(c)
    BY <1>9 DEF ConsumeFails, CloseGate
  <1>10. CASE Prepare(c)
    BY <1>10 DEF Prepare
  <1>11. CASE PrepareFails(c)
    BY <1>11 DEF PrepareFails, CloseGate
  <1>12. CASE Launch(c)
    BY <1>12 DEF Launch
  <1>13. CASE NotLaunched(c)
    BY <1>13 DEF NotLaunched, CloseGate
  <1>14. CASE Terminated(c)
    BY <1>14 DEF Terminated, CloseGate
  <1>15. CASE Unconfirmed(c)
    BY <1>15 DEF Unconfirmed, CloseGate
  <1>16. CASE Audit(c)
    BY <1>16 DEF Audit
  <1>17. CASE Complete(c)
    BY <1>17 DEF Complete
  <1>18. CASE CompleteFails(c)
    BY <1>18 DEF CompleteFails
  <1>19. CASE Cancel(c)
    BY <1>19 DEF Cancel
  <1>20. CASE Expire(c)
    BY <1>20 DEF Expire
  <1>21. CASE RevokeCall(c)
    BY <1>21 DEF RevokeCall
  <1>22. CASE LoseSession(c)
    BY <1>22 DEF LoseSession
  <1> QED  BY <1>1, <1>2, <1>3, <1>4, <1>5, <1>6, <1>7, <1>8, <1>9, <1>10, <1>11, <1>12, <1>13, <1>14, <1>15, <1>16, <1>17, <1>18, <1>19, <1>20, <1>21, <1>22 DEF CallAction, CallStep, CallFault

\* Slots are taken only beside rows of the same settings, below their limit.
LEMMA CallSlots ==
    ASSUME CallInv, NEW c \in Calls, CallAction(c)
    PROVE  SlotLimit'
  <1> USE CodexAssumption
  <1>1. slots \in [Calls -> Configs \cup {None}] /\ IsFiniteSet(SlotRows)
    BY FS_Subset DEF CallInv, TypeOK, SlotRows
  <1>2. CASE slots' = [slots EXCEPT ![c] = runner[c]] /\ SameSettings(c) /\ FreeSlot(c)
             /\ pc[c] = "acquire"
    <2>1. runner[c] \in Configs
      BY <1>2 DEF CallInv, TypeOK, ProcessInv
    <2>2. SlotRows' = SlotRows \cup {c}
      BY <1>1, <1>2, <2>1 DEF SlotRows
    <2>3. Cardinality(SlotRows \cup {c}) <= Cardinality(SlotRows) + 1
          /\ Cardinality(SlotRows) \in Nat /\ Cardinality(SlotRows \cup {c}) \in Nat
      <3>1. /\ IsFiniteSet(SlotRows \cup {c})
            /\ \/ Cardinality(SlotRows \cup {c}) = Cardinality(SlotRows)
               \/ Cardinality(SlotRows \cup {c}) = Cardinality(SlotRows) + 1
        BY <1>1, FS_AddElement
      <3>2. Cardinality(SlotRows) \in Nat /\ Cardinality(SlotRows \cup {c}) \in Nat
        BY <1>1, <3>1, FS_CardinalityType
      <3> QED  BY <3>1, <3>2
    <2>4. Cardinality(SlotRows) < MaxConcurrent[runner[c]] /\ MaxConcurrent[runner[c]] \in Nat
      BY <1>2, <2>1 DEF FreeSlot
    <2>5. \A d \in SlotRows' : slots'[d] = runner[c]
      BY <1>1, <1>2, <2>2 DEF SameSettings, SlotRows
    <2>6. Cardinality(SlotRows') <= MaxConcurrent[runner[c]]
      BY <2>2, <2>3, <2>4
    <2> QED  BY <2>5, <2>6 DEF SlotLimit
  <1>3. CASE slots' = [slots EXCEPT ![c] = None]
    <2>1. SlotRows' \subseteq SlotRows /\ \A d \in SlotRows' : slots'[d] = slots[d]
      BY <1>1, <1>3 DEF SlotRows
    <2>2. /\ Cardinality(SlotRows') <= Cardinality(SlotRows)
          /\ Cardinality(SlotRows) \in Nat /\ Cardinality(SlotRows') \in Nat
      BY <1>1, <2>1, FS_Subset, FS_CardinalityType
    <2>3. \A d \in SlotRows : /\ Cardinality(SlotRows) <= MaxConcurrent[slots[d]]
                              /\ MaxConcurrent[slots[d]] \in Nat
      BY <1>1 DEF CallInv, SlotLimit, SlotRows
    <2> QED  BY <2>1, <2>2, <2>3 DEF SlotLimit
  <1>4. CASE slots' = slots
    BY <1>4 DEF CallInv, SlotLimit, SlotRows
  <1>5. CASE Acquire(c)
    BY <1>2, <1>4, <1>5 DEF Acquire
  <1>6. CASE AcquireLost(c)
    BY <1>2, <1>6 DEF AcquireLost
  <1>7. CASE Complete(c)
    BY <1>3, <1>4, <1>7 DEF Complete
  <1>8. CASE CallAction(c) /\ ~Acquire(c) /\ ~AcquireLost(c) /\ ~Complete(c)
    BY <1>4, <1>8 DEF CallAction, CallStep, CallFault, Begin, IssueRequest, IssueCall, IssueLost,
        OpenGate, Consume, ConsumeFails, Prepare, PrepareFails, Launch, NotLaunched, Terminated,
        Unconfirmed, Audit, CompleteFails, Cancel, Expire, RevokeCall, LoseSession
  <1> QED  BY <1>5, <1>6, <1>7, <1>8

\* Revocations, new versions and withdrawn standing wait for the gates they
\* concern; a crash closes all of them; new settings are not what a gate keeps.
LEMMA AroundCalls ==
    ASSUME CallInv,
           \/ \E r \in Revisions : Supersede(r) \/ ReviewEvidence(r)
           \/ Withdraw \/ Reconfigure \/ Crash
    PROVE  CallInv'
  <1> USE CodexAssumption
  <1>1. ASSUME NEW r \in Revisions, Supersede(r)
        PROVE  CallInv'
    <2>1. TypeOK' /\ EvidenceHistory' /\ SlotLimit' /\ ProcessInv'
      BY <1>1 DEF Supersede, CallInv, TypeOK, EvidenceTypeOK, EvidenceHistory, SlotLimit, SlotRows,
                  ProcessInv, evidenceVars
    <2>2. GateInv'
      BY <1>1 DEF Supersede, CallInv, GateInv, Entitled, Generations, AssetFree, evidenceVars
    <2> QED  BY <2>1, <2>2 DEF CallInv
  <1>2. ASSUME NEW r \in Revisions, ReviewEvidence(r)
        PROVE  CallInv'
    <2>1. EvidenceInv' /\ \A x \in Revisions \ {r} : grant'[x] = grant[x]
      BY <1>2, EvidenceStepKeeps DEF ReviewEvidence, CallInv, TypeOK, EvidenceInv
    <2>2. TypeOK' /\ EvidenceHistory' /\ SlotLimit' /\ ProcessInv'
      BY <1>2, <2>1 DEF ReviewEvidence, EvidenceInv, CallInv, TypeOK, SlotLimit, SlotRows,
                        ProcessInv, callVars
    <2>3. ASSUME NEW c \in locked
          PROVE  /\ \A x \in Evidence[c] : x \in Revisions /\ grant'[x] = grant[x]
                 /\ c \in Calls
      BY <1>2, <2>1 DEF ReviewEvidence, AssetFree, CallInv, TypeOK
    <2>4. GateInv'
      BY <1>2, <2>3 DEF ReviewEvidence, callVars, CallInv, GateInv, Entitled, Generations
    <2> QED  BY <2>2, <2>4 DEF CallInv
  <1>3. CASE Withdraw
    BY <1>3 DEF Withdraw, CallInv, TypeOK, EvidenceTypeOK, EvidenceHistory, SlotLimit, SlotRows,
                ProcessInv, GateInv, evidenceVars
  <1>4. CASE Reconfigure
    <2>1. TypeOK' /\ EvidenceHistory' /\ SlotLimit' /\ ProcessInv'
      BY <1>4 DEF Reconfigure, Spend, CallInv, TypeOK, EvidenceTypeOK, EvidenceHistory, SlotLimit,
                  SlotRows, ProcessInv, evidenceVars
    <2>2. GateInv'
      BY <1>4 DEF Reconfigure, CallInv, GateInv, Entitled, Generations, evidenceVars
    <2> QED  BY <2>1, <2>2 DEF CallInv
  <1>5. CASE Crash
    <2>1. TypeOK'
      BY <1>5 DEF Crash, Spend, CallInv, TypeOK, EvidenceTypeOK, Stages, SlotRows, evidenceVars
    <2>2. ProcessInv'
      BY <1>5 DEF Crash, CallInv, TypeOK, ProcessInv, Slotted
    <2>3. EvidenceHistory' /\ SlotLimit' /\ GateInv'
      BY <1>5 DEF Crash, CallInv, EvidenceHistory, SlotLimit, SlotRows, GateInv, evidenceVars
    <2> QED  BY <2>1, <2>2, <2>3 DEF CallInv
  <1> QED  BY <1>1, <1>2, <1>3, <1>4, <1>5

LEMMA CallsStart == Init => CallInv
  <1> SUFFICES ASSUME Init PROVE CallInv
    OBVIOUS
  <1> USE CodexAssumption DEF Init
  <1>1. EvidenceTypeOK /\ EvidenceHistory
    BY EvidenceStart DEF EvidenceInv
  <1>2. TypeOK
    BY <1>1 DEF TypeOK, Stages, Intent, NoIntent
  <1>3. SlotLimit /\ ProcessInv /\ GateInv
    BY DEF SlotLimit, SlotRows, ProcessInv, Slotted, GateInv
  <1> QED  BY <1>1, <1>2, <1>3 DEF CallInv

LEMMA CallInvStays == Spec => []CallInv
  <1>1. CallInv /\ [Next]_vars => CallInv'
    <2> SUFFICES ASSUME CallInv, [Next]_vars PROVE CallInv'
      OBVIOUS
    <2>1. ASSUME NEW c \in Calls, CallAction(c)
          PROVE  CallInv'
      <3>1. EvidenceHistory'
        BY <2>1, CallType DEF CallInv, EvidenceHistory, evidenceVars
      <3> QED  BY <2>1, <3>1, CallType, CallProcess, CallGate, CallSlots DEF CallInv
    <2>2. CASE UNCHANGED vars
      BY <2>2 DEF vars, callVars, evidenceVars, CallInv, TypeOK, EvidenceTypeOK, EvidenceHistory,
                  SlotLimit, SlotRows, ProcessInv, GateInv, Entitled, Generations
    <2> QED  BY <2>1, <2>2, AroundCalls DEF Next, CallAction
  <1> QED  BY <1>1, CallsStart, PTL DEF Spec

\* Every reachable state of calls, approvals and evidence is well typed.
THEOREM TypeCorrect == Spec => []TypeOK
  BY CallInvStays, PTL DEF CallInv

\* There are never more slot rows than the settings of any of them allow, and
\* every process that may be running has one, whatever crashes, lost answers,
\* unconfirmed ends and changes of the settings came before (acquire, complete).
THEOREM ProcessesStayBounded == Spec => []ProcessesAreBounded
  <1>1. CallInv => ProcessesAreBounded
    BY DEF CallInv, TypeOK, ProcessInv, ProcessesAreBounded, EveryProcessHasSlot, SlotRows
  <1> QED  BY <1>1, CallInvStays, PTL

\* A process under an open gate stays authorized: what the gate read is locked
\* until it closes (CodexExecutionGate.run, locked_snapshot).
THEOREM RunningStaysAuthorized == Spec => []RunningIsAuthorized
  <1>1. CallInv => RunningIsAuthorized
    <2> SUFFICES ASSUME CallInv, NEW c \in locked, pc[c] \in {"prepare", "invoke", "running"}
                 PROVE  /\ c \in consumed /\ approval[c] # "revoked" /\ Entitled(c)
                        /\ CurrentIntent(c).generation = bound[c].generation
      BY DEF RunningIsAuthorized
    <2>1. c \in Calls
      BY DEF CallInv, TypeOK
    <2> QED  BY <2>1, IntentType DEF CallInv, GateInv
  <1> QED  BY <1>1, CallInvStays, PTL

------------------------------------------------------------------------------
(* EvaluationRuns: the inductive invariant.                                  *)

\* A worker that has been given the run.
AtRun(w) == work[w].step \notin {"idle", "claim"}

EvalRowsFit ==
  /\ \A c \in Candidates : cand[c] = "completed" => AllResults(c)
  /\ run.status = "completed" => \A c \in Candidates : cand[c] \in Ended

\* A worker stores results under a runtime, and while it holds the claim every open
\* candidate is among those that it has left to do.
WorkFits(w) ==
  /\ AtRun(w) => work[w].runtime \in Runtimes
  /\ AtRun(w) /\ Holds(w) => \A c \in Candidates : cand[c] \in Open => c \in work[w].todo

EvalInv == EvaluationTypeOK /\ EvalRowsFit /\ \A w \in Workers : WorkFits(w)

------------------------------------------------------------------------------
(* One worker moves.                                                         *)

WorkOthers(w) ==
  work' \in [Workers -> Work] /\ \A v \in Workers : v # w => work'[v] = work[v]

LEMMA WorkUpdate ==
    ASSUME EvaluationTypeOK, NEW w \in Workers, NEW x \in Work, work' = [work EXCEPT ![w] = x]
    PROVE  WorkOthers(w) /\ work'[w] = x
  BY DEF EvaluationTypeOK, WorkOthers

LEMMA TurnMoves ==
    ASSUME EvaluationTypeOK, NEW w \in Workers, NEW step \in Steps, TurnTo(w, step)
    PROVE  /\ WorkOthers(w) /\ work'[w].step = step /\ work'[w].todo = work[w].todo
           /\ work'[w].runtime = work[w].runtime
  <1> DEFINE x == [work[w] EXCEPT !.step = step]
  <1>1. work[w] \in Work /\ work' = [work EXCEPT ![w] = x]
    BY DEF EvaluationTypeOK, TurnTo
  <1>2. x \in Work /\ x.step = step /\ x.todo = work[w].todo /\ x.runtime = work[w].runtime
    BY <1>1 DEF Work
  <1> HIDE DEF x
  <1> QED  BY <1>1, <1>2, WorkUpdate

LEMMA IdleMoves ==
    ASSUME EvaluationTypeOK, NEW w \in Workers, work' = [work EXCEPT ![w] = Idle]
    PROVE  WorkOthers(w) /\ work'[w].step = "idle"
  <1>1. Idle \in Work /\ Idle.step = "idle"
    BY DEF Idle, Work, Steps
  <1> QED  BY <1>1, WorkUpdate

\* What the dispatcher and the clock have in their hands.
EvalFrame ==
  row \in Row /\ messages \in Nat /\ send \in [Dispatchers -> {"idle", "send", "sent", "failed"}]
  /\ evalFaults \in 0 .. MaxEvalFaults

\* Results stay, ended candidates stay, and nobody gets the claim but by ClaimRun.
EvalForward ==
  /\ \A c \in Candidates : AllResults(c) => \A k \in Cases : results'[c][k] # Nobody
  /\ \A c \in Candidates : cand[c] \in Ended => cand'[c] = cand[c]
  /\ \A c \in Candidates : cand'[c] \in Open => cand[c] \in Open

LEMMA EvalStep ==
    ASSUME EvalInv, EvalFrame', run' \in Run, cand' \in [Candidates -> Open \cup Ended],
           results' \in [Candidates -> [Cases -> Runtimes \cup {Nobody}]],
           NEW w \in Workers, WorkOthers(w), EvalForward,
           \A c \in Candidates : cand'[c] = "completed" => cand[c] = "completed" \/ AllResults(c),
           run'.status = "completed" =>
              run.status = "completed" \/ \A c \in Candidates : cand'[c] \in Ended,
           \A v \in Workers : v # w /\ Holds(v)' => Holds(v),
           WorkFits(w)'
    PROVE  EvalInv'
  <1>1. EvaluationTypeOK'
    BY DEF EvalFrame, EvaluationTypeOK, WorkOthers
  <1>2. EvalRowsFit'
    BY DEF EvalInv, EvalRowsFit, EvalForward, AllResults
  <1>3. \A v \in Workers : WorkFits(v)'
    <2> TAKE v \in Workers
    <2>1. CASE v = w
      BY <2>1
    <2>2. CASE v # w
      <3>1. work'[v] = work[v] /\ WorkFits(v)
        BY <2>2 DEF WorkOthers, EvalInv
      <3>2. Holds(v)' => Holds(v)
        BY <2>2
      <3> QED  BY <3>1, <3>2 DEF WorkFits, AtRun, EvalForward
    <2> QED  BY <2>1, <2>2
  <1> QED  BY <1>1, <1>2, <1>3 DEF EvalInv

LEMMA EvalQuiet ==
    ASSUME EvalInv, EvalFrame', UNCHANGED <<run, cand, results>>,
           NEW w \in Workers, WorkOthers(w), WorkFits(w)'
    PROVE  EvalInv'
  <1>1. run' \in Run /\ cand' \in [Candidates -> Open \cup Ended]
        /\ results' \in [Candidates -> [Cases -> Runtimes \cup {Nobody}]]
    BY DEF EvalInv, EvaluationTypeOK
  <1>2. EvalForward
    BY DEF EvalForward, AllResults
  <1>3. \A v \in Workers : Holds(v)' => Holds(v)
    BY DEF Holds
  <1> QED  BY <1>1, <1>2, <1>3, EvalStep

\* Nobody works: the request, the dispatcher and the clock.
LEMMA EvalStay ==
    ASSUME EvalInv, EvalFrame', run' \in Run, UNCHANGED <<cand, results, work>>,
           run'.status = "completed" => run.status = "completed",
           \A v \in Workers : Holds(v)' => Holds(v)
    PROVE  EvalInv'
  <1>1. EvaluationTypeOK' /\ EvalRowsFit'
    BY DEF EvalInv, EvalFrame, EvaluationTypeOK, EvalRowsFit, AllResults
  <1>2. \A v \in Workers : WorkFits(v)'
    BY DEF EvalInv, WorkFits, AtRun
  <1> QED  BY <1>1, <1>2 DEF EvalInv

\* A worker goes on with what it has left to do.
LEMMA TurnFits ==
    ASSUME EvalInv, NEW w \in Workers, AtRun(w), NEW step \in Steps, TurnTo(w, step),
           Holds(w)' => Holds(w), \A c \in Candidates : cand'[c] \in Open => cand[c] \in Open
    PROVE  WorkOthers(w) /\ WorkFits(w)'
  <1>1. /\ WorkOthers(w) /\ work'[w].step = step /\ work'[w].todo = work[w].todo
        /\ work'[w].runtime = work[w].runtime
    BY TurnMoves DEF EvalInv
  <1> QED  BY <1>1 DEF EvalInv, WorkFits, AtRun

LEMMA IdleFits ==
    ASSUME EvalInv, NEW w \in Workers, work' = [work EXCEPT ![w] = Idle]
    PROVE  WorkOthers(w) /\ WorkFits(w)'
  BY IdleMoves DEF EvalInv, WorkFits, AtRun

LEMMA EvalFrameStep ==
    ASSUME EvaluationTypeOK, EvaluationNext
    PROVE  EvalFrame'
  <1>1. EvalFault \/ UNCHANGED evalFaults => evalFaults' \in 0 .. MaxEvalFaults
    BY EvaluationAssumption DEF EvaluationTypeOK, EvalFault
  <1>2. row \in Row /\ messages \in Nat /\ send \in [Dispatchers -> {"idle", "send", "sent", "failed"}]
    BY DEF EvaluationTypeOK
  <1> USE DEF EvalFrame
  <1>3. CASE CreateRun \/ RowFallsDue
    <2>1. row' \in Row
      BY <1>2, <1>3 DEF CreateRun, RowFallsDue, Row
    <2> QED  BY <1>1, <1>2, <1>3, <2>1 DEF CreateRun, RowFallsDue
  <1>4. CASE FallQuiet \/ LoseClaim
    BY <1>1, <1>2, <1>4 DEF FallQuiet, LoseClaim
  <1>5. ASSUME NEW d \in Dispatchers, DispatchStep(d) \/ SendFails(d) \/ DispatcherDies(d)
        PROVE  EvalFrame'
    <2>1. row' \in Row
      <3>1. CASE row' = row
        BY <1>2, <3>1
      <3>2. CASE ClaimReady(d)
        BY <3>2 DEF ClaimReady, Row
      <3>3. CASE MarkRow(d)
        BY <1>2, <3>3 DEF MarkRow, Row
      <3> QED  BY <1>5, <3>1, <3>2, <3>3 DEF DispatchStep, Send, SendFails, DispatcherDies
    <2>2. messages' \in Nat
      BY <1>2, <1>5 DEF DispatchStep, ClaimReady, Send, MarkRow, SendFails, DispatcherDies
    <2> QED  BY <1>1, <1>2, <1>5, <2>1, <2>2
             DEF DispatchStep, ClaimReady, Send, MarkRow, SendFails, DispatcherDies
  <1>6. ASSUME NEW w \in Workers, Receive(w) \/ WorkerDies(w) PROVE EvalFrame'
    <2>1. messages' \in Nat
      BY <1>2, <1>6 DEF Receive, WorkerDies
    <2> QED  BY <1>1, <1>2, <1>6, <2>1 DEF Receive, WorkerDies
  <1>7. ASSUME NEW w \in Workers, WorkerStep(w) PROVE EvalFrame'
    <2>1. CASE ClaimRun(w) \/ RefuseRuntime(w) \/ DropMessage(w) \/ NextCase(w) \/ AddCaseResult(w)
      BY <1>1, <1>2, <2>1 DEF ClaimRun, RefuseRuntime, DropMessage, NextCase, AddCaseResult
    <2>2. CASE MarkCandidateRunning(w) \/ HeartBeat(w)
      BY <1>1, <1>2, <2>2 DEF MarkCandidateRunning, HeartBeat, Commit
    <2>3. CASE CompleteCandidate(w) \/ FailCandidate(w)
      BY <1>1, <1>2, <2>3 DEF CompleteCandidate, FailCandidate, EndCandidate
    <2>4. CASE CompleteRun(w) \/ FailRun(w)
      BY <1>1, <1>2, <2>4 DEF CompleteRun, FailRun, FinishRun
    <2> QED  BY <1>7, <2>1, <2>2, <2>3, <2>4 DEF WorkerStep
  <1> QED  BY <1>3, <1>4, <1>5, <1>6, <1>7 DEF EvaluationNext

LEMMA EvalOutsideKeeps ==
    ASSUME EvalInv, EvalFrame',
           \/ CreateRun \/ RowFallsDue \/ FallQuiet \/ LoseClaim
           \/ \E d \in Dispatchers : DispatchStep(d) \/ SendFails(d) \/ DispatcherDies(d)
    PROVE  EvalInv'
  <1>1. run \in Run
    BY DEF EvalInv, EvaluationTypeOK
  <1>2. UNCHANGED <<cand, results, work>>
    BY DEF CreateRun, RowFallsDue, FallQuiet, LoseClaim, DispatchStep, ClaimReady, Send, MarkRow,
           SendFails, DispatcherDies
  <1>3. CASE CreateRun
    <2>1. run' \in Run /\ run'.status = "pending"
      BY <1>1, <1>3 DEF CreateRun, Run, Open
    <2> QED  BY <1>2, <2>1, EvalStay DEF Holds
  <1>4. CASE FallQuiet \/ LoseClaim
    <2>1. run' \in Run /\ run'.status = run.status /\ run'.claim = run.claim
      BY <1>1, <1>4 DEF FallQuiet, LoseClaim, Run
    <2> QED  BY <1>2, <2>1, EvalStay DEF Holds
  <1>5. CASE run' = run
    BY <1>1, <1>2, <1>5, EvalStay DEF Holds
  <1> QED  BY <1>3, <1>4, <1>5 DEF RowFallsDue, DispatchStep, ClaimReady, Send, MarkRow,
              SendFails, DispatcherDies

------------------------------------------------------------------------------
(* EvaluationRuns: the steps of a worker.                                    *)

LEMMA EvalReceiveKeeps ==
    ASSUME EvalInv, EvalFrame', NEW w \in Workers, Receive(w) \/ WorkerDies(w) \/ DropMessage(w)
    PROVE  EvalInv'
  <1>1. UNCHANGED <<run, cand, results>>
    BY DEF Receive, WorkerDies, DropMessage
  <1>2. CASE Receive(w)
    <2>1. TurnTo(w, "claim") /\ "claim" \in Steps
      BY <1>2 DEF Receive, Steps
    <2>2. WorkOthers(w) /\ work'[w].step = "claim"
      BY <2>1, TurnMoves DEF EvalInv
    <2> QED  BY <1>1, <2>2, EvalQuiet DEF WorkFits, AtRun
  <1>3. CASE WorkerDies(w) \/ DropMessage(w)
    BY <1>1, <1>3, IdleFits, EvalQuiet DEF WorkerDies, DropMessage
  <1> QED  BY <1>2, <1>3

LEMMA EvalClaimKeeps ==
    ASSUME EvalInv, EvalFrame', NEW w \in Workers, ClaimRun(w)
    PROVE  EvalInv'
  <1> PICK e \in Runtimes :
         /\ run' = [run EXCEPT !.status = "running", !.claim = w, !.age = "fresh", !.runtime = e]
         /\ \/ work' = [work EXCEPT ![w].todo = OpenCandidates, ![w].runtime = e,
                                    ![w].step = IF run.valid THEN "mark" ELSE "failRun"]
            \/ work' = [work EXCEPT ![w] = Idle]
    BY DEF ClaimRun
  <1>1. run' \in Run /\ run'.status = "running" /\ run'.claim = w
    BY DEF EvalInv, EvaluationTypeOK, Run, Open
  <1>2. UNCHANGED <<cand, results>>
    BY DEF ClaimRun
  <1>3. cand' \in [Candidates -> Open \cup Ended]
        /\ results' \in [Candidates -> [Cases -> Runtimes \cup {Nobody}]]
    BY <1>2 DEF EvalInv, EvaluationTypeOK
  <1>4. EvalForward
    BY <1>2 DEF EvalForward, AllResults
  <1>5. \A v \in Workers : v # w => ~Holds(v)'
    BY <1>1 DEF Holds
  <1>6. WorkOthers(w) /\ WorkFits(w)'
    <2>1. CASE work' = [work EXCEPT ![w] = Idle]
      BY <2>1, IdleFits
    <2>2. CASE work' = [work EXCEPT ![w].todo = OpenCandidates, ![w].runtime = e,
                                    ![w].step = IF run.valid THEN "mark" ELSE "failRun"]
      <3> DEFINE s == IF run.valid THEN "mark" ELSE "failRun"
                 x == [work[w] EXCEPT !.todo = OpenCandidates, !.runtime = e, !.step = s]
      <3>1. work[w] \in Work /\ work' = [work EXCEPT ![w] = x] /\ s \in Steps
        BY <2>2 DEF EvalInv, EvaluationTypeOK, Steps
      <3> HIDE DEF s
      <3>2. x \in Work /\ x.todo = OpenCandidates /\ x.runtime = e
        BY <3>1 DEF Work, OpenCandidates
      <3> HIDE DEF x
      <3>3. WorkOthers(w) /\ work'[w].todo = OpenCandidates /\ work'[w].runtime = e
        BY <3>1, <3>2, WorkUpdate DEF EvalInv
      <3> QED  BY <1>2, <3>3 DEF WorkFits, OpenCandidates
    <2> QED  BY <2>1, <2>2
  <1> QED  BY <1>1, <1>2, <1>3, <1>4, <1>5, <1>6, EvalStep

LEMMA EvalRefuseKeeps ==
    ASSUME EvalInv, EvalFrame', NEW w \in Workers, RefuseRuntime(w)
    PROVE  EvalInv'
  <1>1. run' \in Run /\ run'.status = "failed"
    BY DEF RefuseRuntime, EvalInv, EvaluationTypeOK, Run, Ended
  <1>2. \A c \in Candidates : cand'[c] = IF cand[c] \in Open THEN "failed" ELSE cand[c]
    BY DEF RefuseRuntime
  <1>3. cand' \in [Candidates -> Open \cup Ended] /\ results' = results
        /\ results' \in [Candidates -> [Cases -> Runtimes \cup {Nobody}]]
    BY DEF RefuseRuntime, EvalInv, EvaluationTypeOK, Ended
  <1>4. EvalForward
    BY <1>2, <1>3 DEF EvalForward, AllResults, Open, Ended
  <1>5. \A v \in Workers : ~Holds(v)'
    BY <1>1 DEF Holds
  <1>6. \A c \in Candidates : cand'[c] = "completed" => cand[c] = "completed"
    BY <1>2
  <1> QED  BY <1>1, <1>3, <1>4, <1>5, <1>6, IdleFits, EvalStep DEF RefuseRuntime

\* A candidate that is open is written.
LEMMA CandWritten ==
    ASSUME EvalInv, NEW i, NEW status \in Open \cup Ended, cand[i] \in Open,
           cand' = [cand EXCEPT ![i] = status], UNCHANGED results
    PROVE  /\ cand' \in [Candidates -> Open \cup Ended] /\ EvalForward
           /\ \A c \in Candidates : cand'[c] = IF c = i THEN status ELSE cand[c]
  <1>1. cand \in [Candidates -> Open \cup Ended]
    BY DEF EvalInv, EvaluationTypeOK
  <1>2. \A c \in Candidates : cand'[c] = IF c = i THEN status ELSE cand[c]
    BY <1>1
  <1>3. cand' \in [Candidates -> Open \cup Ended]
    BY <1>1
  <1> QED  BY <1>2, <1>3 DEF EvalForward, AllResults, Open, Ended

LEMMA EvalMarkKeeps ==
    ASSUME EvalInv, EvalFrame', NEW w \in Workers, MarkCandidateRunning(w)
    PROVE  EvalInv'
  <1>1. /\ AtRun(w) /\ UNCHANGED <<run, results>>
        /\ TurnTo(w, "case") \/ TurnTo(w, "failRun")
        /\ UNCHANGED cand \/ (cand[InWork(w)] \in Open /\ cand' = [cand EXCEPT ![InWork(w)] = "running"])
    BY DEF MarkCandidateRunning, Commit, AtRun
  <1>2. run' \in Run /\ results' \in [Candidates -> [Cases -> Runtimes \cup {Nobody}]]
    BY <1>1 DEF EvalInv, EvaluationTypeOK
  <1>3. \A v \in Workers : Holds(v)' => Holds(v)
    BY <1>1 DEF Holds
  <1>4. /\ cand' \in [Candidates -> Open \cup Ended] /\ EvalForward
        /\ \A c \in Candidates : cand'[c] = "completed" => cand[c] = "completed"
        /\ run'.status = "completed" => run.status = "completed"
    <2>1. CASE UNCHANGED cand
      BY <1>1, <2>1 DEF EvalInv, EvaluationTypeOK, EvalForward, AllResults
    <2>2. CASE cand[InWork(w)] \in Open /\ cand' = [cand EXCEPT ![InWork(w)] = "running"]
      <3>1. "running" \in Open \cup Ended
        BY DEF Open
      <3> QED  BY <1>1, <2>2, <3>1, CandWritten
    <2> QED  BY <1>1, <2>1, <2>2
  <1>5. \A c \in Candidates : cand'[c] \in Open => cand[c] \in Open
    BY <1>4 DEF EvalForward
  <1>6. WorkOthers(w) /\ WorkFits(w)'
    BY <1>1, <1>3, <1>5, TurnFits DEF Steps
  <1> QED  BY <1>2, <1>3, <1>4, <1>6, EvalStep

\* A worker notes a case that it has seen.
LEMMA SeenFits ==
    ASSUME EvalInv, NEW w \in Workers, AtRun(w), NEW k \in Cases, NEW step \in Steps,
           \/ work' = [work EXCEPT ![w].seen = @ \cup {k}] /\ step = work[w].step
           \/ work' = [work EXCEPT ![w].seen = @ \cup {k}, ![w].step = step],
           UNCHANGED <<run, cand>>
    PROVE  WorkOthers(w) /\ WorkFits(w)'
  <1> DEFINE x == [work[w] EXCEPT !.seen = @ \cup {k}, !.step = step]
  <1>1. work[w] \in Work
    BY DEF EvalInv, EvaluationTypeOK
  <1>2. x \in Work /\ x.todo = work[w].todo /\ x.runtime = work[w].runtime
    BY <1>1 DEF Work
  <1>3. work' = [work EXCEPT ![w] = x]
    <2>1. CASE work' = [work EXCEPT ![w].seen = @ \cup {k}, ![w].step = step]
      BY <2>1
    <2>2. CASE work' = [work EXCEPT ![w].seen = @ \cup {k}] /\ step = work[w].step
      <3>1. x = [work[w] EXCEPT !.seen = @ \cup {k}]
        BY <1>1, <2>2 DEF Work
      <3> HIDE DEF x
      <3> QED  BY <2>2, <3>1
    <2> QED  BY <2>1, <2>2
  <1> HIDE DEF x
  <1>4. WorkOthers(w) /\ work'[w].todo = work[w].todo /\ work'[w].runtime = work[w].runtime
    BY <1>2, <1>3, WorkUpdate DEF EvalInv
  <1> QED  BY <1>4 DEF EvalInv, WorkFits, AtRun, Holds

LEMMA EvalCaseKeeps ==
    ASSUME EvalInv, EvalFrame', NEW w \in Workers, NextCase(w)
    PROVE  EvalInv'
  <1>1. AtRun(w) /\ UNCHANGED <<run, cand, results>> /\ work[w].step \in Steps
    BY DEF NextCase, AtRun, Steps
  <1>2. WorkOthers(w) /\ WorkFits(w)'
    <2>1. CASE \E k \in Cases : work' = [work EXCEPT ![w].seen = @ \cup {k}]
      BY <1>1, <2>1, SeenFits
    <2>2. CASE TurnTo(w, "heartbeat") \/ TurnTo(w, "complete") \/ TurnTo(w, "fail")
      BY <1>1, <2>2, TurnFits DEF Steps, Holds
    <2> QED  BY <2>1, <2>2 DEF NextCase
  <1> QED  BY <1>1, <1>2, EvalQuiet

LEMMA EvalBeatKeeps ==
    ASSUME EvalInv, EvalFrame', NEW w \in Workers, HeartBeat(w)
    PROVE  EvalInv'
  <1>1. /\ AtRun(w) /\ UNCHANGED <<cand, results>>
        /\ TurnTo(w, "add") \/ TurnTo(w, "fail")
        /\ UNCHANGED run \/ run' = [run EXCEPT !.age = "fresh"]
    BY DEF HeartBeat, Commit, AtRun
  <1>2. run' \in Run /\ run'.status = run.status /\ run'.claim = run.claim
    BY <1>1 DEF EvalInv, EvaluationTypeOK, Run
  <1>3. cand' \in [Candidates -> Open \cup Ended]
        /\ results' \in [Candidates -> [Cases -> Runtimes \cup {Nobody}]]
    BY <1>1 DEF EvalInv, EvaluationTypeOK
  <1>4. EvalForward
    BY <1>1 DEF EvalForward, AllResults
  <1>5. \A v \in Workers : Holds(v)' => Holds(v)
    BY <1>2 DEF Holds
  <1>6. WorkOthers(w) /\ WorkFits(w)'
    BY <1>1, <1>5, TurnFits DEF Steps
  <1> QED  BY <1>1, <1>2, <1>3, <1>4, <1>5, <1>6, EvalStep

LEMMA EvalAddKeeps ==
    ASSUME EvalInv, EvalFrame', NEW w \in Workers, AddCaseResult(w)
    PROVE  EvalInv'
  <1>1. PICK k \in Cases :
          /\ \/ UNCHANGED results
             \/ results' = [results EXCEPT ![InWork(w)][k] = Stored(InWork(w), k, work[w].runtime)]
          /\ TurnTo(w, "fail") \/ work' = [work EXCEPT ![w].seen = @ \cup {k}, ![w].step = "case"]
    BY DEF AddCaseResult
  <1>2. AtRun(w) /\ UNCHANGED <<run, cand>>
    BY DEF AddCaseResult, AtRun
  <1>3. results \in [Candidates -> [Cases -> Runtimes \cup {Nobody}]] /\ work[w].runtime \in Runtimes
    BY <1>2 DEF EvalInv, EvaluationTypeOK, WorkFits
  <1>4. /\ results' \in [Candidates -> [Cases -> Runtimes \cup {Nobody}]]
        /\ \A c \in Candidates, j \in Cases : results[c][j] # Nobody => results'[c][j] # Nobody
    <2>1. CASE UNCHANGED results
      BY <1>3, <2>1
    <2>2. CASE results' = [results EXCEPT ![InWork(w)][k] = Stored(InWork(w), k, work[w].runtime)]
      <3> DEFINE i == InWork(w)
                 e == Stored(i, k, work[w].runtime)
      <3>1. CASE i \in Candidates
        <4>1. e \in Runtimes \cup {Nobody} /\ e # Nobody
          BY <1>3, <3>1, EvaluationAssumption DEF Stored
        <4>2. results' = [results EXCEPT ![i][k] = e]
          BY <2>2
        <4> HIDE DEF i, e
        <4> QED  BY <1>3, <3>1, <4>1, <4>2
      <3>2. CASE i \notin Candidates
        <4>1. results' = [results EXCEPT ![i] = [results[i] EXCEPT ![k] = e]]
          BY <2>2
        <4> HIDE DEF i, e
        <4> QED  BY <1>3, <3>2, <4>1
      <3> QED  BY <3>1, <3>2
    <2> QED  BY <1>1, <2>1, <2>2
  <1>5. EvalForward
    BY <1>2, <1>4 DEF EvalForward, AllResults
  <1>6. \A v \in Workers : Holds(v)' => Holds(v)
    BY <1>2 DEF Holds
  <1>7. WorkOthers(w) /\ WorkFits(w)'
    BY <1>1, <1>2, <1>6, TurnFits, SeenFits DEF Steps
  <1>8. run' \in Run /\ cand' \in [Candidates -> Open \cup Ended]
    BY <1>2 DEF EvalInv, EvaluationTypeOK
  <1> QED  BY <1>2, <1>4, <1>5, <1>6, <1>7, <1>8, EvalStep

LEMMA EvalEndCandidateKeeps ==
    ASSUME EvalInv, EvalFrame', NEW w \in Workers, NEW step, NEW onError \in Steps,
           NEW status \in Ended, NEW granted, EndCandidate(w, step, status, onError, granted),
           AtRun(w), granted => Holds(w),
           granted /\ status = "completed" => AllResults(InWork(w))
    PROVE  EvalInv'
  <1> DEFINE i == InWork(w)
  <1>1. UNCHANGED <<run, results>>
    BY DEF EndCandidate
  <1>2. \A v \in Workers : Holds(v)' => Holds(v)
    BY <1>1 DEF Holds
  <1>3. run' \in Run /\ results' \in [Candidates -> [Cases -> Runtimes \cup {Nobody}]]
    BY <1>1 DEF EvalInv, EvaluationTypeOK
  <1>4. \/ UNCHANGED cand /\ TurnTo(w, onError)
        \/ /\ granted /\ cand[i] \in Open /\ cand' = [cand EXCEPT ![i] = status]
           /\ \/ TurnTo(w, onError)
              \/ work' = [work EXCEPT ![w].todo = @ \ {i}, ![w].seen = {}, ![w].step = "mark"]
    BY DEF EndCandidate
  <1>5. granted /\ status = "completed" => AllResults(i)
    OBVIOUS
  <1> HIDE DEF i
  <1>6. CASE UNCHANGED cand /\ TurnTo(w, onError)
    <2>1. WorkOthers(w) /\ WorkFits(w)'
      BY <1>2, <1>6, TurnFits
    <2> QED  BY <1>1, <1>6, <2>1, EvalQuiet
  <1>7. CASE /\ granted /\ cand[i] \in Open /\ cand' = [cand EXCEPT ![i] = status]
             /\ \/ TurnTo(w, onError)
                \/ work' = [work EXCEPT ![w].todo = @ \ {i}, ![w].seen = {}, ![w].step = "mark"]
    <2>1. /\ cand' \in [Candidates -> Open \cup Ended] /\ EvalForward
          /\ \A c \in Candidates : cand'[c] = IF c = i THEN status ELSE cand[c]
      BY <1>1, <1>7, CandWritten
    <2>2. WorkOthers(w) /\ WorkFits(w)'
      <3>1. CASE TurnTo(w, onError)
        BY <1>2, <2>1, <3>1, TurnFits DEF EvalForward
      <3>2. CASE work' = [work EXCEPT ![w].todo = @ \ {i}, ![w].seen = {}, ![w].step = "mark"]
        <4> DEFINE x == [work[w] EXCEPT !.todo = @ \ {i}, !.seen = {}, !.step = "mark"]
        <4>1. work[w] \in Work /\ work' = [work EXCEPT ![w] = x] /\ "mark" \in Steps
          BY <3>2 DEF EvalInv, EvaluationTypeOK, Steps
        <4>2. x \in Work /\ x.todo = work[w].todo \ {i} /\ x.runtime = work[w].runtime
          BY <4>1 DEF Work
        <4> HIDE DEF x
        <4>3. WorkOthers(w) /\ work'[w].todo = work[w].todo \ {i} /\ work'[w].runtime = work[w].runtime
          BY <4>1, <4>2, WorkUpdate DEF EvalInv
        <4>4. \A c \in Candidates : cand'[c] \in Open => c # i /\ cand[c] \in Open
          BY <2>1 DEF Open, Ended
        <4>5. WorkFits(w) /\ (Holds(w)' => Holds(w))
          BY <1>2 DEF EvalInv
        <4> QED  BY <4>3, <4>4, <4>5 DEF WorkFits
      <3> QED  BY <1>7, <3>1, <3>2
    <2>3. \A c \in Candidates : cand'[c] = "completed" => cand[c] = "completed" \/ AllResults(c)
      BY <1>5, <1>7, <2>1
    <2> QED  BY <1>1, <1>2, <1>3, <2>1, <2>2, <2>3, EvalStep
  <1> QED  BY <1>4, <1>6, <1>7

LEMMA EvalFinishKeeps ==
    ASSUME EvalInv, EvalFrame', NEW w \in Workers, CompleteRun(w) \/ FailRun(w)
    PROVE  EvalInv'
  <1>1. UNCHANGED <<cand, results>> /\ AtRun(w)
    BY DEF CompleteRun, FailRun, FinishRun, AtRun
  <1>2. /\ cand' \in [Candidates -> Open \cup Ended]
        /\ results' \in [Candidates -> [Cases -> Runtimes \cup {Nobody}]] /\ EvalForward
    BY <1>1 DEF EvalInv, EvaluationTypeOK, EvalForward, AllResults
  <1>3. \/ UNCHANGED run
        \/ run' = [run EXCEPT !.status = "failed", !.claim = Nobody, !.age = "fresh"]
        \/ /\ Holds(w) /\ work[w].todo = {}
           /\ run' = [run EXCEPT !.status = "completed", !.claim = Nobody, !.age = "fresh"]
    BY DEF CompleteRun, FailRun, FinishRun
  <1>4. run \in Run
    BY DEF EvalInv, EvaluationTypeOK
  <1>5. run' \in Run /\ \A v \in Workers : Holds(v)' => Holds(v)
    BY <1>3, <1>4 DEF Run, Ended, Holds
  <1>6. run'.status = "completed" =>
              run.status = "completed" \/ \A c \in Candidates : cand'[c] \in Ended
    <2>1. CASE /\ Holds(w) /\ work[w].todo = {}
      <3>1. \A c \in Candidates : cand[c] \notin Open /\ cand[c] \in Open \cup Ended
        BY <1>1, <2>1 DEF EvalInv, EvaluationTypeOK, WorkFits
      <3> QED  BY <1>1, <3>1
    <2>2. CASE UNCHANGED run \/ run' = [run EXCEPT !.status = "failed", !.claim = Nobody, !.age = "fresh"]
      BY <1>4, <2>2 DEF Run
    <2> QED  BY <1>3, <2>1, <2>2
  <1>7. WorkOthers(w) /\ WorkFits(w)'
    <2>1. CASE work' = [work EXCEPT ![w] = Idle]
      BY <2>1, IdleFits
    <2>2. CASE TurnTo(w, "failRun")
      BY <1>1, <1>5, <2>2, TurnFits DEF Steps
    <2> QED  BY <2>1, <2>2 DEF CompleteRun, FailRun, FinishRun, TurnTo
  <1> QED  BY <1>1, <1>2, <1>5, <1>6, <1>7, EvalStep

LEMMA EvalInit == EvaluationInit => EvalInv
  <1> SUFFICES ASSUME EvaluationInit PROVE EvalInv
    OBVIOUS
  <1>1. Idle \in Work /\ Idle.step = "idle"
    BY DEF Idle, Work, Steps
  <1>2. EvaluationTypeOK
    BY <1>1, EvaluationAssumption DEF EvaluationInit, EvaluationTypeOK, Run, Row, Open
  <1>3. EvalRowsFit
    BY DEF EvaluationInit, EvalRowsFit
  <1>4. \A w \in Workers : WorkFits(w)
    BY <1>1 DEF EvaluationInit, WorkFits, AtRun
  <1> QED  BY <1>2, <1>3, <1>4 DEF EvalInv

LEMMA EvalNextKeeps == EvalInv /\ [EvaluationNext]_evalVars => EvalInv'
  <1> SUFFICES ASSUME EvalInv, [EvaluationNext]_evalVars PROVE EvalInv'
    OBVIOUS
  <1>1. CASE UNCHANGED evalVars
    BY <1>1 DEF evalVars, EvalInv, EvaluationTypeOK, EvalRowsFit, AllResults, WorkFits, AtRun, Holds
  <1>2. CASE EvaluationNext
    <2>1. EvalFrame'
      BY <1>2, EvalFrameStep DEF EvalInv
    <2>2. CASE \/ CreateRun \/ RowFallsDue \/ FallQuiet \/ LoseClaim
               \/ \E d \in Dispatchers : DispatchStep(d) \/ SendFails(d) \/ DispatcherDies(d)
      BY <2>1, <2>2, EvalOutsideKeeps
    <2>3. ASSUME NEW w \in Workers, Receive(w) \/ WorkerStep(w) \/ WorkerDies(w) PROVE EvalInv'
      <3>1. CASE Receive(w) \/ WorkerDies(w) \/ DropMessage(w)
        BY <2>1, <3>1, EvalReceiveKeeps
      <3>2. CASE ClaimRun(w) \/ RefuseRuntime(w)
        BY <2>1, <3>2, EvalClaimKeeps, EvalRefuseKeeps
      <3>3. CASE MarkCandidateRunning(w) \/ NextCase(w) \/ HeartBeat(w) \/ AddCaseResult(w)
        BY <2>1, <3>3, EvalMarkKeeps, EvalCaseKeeps, EvalBeatKeeps, EvalAddKeeps
      <3>4. CASE CompleteCandidate(w)
        <4>1. /\ EndCandidate(w, "complete", "completed", "fail", Holds(w) /\ AllResults(InWork(w)))
              /\ AtRun(w) /\ "completed" \in Ended /\ "fail" \in Steps
          BY <3>4 DEF CompleteCandidate, EndCandidate, AtRun, Ended, Steps
        <4> QED  BY <2>1, <4>1, EvalEndCandidateKeeps
      <3>5. CASE FailCandidate(w)
        <4>1. EndCandidate(w, "fail", "failed", "failRun", Holds(w))
              /\ AtRun(w) /\ "failed" \in Ended /\ "failRun" \in Steps
          BY <3>5 DEF FailCandidate, EndCandidate, AtRun, Ended, Steps
        <4> QED  BY <2>1, <4>1, EvalEndCandidateKeeps
      <3>6. CASE CompleteRun(w) \/ FailRun(w)
        BY <2>1, <3>6, EvalFinishKeeps
      <3> QED  BY <2>3, <3>1, <3>2, <3>3, <3>4, <3>5, <3>6 DEF WorkerStep
    <2> QED  BY <1>2, <2>2, <2>3 DEF EvaluationNext
  <1> QED  BY <1>1, <1>2

\* The invariant above holds in every behaviour of evaluation runs.
THEOREM EvaluationInvariant == EvaluationSpec => []EvalInv
  BY EvalInit, EvalNextKeeps, PTL DEF EvaluationSpec

\* Every state of an evaluation run is well typed: a result is stored under the
\* runtime of a worker that was given the run (add_case_result).
THEOREM EvaluationTypeCorrect == EvaluationSpec => []EvaluationTypeOK
  <1>1. EvalInv => EvaluationTypeOK
    BY DEF EvalInv
  <1> QED  BY <1>1, EvaluationInvariant, PTL

\* A completed run has ended every candidate and a completed candidate has all
\* results, for any number of workers, candidates and faults (complete_run).
THEOREM CompletedRunIsWholeHolds == EvaluationSpec => []CompletedRunIsWhole
  <1>1. EvalInv => CompletedRunIsWhole
    BY DEF EvalInv, EvalRowsFit, CompletedRunIsWhole
  <1> QED  BY <1>1, EvaluationInvariant, PTL

LEMMA EndedStays ==
    ASSUME run.status \in Ended, [EvaluationNext]_evalVars
    PROVE  UNCHANGED <<run, cand, results>>
  <1>1. run.status \notin Open /\ run.status # "none" /\ ~ClaimFree /\ \A w \in Workers : ~Holds(w)
    BY DEF Ended, Open, ClaimFree, Holds
  <1>2. CASE UNCHANGED evalVars
    BY <1>2 DEF evalVars
  <1>3. CASE \/ CreateRun \/ RowFallsDue \/ FallQuiet \/ LoseClaim
             \/ \E d \in Dispatchers : DispatchStep(d) \/ SendFails(d) \/ DispatcherDies(d)
    BY <1>1, <1>3 DEF CreateRun, RowFallsDue, FallQuiet, LoseClaim, DispatchStep, ClaimReady, Send,
       MarkRow, SendFails, DispatcherDies, Open
  <1>4. ASSUME NEW w \in Workers, Receive(w) \/ WorkerStep(w) \/ WorkerDies(w)
        PROVE  UNCHANGED <<run, cand, results>>
    <2>1. CASE Receive(w) \/ WorkerDies(w) \/ DropMessage(w) \/ ClaimRun(w) \/ RefuseRuntime(w)
               \/ NextCase(w) \/ AddCaseResult(w)
      BY <1>1, <2>1 DEF Receive, WorkerDies, DropMessage, ClaimRun, RefuseRuntime, NextCase,
         AddCaseResult
    <2>2. CASE MarkCandidateRunning(w) \/ HeartBeat(w)
      BY <1>1, <2>2 DEF MarkCandidateRunning, HeartBeat, Commit
    <2>3. CASE CompleteCandidate(w) \/ FailCandidate(w)
      BY <1>1, <2>3 DEF CompleteCandidate, FailCandidate, EndCandidate
    <2>4. CASE CompleteRun(w) \/ FailRun(w)
      BY <1>1, <2>4 DEF CompleteRun, FailRun, FinishRun
    <2> QED  BY <1>4, <2>1, <2>2, <2>3, <2>4 DEF WorkerStep
  <1> QED  BY <1>2, <1>3, <1>4 DEF EvaluationNext

\* Nothing of an ended run changes, whatever a worker that lost its claim still
\* does (_candidate_with_claim, claim_run, _finish_run).
THEOREM EndedRunIsFrozenHolds == EvaluationSpec => EndedRunIsFrozen
  <1>1. [EvaluationNext]_evalVars =>
           [run.status \in Ended => UNCHANGED <<run, cand, results>>]_evalVars
    BY EndedStays
  <1> QED  BY <1>1, PTL DEF EvaluationSpec, EndedRunIsFrozen

------------------------------------------------------------------------------
(* GenerativeRuns: the inductive invariant.                                  *)

Calling == {"start", "call", "store"}
Working == {"load", "next"} \cup Calling
Numbers(s) == 1 .. Len(attempts[s])

GenLens ==
  \A s \in Slots : /\ Len(attempts[s]) <= 1 + retries
                   /\ Len(attempts[s]) = 0 <=> genRun.status = "none"

\* Only the newest attempt of a slot is open, and only while its run is.
GenRows ==
  \A r \in Rows :
     /\ At(r).status \in Unfinished => r[2] = Len(attempts[r[1]]) /\ genRun.status \in Unfinished
     /\ At(r).status = "running" => genRun.status = "running"
     /\ At(r).unconfirmed => genRun.status = "failed"

GenEnds ==
  /\ genRun.status = "completed" => \A s \in Slots : Latest(s).status = "completed"
  /\ genRun.status = "cancelled" => ~genRun.used

\* Before its first claim nobody is at work on the run.
GenUsed ==
  ~genRun.used => /\ \A s \in Slots : calls[s] = 0
                  /\ \A w \in GenWorkers : task[w].step \in {"idle", "claim"}

\* The owner of the run is at its only running attempt.
TaskFits(w) ==
  /\ task[w].todo \subseteq Rows
  /\ task[w].step \in Calling => task[w].at \in Rows /\ At(task[w].at).status # "pending"
  /\ OwnsRun(w) /\ task[w].step \in Working =>
       \A r \in Rows : At(r).status = "running" => task[w].step \in Calling /\ task[w].at = r

Starts(w, s, n) == task[w].step = "start" /\ task[w].at = <<s, n>>

StartsApart ==
  \A v, w \in GenWorkers :
     task[v].step = "start" /\ task[w].step = "start" /\ task[v].at = task[w].at => v = w

\* Attempts of a slot that may still be executed for the first time.
Uncalled(s) ==
  {n \in Numbers(s) : At(<<s, n>>).status = "pending" \/ \E w \in GenWorkers : Starts(w, s, n)}

CallsFit == \A s \in Slots : calls[s] + Cardinality(Uncalled(s)) <= Len(attempts[s])

GenInv ==
  /\ GenerativeTypeOK /\ GenLens /\ GenRows /\ GenEnds /\ GenUsed
  /\ \A w \in GenWorkers : TaskFits(w)
  /\ StartsApart /\ CallsFit

------------------------------------------------------------------------------
(* Rows, and what a write and a worker's step do to them.                    *)

LEMMA RowsAre ==
    ASSUME GenerativeTypeOK, GenLens
    PROVE  /\ \A r \in Rows : /\ r[1] \in Slots /\ r[2] \in Numbers(r[1]) /\ r = <<r[1], r[2]>>
                              /\ r \in Slots \X (Nat \ {0}) /\ At(r) \in Attempt
           /\ \A s \in Slots : \A n \in Numbers(s) : <<s, n>> \in Rows
  <1>1. /\ attempts \in [Slots -> Seq(Attempt)] /\ retries \in Nat /\ MaxRetries \in Nat
        /\ retries <= MaxRetries
    BY GenerativeAssumption DEF GenerativeTypeOK
  <1>2. \A s \in Slots : attempts[s] \in Seq(Attempt) /\ Len(attempts[s]) \in Nat
                         /\ Len(attempts[s]) <= MaxRetries + 1
    BY <1>1 DEF GenLens
  <1>3. \A s \in Slots : \A n \in Numbers(s) : attempts[s][n] \in Attempt
    <2> TAKE s \in Slots
    <2> QED  BY <1>2 DEF Numbers
  <1>4. \A r \in Rows : r[1] \in Slots /\ r[2] \in Numbers(r[1]) /\ r = <<r[1], r[2]>>
                        /\ r \in Slots \X (Nat \ {0})
    BY <1>1, <1>2 DEF Rows, Numbers
  <1>5. \A s \in Slots : \A n \in Numbers(s) : <<s, n>> \in Rows
    BY <1>1, <1>2 DEF Rows, Numbers
  <1> QED  BY <1>3, <1>4, <1>5 DEF At

LEMMA RowsStay ==
    ASSUME \A s \in Slots : Len(attempts'[s]) = Len(attempts[s])
    PROVE  Rows' = Rows /\ \A s \in Slots : Numbers(s)' = Numbers(s)
  BY DEF Rows, Numbers

LEMMA RewriteIs ==
    ASSUME GenerativeTypeOK, GenLens, NEW new, Rewrite(new),
           \A r \in DOMAIN new : new[r] \in Attempt
    PROVE  /\ attempts' \in [Slots -> Seq(Attempt)]
           /\ \A s \in Slots : Len(attempts'[s]) = Len(attempts[s])
           /\ \A r \in Rows : At(r)' = IF r \in DOMAIN new THEN new[r] ELSE At(r)
  <1> DEFINE f(s) == [n \in Numbers(s) |-> IF <<s, n>> \in DOMAIN new THEN new[<<s, n>>]
                                           ELSE attempts[s][n]]
  <1>1. \A s \in Slots : /\ attempts[s] \in Seq(Attempt) /\ DOMAIN attempts[s] = Numbers(s)
                         /\ Len(attempts[s]) \in Nat
                         /\ \A n \in Numbers(s) : attempts[s][n] \in Attempt
    <2> TAKE s \in Slots
    <2>1. attempts[s] \in Seq(Attempt)
      BY DEF GenerativeTypeOK
    <2>2. DOMAIN attempts[s] = Numbers(s) /\ Len(attempts[s]) \in Nat
      BY <2>1 DEF Numbers
    <2>3. \A n \in Numbers(s) : attempts[s][n] \in Attempt
      BY <2>1 DEF Numbers
    <2> QED  BY <2>1, <2>2, <2>3
  <1>2. attempts' = [s \in Slots |-> f(s)]
    BY <1>1 DEF Rewrite
  <1>3. \A s \in Slots : f(s) \in Seq(Attempt) /\ Len(f(s)) = Len(attempts[s])
    <2> TAKE s \in Slots
    <2>1. f(s) \in [1 .. Len(attempts[s]) -> Attempt]
      BY <1>1 DEF Numbers
    <2> HIDE DEF f
    <2> QED  BY <1>1, <2>1
  <1>4. \A r \in Rows : At(r)' = IF r \in DOMAIN new THEN new[r] ELSE At(r)
    BY <1>2, RowsAre DEF At
  <1> QED  BY <1>2, <1>3, <1>4

TaskOthers(w) ==
  task' \in [GenWorkers -> Task] /\ \A v \in GenWorkers : v # w => task'[v] = task[v]

LEMMA TaskUpdate ==
    ASSUME GenerativeTypeOK, NEW w \in GenWorkers, NEW x \in Task, task' = [task EXCEPT ![w] = x]
    PROVE  TaskOthers(w) /\ task'[w] = x
  BY DEF GenerativeTypeOK, TaskOthers

TaskSteps == {"idle", "claim", "load", "next", "start", "call", "store"}

LEMMA StepMoves ==
    ASSUME GenerativeTypeOK, NEW w \in GenWorkers, NEW step \in TaskSteps, Step(w, step)
    PROVE  /\ TaskOthers(w) /\ task'[w].step = step /\ task'[w].todo = task[w].todo
           /\ task'[w].at = task[w].at
  <1> DEFINE x == [task[w] EXCEPT !.step = step]
  <1>1. task[w] \in Task /\ task' = [task EXCEPT ![w] = x]
    BY DEF GenerativeTypeOK, Step
  <1>2. x \in Task /\ x.step = step /\ x.todo = task[w].todo /\ x.at = task[w].at
    BY <1>1 DEF Task, TaskSteps
  <1> HIDE DEF x
  <1> QED  BY <1>1, <1>2, TaskUpdate

LEMMA LeaveMoves ==
    ASSUME GenerativeTypeOK, NEW w \in GenWorkers, Leave(w)
    PROVE  TaskOthers(w) /\ task'[w].step = "idle" /\ task'[w].todo = {}
  <1>1. NoTask \in Task /\ NoTask.step = "idle" /\ NoTask.todo = {}
    BY DEF NoTask, Task, Outcomes
  <1> QED  BY <1>1, TaskUpdate DEF Leave

LEMMA LeaveFits ==
    ASSUME GenInv, NEW w \in GenWorkers, Leave(w)
    PROVE  TaskOthers(w) /\ task'[w].step = "idle" /\ TaskFits(w)'
  BY LeaveMoves DEF GenInv, TaskFits, Calling, Working

LEMMA UncalledFinite ==
    ASSUME GenerativeTypeOK, NEW s \in Slots
    PROVE  IsFiniteSet(Uncalled(s))
  <1>1. Len(attempts[s]) \in Nat
    BY DEF GenerativeTypeOK
  <1>2. IsFiniteSet(Numbers(s)) /\ Uncalled(s) \subseteq Numbers(s)
    BY <1>1, FS_Interval DEF Numbers, Uncalled
  <1> QED  BY <1>2, FS_Subset

\* Executions begun and executions that may still be begun stay within the attempts.
LEMMA CallsStay ==
    ASSUME GenInv, UNCHANGED calls, \A s \in Slots : Len(attempts'[s]) = Len(attempts[s]),
           \A r \in Rows : (At(r).status = "pending")' => At(r).status = "pending",
           \A w \in GenWorkers : task'[w].step = "start" =>
              \/ task[w].step = "start" /\ task'[w].at = task[w].at
              \/ At(task'[w].at).status = "pending"
    PROVE  CallsFit'
  <1> SUFFICES ASSUME NEW s \in Slots
               PROVE  calls'[s] + Cardinality(Uncalled(s)') <= Len(attempts'[s])
    BY DEF CallsFit
  <1>1. Len(attempts[s]) \in Nat /\ calls[s] \in Nat
    BY DEF GenInv, GenerativeTypeOK
  <1>2. IsFiniteSet(Uncalled(s))
    BY UncalledFinite DEF GenInv
  <1>3. Uncalled(s)' \subseteq Uncalled(s)
    <2> SUFFICES ASSUME NEW n \in Uncalled(s)' PROVE n \in Uncalled(s)
      OBVIOUS
    <2>1. n \in Numbers(s) /\ <<s, n>> \in Rows
      BY RowsStay, RowsAre DEF Uncalled, GenInv
    <2>2. CASE (At(<<s, n>>).status = "pending")'
      BY <2>1, <2>2 DEF Uncalled
    <2>3. CASE \E w \in GenWorkers : Starts(w, s, n)'
      BY <2>1, <2>3 DEF Uncalled, Starts
    <2> QED  BY <2>2, <2>3 DEF Uncalled
  <1>4. Cardinality(Uncalled(s)') <= Cardinality(Uncalled(s))
        /\ Cardinality(Uncalled(s)') \in Nat /\ Cardinality(Uncalled(s)) \in Nat
    BY <1>2, <1>3, FS_Subset, FS_CardinalityType
  <1>5. calls[s] + Cardinality(Uncalled(s)) <= Len(attempts[s])
    BY DEF GenInv, CallsFit
  <1>6. calls'[s] = calls[s] /\ Len(attempts'[s]) = Len(attempts[s])
    OBVIOUS
  <1> QED  BY <1>1, <1>4, <1>5, <1>6

\* No attempt is added and nothing is executed.
LEMMA GenKeep ==
    ASSUME GenInv, GenerativeTypeOK', UNCHANGED <<calls, retries>>,
           \A s \in Slots : Len(attempts'[s]) = Len(attempts[s]),
           genRun'.status = "none" <=> genRun.status = "none",
           \A r \in Rows : (At(r).status = "pending")' => At(r).status = "pending",
           \A w \in GenWorkers : task'[w].step = "start" =>
              \/ task[w].step = "start" /\ task'[w].at = task[w].at
              \/ At(task'[w].at).status = "pending",
           GenRows', GenEnds', GenUsed', \A w \in GenWorkers : TaskFits(w)', StartsApart'
    PROVE  GenInv'
  <1>1. CallsFit'
    BY CallsStay
  <1>2. GenLens'
    BY DEF GenInv, GenLens
  <1> QED  BY <1>1, <1>2 DEF GenInv

\* The same when workers move and no row is written.
LEMMA GenQuiet ==
    ASSUME GenInv, GenerativeTypeOK', UNCHANGED <<attempts, calls, retries>>,
           genRun'.status = genRun.status, genRun'.claim = genRun.claim, genRun'.used = genRun.used,
           \A w \in GenWorkers :
              \/ task'[w] = task[w]
              \/ /\ task'[w].step # "start" /\ TaskFits(w)'
                 /\ task[w].step \in {"idle", "claim"} => task'[w].step \in {"idle", "claim"}
    PROVE  GenInv'
  <1>1. /\ \A s \in Slots : Len(attempts'[s]) = Len(attempts[s])
        /\ Rows' = Rows /\ \A r \in Rows : At(r)' = At(r)
    BY DEF Rows, At
  <1>2. GenRows' /\ GenEnds'
    BY <1>1 DEF GenInv, GenRows, GenEnds, Latest
  <1>3. GenUsed'
    BY DEF GenInv, GenUsed
  <1>4. \A w \in GenWorkers : TaskFits(w)'
    <2> TAKE w \in GenWorkers
    <2>1. CASE task'[w] = task[w]
      <3>1. TaskFits(w) /\ (OwnsRun(w)' <=> OwnsRun(w))
        BY DEF GenInv, OwnsRun
      <3>2. At(task[w].at)' = At(task[w].at)
        BY <2>1 DEF At
      <3>3. task[w].step \in Calling => task'[w].at \in Rows' /\ (At(task[w].at).status # "pending")'
        BY <1>1, <2>1, <3>1, <3>2 DEF TaskFits, At
      <3>4. task'[w].todo \subseteq Rows'
        BY <1>1, <2>1, <3>1 DEF TaskFits
      <3>5. OwnsRun(w)' /\ task'[w].step \in Working =>
              \A r \in Rows' : At(r)'.status = "running" => task'[w].step \in Calling /\ task'[w].at = r
        BY <1>1, <2>1, <3>1 DEF TaskFits
      <3> QED  BY <2>1, <3>3, <3>4, <3>5 DEF TaskFits
    <2> QED  BY <2>1
  <1>5. StartsApart'
    BY DEF GenInv, StartsApart
  <1>6. \A w \in GenWorkers : task'[w].step = "start" => task[w].step = "start" /\ task'[w].at = task[w].at
    OBVIOUS
  <1> QED  BY <1>1, <1>2, <1>3, <1>4, <1>5, <1>6, GenKeep

LEMMA GenFaultFits ==
    ASSUME GenerativeTypeOK, GenFault \/ UNCHANGED genFaults
    PROVE  genFaults' \in 0 .. MaxGenFaults
  BY GenerativeAssumption DEF GenerativeTypeOK, GenFault

LEMMA GenQueueKeeps ==
    ASSUME GenInv, DispatchPending \/ TwoMinutesPass \/ ClaimGoesStale
                   \/ \E w \in GenWorkers : Beat(w)
    PROVE  GenInv'
  <1>1. /\ genRun \in GenRun /\ genQueue \in Nat /\ GenerativeTypeOK
        /\ UNCHANGED <<attempts, task, calls, retries>>
    BY DEF GenInv, GenerativeTypeOK, DispatchPending, TwoMinutesPass, ClaimGoesStale, Beat
  <1>2. \/ genRun' = [genRun EXCEPT !.dispatched = "lately"]
        \/ genRun' = [genRun EXCEPT !.dispatched = "before"]
        \/ genRun' = [genRun EXCEPT !.stale = TRUE] \/ genRun' = [genRun EXCEPT !.stale = FALSE]
    BY DEF DispatchPending, TwoMinutesPass, ClaimGoesStale, Beat
  <1>3. genRun' \in GenRun /\ genRun'.status = genRun.status /\ genRun'.claim = genRun.claim
        /\ genRun'.used = genRun.used
    BY <1>1, <1>2 DEF GenRun
  <1>4. genQueue' \in Nat
    BY <1>1 DEF DispatchPending, TwoMinutesPass, ClaimGoesStale, Beat
  <1>5. genFaults' \in 0 .. MaxGenFaults
    BY <1>1, GenFaultFits DEF DispatchPending, TwoMinutesPass, ClaimGoesStale, Beat
  <1>6. GenerativeTypeOK'
    BY <1>1, <1>3, <1>4, <1>5 DEF GenerativeTypeOK
  <1>7. \A w \in GenWorkers : task'[w] = task[w]
    BY <1>1
  <1> QED  BY <1>1, <1>3, <1>6, <1>7, GenQuiet

\* Worker w has moved and no row has.
LEMMA GenMove ==
    ASSUME GenInv, NEW w \in GenWorkers, TaskOthers(w), TaskFits(w)', task'[w].step # "start",
           task[w].step \in {"idle", "claim"} => task'[w].step \in {"idle", "claim"},
           UNCHANGED <<genRun, attempts, calls, retries>>, genQueue' \in Nat,
           GenFault \/ UNCHANGED genFaults
    PROVE  GenInv'
  <1>1. GenerativeTypeOK'
    BY GenFaultFits DEF GenInv, GenerativeTypeOK, TaskOthers
  <1>2. \A v \in GenWorkers : v # w => task'[v] = task[v]
    BY DEF TaskOthers
  <1> QED  BY <1>1, <1>2, GenQuiet

LEMMA GenLeaveKeeps ==
    ASSUME GenInv, NEW w \in GenWorkers, Leave(w), UNCHANGED <<genRun, attempts, calls, retries>>,
           genQueue' \in Nat, GenFault \/ UNCHANGED genFaults
    PROVE  GenInv'
  BY LeaveFits, GenMove

\* What a worker that has not lost its way still fits when it goes on.
LEMMA StepFits ==
    ASSUME GenInv, UNCHANGED <<genRun, attempts>>, NEW w \in GenWorkers,
           task'[w].todo \subseteq Rows, task'[w].at = task[w].at,
           task[w].step \in Working <=> task'[w].step \in Working,
           task[w].step \in Calling <=> task'[w].step \in Calling
    PROVE  TaskFits(w)'
  <1>1. Rows' = Rows /\ (OwnsRun(w)' <=> OwnsRun(w)) /\ TaskFits(w)
    BY DEF GenInv, Rows, OwnsRun
  <1>2. \A r \in Rows : At(r)' = At(r)
    BY DEF At
  <1>3. At(task[w].at)' = At(task[w].at)
    BY DEF At
  <1>4. task'[w].step \in Calling => task'[w].at \in Rows' /\ (At(task[w].at).status # "pending")'
    BY <1>1, <1>3 DEF TaskFits, At
  <1>5. OwnsRun(w)' /\ task'[w].step \in Working =>
              \A r \in Rows' : At(r)'.status = "running" => task'[w].step \in Calling /\ task'[w].at = r
    BY <1>1, <1>2 DEF TaskFits
  <1> QED  BY <1>1, <1>4, <1>5 DEF TaskFits

------------------------------------------------------------------------------
(* GenerativeRuns: the steps in which no row is written.                     *)

LEMMA GenReceiveKeeps ==
    ASSUME GenInv, NEW w \in GenWorkers, ReceiveTask(w) \/ TaskRaises(w) \/ GenWorkerDies(w)
    PROVE  GenInv'
  <1>1. UNCHANGED <<genRun, attempts, calls, retries>> /\ (GenFault \/ UNCHANGED genFaults)
    BY DEF ReceiveTask, TaskRaises, GenWorkerDies
  <1>2. genQueue' \in Nat
    <2>1. genQueue \in Nat
      BY DEF GenInv, GenerativeTypeOK
    <2> QED  BY <2>1 DEF ReceiveTask, TaskRaises, GenWorkerDies
  <1>3. CASE ReceiveTask(w)
    <2>1. Step(w, "claim") /\ "claim" \in TaskSteps /\ task[w].step = "idle"
      BY <1>3 DEF ReceiveTask, TaskSteps
    <2>2. /\ TaskOthers(w) /\ task'[w].step = "claim" /\ task'[w].todo = task[w].todo
          /\ task'[w].at = task[w].at
      BY <2>1, StepMoves DEF GenInv
    <2>3. task'[w].todo \subseteq Rows
      BY <2>2 DEF GenInv, TaskFits
    <2>4. /\ task[w].step \in Working <=> task'[w].step \in Working
          /\ task[w].step \in Calling <=> task'[w].step \in Calling
      BY <2>1, <2>2 DEF Working, Calling
    <2>5. TaskFits(w)'
      BY <1>1, <2>2, <2>3, <2>4, StepFits
    <2> QED  BY <1>1, <1>2, <2>2, <2>5, GenMove
  <1>4. CASE TaskRaises(w) \/ GenWorkerDies(w)
    <2>1. Leave(w)
      BY <1>4 DEF TaskRaises, GenWorkerDies
    <2> QED  BY <1>1, <1>2, <2>1, GenLeaveKeeps
  <1> QED  BY <1>3, <1>4

LEMMA GenLoadKeeps ==
    ASSUME GenInv, NEW w \in GenWorkers, LoadAttempts(w)
    PROVE  GenInv'
  <1> DEFINE x == [task[w] EXCEPT !.todo = RowsIn({"pending"}), !.step = "next"]
  <1>1. task[w] \in Task /\ genQueue' \in Nat
    BY DEF LoadAttempts, GenInv, GenerativeTypeOK
  <1>2. RowsIn({"pending"}) \subseteq Rows /\ Rows \subseteq Slots \X (Nat \ {0})
    BY RowsAre DEF RowsIn, GenInv
  <1>3. x \in Task /\ x.todo = RowsIn({"pending"}) /\ x.at = task[w].at /\ x.step = "next"
    BY <1>1, <1>2 DEF Task
  <1>4. task' = [task EXCEPT ![w] = x]
    BY DEF LoadAttempts
  <1> HIDE DEF x
  <1>5. TaskOthers(w) /\ task'[w] = x
    BY <1>3, <1>4, TaskUpdate DEF GenInv
  <1>6. /\ task[w].step \in Working <=> task'[w].step \in Working
        /\ task[w].step \in Calling <=> task'[w].step \in Calling
        /\ task[w].step \notin {"idle", "claim"}
    BY <1>3, <1>5 DEF LoadAttempts, Working, Calling
  <1>7. UNCHANGED <<genRun, attempts, calls, retries, genFaults>>
    BY DEF LoadAttempts
  <1>8. TaskFits(w)'
    BY <1>2, <1>3, <1>5, <1>6, <1>7, StepFits
  <1> QED  BY <1>1, <1>3, <1>5, <1>6, <1>7, <1>8, GenMove

\* The worker notes an outcome, or passes over an attempt.
LEMMA GenNoteKeeps ==
    ASSUME GenInv, NEW w \in GenWorkers, NEW x \in Task, task' = [task EXCEPT ![w] = x],
           x.todo \subseteq task[w].todo, x.at = task[w].at, task[w].step \in Working,
           x.step \in Working, x.step # "start",
           task[w].step \in Calling <=> x.step \in Calling,
           UNCHANGED <<genRun, attempts, genQueue, calls, retries, genFaults>>
    PROVE  GenInv'
  <1>1. TaskOthers(w) /\ task'[w] = x
    BY TaskUpdate DEF GenInv
  <1>2. x.todo \subseteq Rows /\ genQueue' \in Nat
    BY DEF GenInv, TaskFits, GenerativeTypeOK
  <1>3. TaskFits(w)'
    BY <1>1, <1>2, StepFits
  <1>4. task[w].step \notin {"idle", "claim"}
    BY DEF Working, Calling
  <1> QED  BY <1>1, <1>2, <1>3, <1>4, GenMove

LEMMA GenEndCallKeeps ==
    ASSUME GenInv, NEW w \in GenWorkers, EndCall(w)
    PROVE  GenInv'
  <1>1. PICK outcome \in Outcomes :
           task' = [task EXCEPT ![w].outcome = outcome, ![w].step = "store"]
    BY DEF EndCall
  <1> DEFINE x == [task[w] EXCEPT !.outcome = outcome, !.step = "store"]
  <1>2. task[w] \in Task /\ task[w].step = "call"
    BY DEF GenInv, GenerativeTypeOK, EndCall
  <1>3. x \in Task /\ x.todo = task[w].todo /\ x.at = task[w].at /\ x.step = "store"
    BY <1>2 DEF Task
  <1>4. task' = [task EXCEPT ![w] = x]
    BY <1>1
  <1> HIDE DEF x
  <1>5. UNCHANGED <<genRun, attempts, genQueue, calls, retries, genFaults>>
    BY DEF EndCall
  <1> QED  BY <1>2, <1>3, <1>4, <1>5, GenNoteKeeps DEF Working, Calling

\* An execution begins: one attempt fewer may begin its first.
LEMMA GenStartKeeps ==
    ASSUME GenInv, NEW w \in GenWorkers, StartCall(w)
    PROVE  GenInv'
  <1> DEFINE at == task[w].at
  <1>1. /\ task[w].step = "start" /\ UNCHANGED <<genRun, attempts, genQueue, retries, genFaults>>
        /\ calls' = [calls EXCEPT ![at[1]] = @ + 1] /\ Step(w, "call")
    BY DEF StartCall
  <1>2. /\ TaskOthers(w) /\ task'[w].step = "call" /\ task'[w].todo = task[w].todo
        /\ task'[w].at = at
    BY <1>1, StepMoves DEF GenInv, TaskSteps
  <1>3. /\ at \in Rows /\ At(at).status # "pending" /\ task[w].todo \subseteq Rows
    BY <1>1 DEF GenInv, TaskFits, Calling
  <1>4. /\ at[1] \in Slots /\ at[2] \in Numbers(at[1]) /\ at = <<at[1], at[2]>>
    BY <1>3, RowsAre DEF GenInv
  <1>5. calls \in [Slots -> Nat] /\ calls' \in [Slots -> Nat]
        /\ \A s \in Slots : calls'[s] = IF s = at[1] THEN calls[s] + 1 ELSE calls[s]
    BY <1>1, <1>4 DEF GenInv, GenerativeTypeOK
  <1>6. GenerativeTypeOK'
    BY <1>1, <1>2, <1>5 DEF GenInv, GenerativeTypeOK, TaskOthers
  <1>7. Rows' = Rows /\ \A r \in Rows : At(r)' = At(r)
    BY <1>1 DEF Rows, At
  <1>8. GenLens' /\ GenRows' /\ GenEnds'
    BY <1>1, <1>7 DEF GenInv, GenLens, GenRows, GenEnds, Latest
  <1>9. GenUsed'
    BY <1>1 DEF GenInv, GenUsed
  <1>10. \A v \in GenWorkers : TaskFits(v)'
    <2> TAKE v \in GenWorkers
    <2>1. /\ task'[v].todo = task[v].todo /\ task'[v].at = task[v].at
          /\ task[v].step \in Working <=> task'[v].step \in Working
          /\ task[v].step \in Calling <=> task'[v].step \in Calling
      BY <1>1, <1>2 DEF TaskOthers, Working, Calling
    <2>2. task'[v].todo \subseteq Rows
      BY <2>1 DEF GenInv, TaskFits
    <2> QED  BY <1>1, <2>1, <2>2, StepFits
  <1>11. StartsApart'
    BY <1>2 DEF GenInv, StartsApart, TaskOthers
  <1>12. CallsFit'
    <2> SUFFICES ASSUME NEW s \in Slots
                 PROVE  calls'[s] + Cardinality(Uncalled(s)') <= Len(attempts'[s])
      BY DEF CallsFit
    <2>1. Len(attempts[s]) \in Nat /\ attempts' = attempts /\ calls[s] \in Nat
      BY <1>1 DEF GenInv, GenerativeTypeOK
    <2>2. IsFiniteSet(Uncalled(s))
      BY UncalledFinite DEF GenInv
    <2>3. \A n \in Uncalled(s)' : n \in Uncalled(s) /\ <<s, n>> # at
      <3> TAKE n \in Uncalled(s)'
      <3>1. n \in Numbers(s) /\ <<s, n>> \in Rows
        BY <2>1, RowsAre DEF Uncalled, Numbers, GenInv
      <3>2. CASE (At(<<s, n>>).status = "pending")'
        BY <1>3, <1>7, <3>1, <3>2 DEF Uncalled
      <3>3. CASE \E v \in GenWorkers : Starts(v, s, n)'
        <4>1. PICK v \in GenWorkers : Starts(v, s, n)'
          BY <3>3
        <4>2. v # w /\ task'[v] = task[v]
          BY <1>2, <4>1 DEF Starts, TaskOthers
        <4>3. Starts(v, s, n) /\ task[v].at # at
          BY <1>1, <4>1, <4>2 DEF Starts, GenInv, StartsApart
        <4> QED  BY <3>1, <4>3 DEF Uncalled, Starts
      <3> QED  BY <3>2, <3>3 DEF Uncalled
    <2>4. calls[s] + Cardinality(Uncalled(s)) <= Len(attempts[s])
          /\ Cardinality(Uncalled(s)) \in Nat /\ Cardinality(Uncalled(s)') \in Nat
      <3>1. Uncalled(s)' \subseteq Uncalled(s)
        BY <2>3
      <3> QED  BY <2>2, <3>1, FS_CardinalityType, FS_Subset DEF GenInv, CallsFit
    <2>5. CASE s = at[1]
      <3>1. at[2] \in Uncalled(s)
        BY <1>1, <1>4, <2>5 DEF Uncalled, Starts
      <3>2. Uncalled(s)' \subseteq Uncalled(s) \ {at[2]}
        BY <1>4, <2>3, <2>5
      <3>3. /\ Cardinality(Uncalled(s) \ {at[2]}) = Cardinality(Uncalled(s)) - 1
            /\ IsFiniteSet(Uncalled(s) \ {at[2]})
        BY <2>2, <3>1, FS_RemoveElement
      <3>4. Cardinality(Uncalled(s)') <= Cardinality(Uncalled(s)) - 1
        BY <3>2, <3>3, FS_Subset
      <3>5. calls'[s] = calls[s] + 1
        BY <1>5, <2>5
      <3> QED  BY <2>1, <2>4, <3>4, <3>5
    <2>6. CASE s # at[1]
      <3>1. Uncalled(s)' \subseteq Uncalled(s)
        BY <2>3
      <3>2. Cardinality(Uncalled(s)') <= Cardinality(Uncalled(s))
        BY <2>2, <3>1, FS_Subset
      <3>3. calls'[s] = calls[s]
        BY <1>5, <2>6
      <3> QED  BY <2>1, <2>4, <3>2, <3>3
    <2> QED  BY <2>5, <2>6
  <1> QED  BY <1>6, <1>8, <1>9, <1>10, <1>11, <1>12 DEF GenInv

------------------------------------------------------------------------------
(* GenerativeRuns: claims, ends and writes.                                  *)

LEMMA GenClaimKeeps ==
    ASSUME GenInv, NEW w \in GenWorkers, ClaimGenerative(w)
    PROVE  GenInv'
  <1>1. UNCHANGED <<attempts, genQueue, calls, retries, genFaults>> /\ genQueue' \in Nat
        /\ task[w].step = "claim"
    BY DEF ClaimGenerative, GenInv, GenerativeTypeOK
  <1>2. CASE Leave(w) /\ UNCHANGED genRun
    BY <1>1, <1>2, GenLeaveKeeps
  <1>3. CASE /\ genRun.status = "pending" /\ Step(w, "load")
             /\ genRun' = [genRun EXCEPT !.status = "running", !.claim = w, !.stale = FALSE,
                                         !.used = TRUE]
    <2>1. genRun \in GenRun
      BY DEF GenInv, GenerativeTypeOK
    <2>2. genRun' \in GenRun /\ genRun'.status = "running" /\ genRun'.claim = w /\ genRun'.used
      BY <1>3, <2>1 DEF GenRun
    <2>3. TaskOthers(w) /\ task'[w].step = "load" /\ task'[w].todo = task[w].todo
      BY <1>3, StepMoves DEF GenInv, TaskSteps
    <2>4. GenerativeTypeOK'
      BY <1>1, <2>2, <2>3 DEF GenInv, GenerativeTypeOK, TaskOthers
    <2>5. /\ \A s \in Slots : Len(attempts'[s]) = Len(attempts[s])
          /\ Rows' = Rows /\ \A r \in Rows : At(r)' = At(r)
      BY <1>1 DEF Rows, At
    <2>6. GenRows' /\ GenEnds' /\ GenUsed'
      BY <1>1, <1>3, <2>2, <2>5 DEF GenInv, GenRows, GenEnds, GenUsed, Unfinished
    <2>7. \A v \in GenWorkers : TaskFits(v)'
      <3> TAKE v \in GenWorkers
      <3>1. TaskFits(v) /\ \A r \in Rows : At(r).status # "running"
        BY <1>3 DEF GenInv, GenRows
      <3>2. CASE v = w
        BY <2>3, <2>5, <3>1, <3>2 DEF TaskFits, Calling
      <3>3. CASE v # w
        <4>1. task'[v] = task[v] /\ ~OwnsRun(v)'
          BY <2>2, <2>3, <3>3 DEF TaskOthers, OwnsRun
        <4>2. At(task[v].at)' = At(task[v].at)
          BY <1>1, <4>1 DEF At
        <4>3. task[v].step \in Calling => (At(task[v].at).status # "pending")'
          BY <3>1, <4>2 DEF TaskFits
        <4> QED  BY <2>5, <3>1, <4>1, <4>3 DEF TaskFits
      <3> QED  BY <3>2, <3>3
    <2>8. \A v \in GenWorkers : task'[v].step = "start" => task[v].step = "start" /\ task'[v].at = task[v].at
      BY <2>3 DEF TaskOthers
    <2>9. StartsApart'
      BY <2>8 DEF GenInv, StartsApart
    <2> QED  BY <1>1, <1>3, <2>2, <2>4, <2>5, <2>6, <2>7, <2>8, <2>9, GenKeep
  <1> QED  BY <1>2, <1>3 DEF ClaimGenerative, ClaimablePending

\* The run ends, with every attempt of it.
LEMMA GenEndKeeps ==
    ASSUME GenInv, NEW status \in RunEnded, RunEnds(status),
           attempts' \in [Slots -> Seq(Attempt)],
           \A s \in Slots : Len(attempts'[s]) = Len(attempts[s]),
           \A r \in Rows : (At(r).status)' \notin Unfinished,
           \A r \in Rows : (At(r).unconfirmed)' => status = "failed",
           status = "completed" => \A s \in Slots : (Latest(s).status)' = "completed",
           status = "cancelled" => ~genRun.used, genRun.status # "none",
           UNCHANGED task \/ \E w \in GenWorkers : Leave(w),
           UNCHANGED <<genQueue, calls, retries, genFaults>>
    PROVE  GenInv'
  <1>1. genRun \in GenRun
    BY DEF GenInv, GenerativeTypeOK
  <1>2. /\ genRun' \in GenRun /\ genRun'.status = status /\ genRun'.used = genRun.used
        /\ status \notin Unfinished /\ status # "none"
    BY <1>1 DEF RunEnds, GenRun, RunEnded, Unfinished
  <1>3. /\ task' \in [GenWorkers -> Task]
        /\ \A v \in GenWorkers : \/ task'[v] = task[v]
                                 \/ task'[v].step = "idle" /\ task'[v].todo = {}
    BY LeaveMoves DEF GenInv, GenerativeTypeOK, TaskOthers
  <1>4. GenerativeTypeOK'
    BY <1>2, <1>3 DEF GenInv, GenerativeTypeOK
  <1>5. Rows' = Rows
    BY RowsStay
  <1>6. GenRows'
    BY <1>2, <1>5 DEF GenRows, Unfinished
  <1>7. GenEnds'
    BY <1>2 DEF GenEnds
  <1>8. GenUsed'
    BY <1>2, <1>3 DEF GenInv, GenUsed
  <1>9. \A v \in GenWorkers : TaskFits(v)'
    <2> TAKE v \in GenWorkers
    <2>1. ~OwnsRun(v)' /\ TaskFits(v)
      BY <1>2 DEF OwnsRun, Unfinished, GenInv
    <2>2. task'[v].step \in Calling => task'[v] = task[v] /\ task[v].at \in Rows
      BY <1>3, <2>1 DEF TaskFits, Calling
    <2>3. task'[v].step \in Calling => (At(task[v].at).status # "pending")'
      BY <2>2 DEF At, Unfinished
    <2>4. task'[v].todo \subseteq Rows
      BY <1>3, <2>1 DEF TaskFits
    <2> QED  BY <1>5, <2>1, <2>2, <2>3, <2>4 DEF TaskFits
  <1>10. \A v \in GenWorkers : task'[v].step = "start" => task[v].step = "start" /\ task'[v].at = task[v].at
    BY <1>3
  <1>11. StartsApart'
    BY <1>10 DEF GenInv, StartsApart
  <1>12. \A r \in Rows : (At(r).status = "pending")' => At(r).status = "pending"
    BY DEF Unfinished
  <1> QED  BY <1>2, <1>4, <1>6, <1>7, <1>8, <1>9, <1>10, <1>11, <1>12, GenKeep

LEMMA GenFinishKeeps ==
    ASSUME GenInv, NEW w \in GenWorkers, FinishGenerative(w)
    PROVE  GenInv'
  <1>1. Leave(w) /\ UNCHANGED <<attempts, genQueue, calls, retries, genFaults>>
    BY DEF FinishGenerative
  <1>2. CASE UNCHANGED genRun
    BY <1>1, <1>2, GenLeaveKeeps DEF GenInv, GenerativeTypeOK
  <1>3. CASE /\ OwnsRun(w) /\ \A s \in Slots : Latest(s).status \notin Unfinished
             /\ RunEnds(IF \A s \in Slots : Latest(s).status = "completed"
                        THEN "completed" ELSE "failed")
    <2> DEFINE all == \A s \in Slots : Latest(s).status = "completed"
               status == IF all THEN "completed" ELSE "failed"
    <2>1. /\ attempts' \in [Slots -> Seq(Attempt)] /\ genRun.status = "running"
          /\ \A s \in Slots : Len(attempts'[s]) = Len(attempts[s])
      BY <1>1, <1>3 DEF GenInv, GenerativeTypeOK, OwnsRun
    <2>2. \A r \in Rows : At(r)' = At(r) /\ ~At(r).unconfirmed /\ At(r).status \notin Unfinished
      <3> TAKE r \in Rows
      <3>1. At(r)' = At(r) /\ ~At(r).unconfirmed
        BY <1>1, <2>1 DEF At, GenInv, GenRows
      <3>2. At(r).status \in Unfinished => At(r) = Latest(r[1]) /\ r[1] \in Slots
        BY RowsAre DEF GenInv, GenRows, Latest, At
      <3> QED  BY <1>3, <3>1, <3>2
    <2>3. \A s \in Slots : Latest(s)' = Latest(s)
      BY <1>1 DEF Latest
    <2>4. status \in RunEnded /\ status # "cancelled" /\ (status = "completed" => all)
      BY DEF RunEnded
    <2>5. RunEnds(status)
      BY <1>3
    <2>6. status = "completed" => \A s \in Slots : (Latest(s).status)' = "completed"
      BY <2>3, <2>4
    <2> HIDE DEF status
    <2> QED  BY <1>1, <2>1, <2>2, <2>4, <2>5, <2>6, GenEndKeeps
  <1> QED  BY <1>2, <1>3 DEF FinishGenerative

\* Changing the status of an attempt leaves an attempt.
LEMMA StatusChanged ==
    ASSUME NEW a \in Attempt, NEW status \in AttemptStatus, NEW claim \in GenWorkers \cup {Null}
    PROVE  /\ [a EXCEPT !.status = status] \in Attempt
           /\ [a EXCEPT !.status = status].status = status
           /\ [a EXCEPT !.status = status].unconfirmed = a.unconfirmed
           /\ [a EXCEPT !.status = status, !.claim = claim] \in Attempt
           /\ [a EXCEPT !.status = status, !.claim = claim].status = status
           /\ [a EXCEPT !.status = status, !.claim = claim].unconfirmed = a.unconfirmed
  BY DEF Attempt

LEMMA GenCancelKeeps ==
    ASSUME GenInv, CancelPending
    PROVE  GenInv'
  <1> DEFINE new == [r \in Rows |-> [At(r) EXCEPT !.status = "cancelled"]]
  <1>1. "cancelled" \in AttemptStatus /\ "cancelled" \in RunEnded /\ "cancelled" \notin Unfinished
    BY DEF AttemptStatus, RunEnded, Unfinished
  <1>2. \A r \in Rows : /\ new[r] \in Attempt /\ new[r].status = "cancelled"
                        /\ new[r].unconfirmed = At(r).unconfirmed
    BY <1>1, RowsAre, StatusChanged DEF GenInv
  <1>3. DOMAIN new = Rows /\ Rewrite(new)
    BY DEF CancelPending
  <1> HIDE DEF new
  <1>4. /\ attempts' \in [Slots -> Seq(Attempt)]
        /\ \A s \in Slots : Len(attempts'[s]) = Len(attempts[s])
        /\ \A r \in Rows : At(r)' = new[r]
    BY <1>2, <1>3, RewriteIs DEF GenInv
  <1>5. genRun.status = "pending" /\ ~genRun.used
    BY DEF CancelPending, Untouched
  <1>6. \A r \in Rows : ~At(r).unconfirmed
    BY <1>5 DEF GenInv, GenRows
  <1> QED  BY <1>1, <1>2, <1>4, <1>5, <1>6, GenEndKeeps DEF CancelPending

LEMMA GenInterruptKeeps ==
    ASSUME GenInv, InterruptStale
    PROVE  GenInv'
  <1> DEFINE new == [r \in RowsIn(Unfinished) |->
                       [At(r) EXCEPT !.status = "interrupted", !.claim = genRun.claim]]
  <1>1. "interrupted" \in AttemptStatus /\ "failed" \in RunEnded /\ "interrupted" \notin Unfinished
        /\ genRun.claim \in GenWorkers \cup {Null}
    BY DEF AttemptStatus, RunEnded, Unfinished, GenInv, GenerativeTypeOK, GenRun
  <1>2. \A r \in RowsIn(Unfinished) : new[r] \in Attempt /\ new[r].status = "interrupted"
    <2> TAKE r \in RowsIn(Unfinished)
    <2>1. At(r) \in Attempt
      BY RowsAre DEF GenInv, RowsIn
    <2>2. new[r] = [At(r) EXCEPT !.status = "interrupted", !.claim = genRun.claim]
      OBVIOUS
    <2> QED  BY <1>1, <2>1, <2>2, StatusChanged
  <1>3. DOMAIN new = RowsIn(Unfinished) /\ Rewrite(new)
    BY DEF InterruptStale
  <1> HIDE DEF new
  <1>4. /\ attempts' \in [Slots -> Seq(Attempt)]
        /\ \A s \in Slots : Len(attempts'[s]) = Len(attempts[s])
        /\ \A r \in Rows : At(r)' = IF r \in RowsIn(Unfinished) THEN new[r] ELSE At(r)
    BY <1>2, <1>3, RewriteIs DEF GenInv
  <1>5. \A r \in Rows : (At(r).status)' \notin Unfinished
    BY <1>1, <1>2, <1>4 DEF RowsIn
  <1> QED  BY <1>1, <1>4, <1>5, GenEndKeeps DEF InterruptStale

LEMMA GenUnconfirmedKeeps ==
    ASSUME GenInv, NEW w \in GenWorkers, CompleteUnconfirmed(w)
    PROVE  GenInv'
  <1> DEFINE at == task[w].at
             hit == {at} \cup RowsIn({"pending"})
             new == [r \in hit |-> Fenced(At(r), w)]
  <1>1. Leave(w) /\ UNCHANGED <<genQueue, calls, retries, genFaults>> /\ task[w].step \in Calling
    BY DEF CompleteUnconfirmed, Calling
  <1>2. CASE UNCHANGED <<genRun, attempts>>
    BY <1>1, <1>2, GenLeaveKeeps DEF GenInv, GenerativeTypeOK
  <1>3. CASE OwnsAttempt(w) /\ Rewrite(new) /\ RunEnds("failed")
    <2>1. /\ at \in Rows /\ hit \subseteq Rows /\ OwnsRun(w) /\ genRun.status = "running"
          /\ \A r \in Rows : At(r).status = "running" => r = at
      BY <1>1, <1>3 DEF GenInv, TaskFits, OwnsAttempt, OwnsRun, RowsIn, Working
    <2>2. \A r \in hit : Fenced(At(r), w) \in Attempt /\ Fenced(At(r), w).status \notin Unfinished
      <3> TAKE r \in hit
      <3>1. At(r) \in Attempt
        BY <2>1, RowsAre DEF GenInv
      <3> QED  BY <3>1 DEF Fenced, Attempt, AttemptStatus, Unfinished
    <2>3. DOMAIN new = hit /\ \A r \in hit : new[r] = Fenced(At(r), w)
      OBVIOUS
    <2>4. /\ attempts' \in [Slots -> Seq(Attempt)]
          /\ \A s \in Slots : Len(attempts'[s]) = Len(attempts[s])
          /\ \A r \in Rows : At(r)' = IF r \in hit THEN new[r] ELSE At(r)
      <3> HIDE DEF new, hit
      <3> QED  BY <1>3, <2>2, <2>3, RewriteIs DEF GenInv
    <2>5. \A r \in Rows : (At(r).status)' \notin Unfinished
      <3> TAKE r \in Rows
      <3>1. r \notin hit => At(r).status \notin Unfinished
        BY <2>1 DEF RowsIn, Unfinished
      <3> HIDE DEF new, hit
      <3> QED  BY <2>2, <2>3, <2>4, <3>1
    <2> QED  BY <1>1, <1>3, <2>1, <2>4, <2>5, GenEndKeeps DEF RunEnded
  <1> QED  BY <1>2, <1>3 DEF CompleteUnconfirmed

\* The owner writes one row that is open and the run stays its own.
LEMMA GenWriteKeeps ==
    ASSUME GenInv, NEW w \in GenWorkers, OwnsRun(w), task[w].step \in Working, NEW at \in Rows,
           NEW a \in Attempt, a.status # "pending", a.unconfirmed = At(at).unconfirmed,
           At(at).status \in Unfinished, Rewrite([r \in {at} |-> a]),
           TaskOthers(w), task'[w].todo \subseteq task[w].todo,
           \A r \in Rows : At(r).status = "running" => r = at,
           \/ /\ task'[w].step = "start" /\ task'[w].at = at /\ At(at).status = "pending"
           \/ task'[w].step = "next" /\ a.status # "running",
           UNCHANGED <<genRun, genQueue, calls, retries, genFaults>>
    PROVE  GenInv'
  <1>1. /\ attempts' \in [Slots -> Seq(Attempt)]
        /\ \A s \in Slots : Len(attempts'[s]) = Len(attempts[s])
        /\ \A r \in Rows : At(r)' = IF r = at THEN a ELSE At(r)
    <2> DEFINE new == [r \in {at} |-> a]
    <2>1. DOMAIN new = {at} /\ new[at] = a /\ Rewrite(new)
      OBVIOUS
    <2> HIDE DEF new
    <2> QED  BY <2>1, RewriteIs DEF GenInv
  <1>2. Rows' = Rows
    BY <1>1, RowsStay
  <1>3. GenerativeTypeOK'
    BY <1>1 DEF GenInv, GenerativeTypeOK, TaskOthers
  <1>4. genRun.status = "running" /\ genRun' = genRun /\ \A r \in Rows : ~At(r).unconfirmed
    BY DEF OwnsRun, GenInv, GenRows
  <1>5. GenRows'
    <2> SUFFICES ASSUME NEW r \in Rows
                 PROVE  /\ (At(r).status)' \in Unfinished => r[2] = Len(attempts[r[1]])
                        /\ ~(At(r).unconfirmed)'
      <3>1. \A r \in Rows : Len(attempts'[r[1]]) = Len(attempts[r[1]])
        BY <1>1, RowsAre DEF GenInv
      <3> QED  BY <1>2, <1>4, <3>1 DEF GenRows, Unfinished
    <2> QED  BY <1>1, <1>4 DEF GenInv, GenRows
  <1>6. GenEnds'
    BY <1>4 DEF GenEnds
  <1>7. \A v \in GenWorkers : v # w => task'[v] = task[v] /\ ~OwnsRun(v)'
    BY <1>4 DEF TaskOthers, OwnsRun
  <1>8. \A v \in GenWorkers : TaskFits(v)'
    <2> TAKE v \in GenWorkers
    <2>1. task'[v].todo \subseteq Rows
      BY <1>7 DEF GenInv, TaskFits
    <2>2. task'[v].step \in Calling => task'[v].at \in Rows /\ (At(task[v].at).status # "pending")'
      <3>1. CASE v = w
        <4>1. task'[w].step \in Calling => task'[w].at = at
          BY DEF Calling
        <4>2. At(at)'.status # "pending"
          BY <1>1
        <4> QED  BY <3>1, <4>1, <4>2 DEF At
      <3>2. CASE v # w
        <4>1. task'[v] = task[v]
          BY <1>7, <3>2
        <4>2. task[v].step \in Calling => task[v].at \in Rows /\ At(task[v].at).status # "pending"
          BY DEF GenInv, TaskFits
        <4>3. \A r \in Rows : At(r).status # "pending" => At(r)'.status # "pending"
          BY <1>1
        <4> QED  BY <4>1, <4>2, <4>3 DEF At
      <3> QED  BY <3>1, <3>2
    <2>3. OwnsRun(v)' /\ task'[v].step \in Working =>
            \A r \in Rows : At(r)'.status = "running" => task'[v].step \in Calling /\ task'[v].at = r
      <3>1. CASE v = w
        <4>1. \A r \in Rows : At(r)'.status = "running" => r = at
          BY <1>1
        <4>2. CASE task'[w].step = "start" /\ task'[w].at = at
          BY <3>1, <4>1, <4>2 DEF Calling
        <4>3. CASE task'[w].step = "next" /\ a.status # "running"
          BY <1>1, <4>1, <4>3
        <4> QED  BY <4>2, <4>3
      <3> QED  BY <1>7, <3>1
    <2> QED  BY <1>2, <2>1, <2>2, <2>3 DEF TaskFits
  <1>9. GenUsed'
    <2>1. task[w].step \notin {"idle", "claim"}
      BY DEF Working, Calling
    <2> QED  BY <1>4, <2>1 DEF GenInv, GenUsed
  <1>10. StartsApart'
    <2>1. \A v \in GenWorkers : v # w /\ task'[v].step = "start" =>
             /\ task[v].step = "start" /\ task'[v].at = task[v].at
             /\ At(task[v].at).status # "pending"
      BY <1>7 DEF GenInv, TaskFits, Calling
    <2> QED  BY <2>1 DEF GenInv, StartsApart
  <1>11. \A r \in Rows : (At(r).status = "pending")' => At(r).status = "pending"
    BY <1>1
  <1>12. \A v \in GenWorkers : task'[v].step = "start" =>
              \/ task[v].step = "start" /\ task'[v].at = task[v].at
              \/ At(task'[v].at).status = "pending"
    BY <1>7
  <1> QED  BY <1>1, <1>3, <1>4, <1>5, <1>6, <1>8, <1>9, <1>10, <1>11, <1>12, GenKeep

LEMMA GenAttemptKeeps ==
    ASSUME GenInv, NEW w \in GenWorkers, ClaimAttempt(w)
    PROVE  GenInv'
  <1>1. task[w] \in Task /\ task[w].step = "next" /\ task[w].todo \subseteq Rows
    BY DEF ClaimAttempt, GenInv, GenerativeTypeOK, TaskFits
  <1>2. PICK r \in task[w].todo :
          \/ /\ MayClaim(w, r)
             /\ Rewrite([x \in {r} |-> [At(r) EXCEPT !.status = "running", !.claim = w]])
             /\ task' = [task EXCEPT ![w].todo = @ \ {r}, ![w].at = r, ![w].step = "start"]
          \/ task' = [task EXCEPT ![w].todo = @ \ {r}] /\ UNCHANGED attempts
    BY DEF ClaimAttempt
  <1>3. UNCHANGED <<genRun, genQueue, calls, retries, genFaults>>
    BY DEF ClaimAttempt
  <1>4. CASE task' = [task EXCEPT ![w].todo = @ \ {r}] /\ UNCHANGED attempts
    <2> DEFINE x == [task[w] EXCEPT !.todo = @ \ {r}]
    <2>1. /\ x \in Task /\ x.todo \subseteq task[w].todo /\ x.at = task[w].at /\ x.step = "next"
      BY <1>1 DEF Task
    <2>2. task' = [task EXCEPT ![w] = x]
      BY <1>4
    <2> HIDE DEF x
    <2> QED  BY <1>1, <1>3, <1>4, <2>1, <2>2, GenNoteKeeps DEF Working, Calling
  <1>5. CASE /\ MayClaim(w, r)
             /\ Rewrite([x \in {r} |-> [At(r) EXCEPT !.status = "running", !.claim = w]])
             /\ task' = [task EXCEPT ![w].todo = @ \ {r}, ![w].at = r, ![w].step = "start"]
    <2> DEFINE y == [task[w] EXCEPT !.todo = @ \ {r}, !.at = r, !.step = "start"]
               a == [At(r) EXCEPT !.status = "running", !.claim = w]
    <2>1. r \in Rows /\ r \in Slots \X (Nat \ {0}) /\ At(r) \in Attempt
      BY <1>1, RowsAre DEF GenInv
    <2>2. y \in Task /\ y.todo \subseteq task[w].todo /\ y.at = r /\ y.step = "start"
      BY <1>1, <2>1 DEF Task
    <2>3. task' = [task EXCEPT ![w] = y] /\ Rewrite([x \in {r} |-> a])
      BY <1>5
    <2>4. a \in Attempt /\ a.status = "running" /\ a.unconfirmed = At(r).unconfirmed
      <3>1. "running" \in AttemptStatus /\ w \in GenWorkers \cup {Null}
        BY DEF AttemptStatus, Unfinished
      <3> QED  BY <2>1, <3>1 DEF Attempt
    <2> HIDE DEF y, a
    <2>5. TaskOthers(w) /\ task'[w] = y
      BY <2>2, <2>3, TaskUpdate DEF GenInv
    <2>6. OwnsRun(w) /\ At(r).status = "pending" /\ At(r).status \in Unfinished
      BY <1>5 DEF MayClaim, Unfinished
    <2>7. \A q \in Rows : At(q).status # "running"
      BY <1>1, <2>6 DEF GenInv, TaskFits, Working, Calling
    <2>8. task[w].step \in Working
      BY <1>1 DEF Working
    <2> QED  BY <1>3, <2>1, <2>2, <2>3, <2>4, <2>5, <2>6, <2>7, <2>8, GenWriteKeeps
  <1> QED  BY <1>2, <1>4, <1>5

LEMMA GenCompleteKeeps ==
    ASSUME GenInv, NEW w \in GenWorkers, CompleteAttempt(w)
    PROVE  GenInv'
  <1> DEFINE at == task[w].at
  <1>1. /\ task[w] \in Task /\ task[w].step = "store" /\ task[w].outcome \in {"completed", "failed"}
        /\ UNCHANGED <<genRun, genQueue, calls, retries, genFaults>>
    BY DEF CompleteAttempt, GenInv, GenerativeTypeOK, Task, Outcomes
  <1>2. CASE OwnsAttempt(w) /\ Step(w, "next")
             /\ Rewrite([r \in {at} |-> [At(r) EXCEPT !.status = task[w].outcome]])
    <2> DEFINE a == [At(at) EXCEPT !.status = task[w].outcome]
    <2>1. at \in Rows /\ OwnsRun(w) /\ At(at).status = "running"
          /\ \A r \in Rows : At(r).status = "running" => r = at
      BY <1>1, <1>2 DEF GenInv, TaskFits, OwnsAttempt, Working, Calling
    <2>2. At(at) \in Attempt /\ task[w].outcome \in AttemptStatus
      BY <1>1, <2>1, RowsAre DEF GenInv, AttemptStatus
    <2>3. /\ a \in Attempt /\ a.status = task[w].outcome /\ a.unconfirmed = At(at).unconfirmed
      BY <2>2, StatusChanged
    <2>4. Rewrite([r \in {at} |-> a])
      <3>1. [r \in {at} |-> [At(r) EXCEPT !.status = task[w].outcome]] = [r \in {at} |-> a]
        OBVIOUS
      <3> QED  BY <1>2, <3>1
    <2>5. TaskOthers(w) /\ task'[w].step = "next" /\ task'[w].todo = task[w].todo
      BY <1>2, StepMoves DEF GenInv, TaskSteps
    <2> HIDE DEF a, at
    <2>6. a.status # "pending" /\ a.status # "running" /\ At(at).status \in Unfinished
      BY <1>1, <2>1, <2>3 DEF Unfinished
    <2>7. task[w].step \in Working
      BY <1>1 DEF Working, Calling
    <2> QED  BY <1>1, <2>1, <2>3, <2>4, <2>5, <2>6, <2>7, GenWriteKeeps
  <1>3. CASE task' = [task EXCEPT ![w].outcome = "failed"] /\ UNCHANGED attempts
    <2> DEFINE x == [task[w] EXCEPT !.outcome = "failed"]
    <2>1. x \in Task /\ x.todo = task[w].todo /\ x.at = task[w].at /\ x.step = "store"
      BY <1>1 DEF Task, Outcomes
    <2>2. task' = [task EXCEPT ![w] = x]
      BY <1>3
    <2> HIDE DEF x
    <2> QED  BY <1>1, <1>3, <2>1, <2>2, GenNoteKeeps DEF Working, Calling
  <1>4. CASE Leave(w) /\ UNCHANGED attempts
    BY <1>1, <1>4, GenLeaveKeeps DEF GenInv, GenerativeTypeOK
  <1> QED  BY <1>2, <1>3, <1>4 DEF CompleteAttempt

------------------------------------------------------------------------------
(* GenerativeRuns: new attempts.                                             *)

LEMMA NewAttemptIs == NewAttempt \in Attempt /\ NewAttempt.status = "pending" /\ ~NewAttempt.unconfirmed
  BY DEF NewAttempt, Attempt, AttemptStatus, Unfinished

\* The slots in "again" get an attempt more while nothing of the run is open.
LEMMA GenGrow ==
    ASSUME GenInv, GenLens', NEW again \in SUBSET Slots,
           attempts' = [s \in Slots |-> IF s \in again THEN Append(attempts[s], NewAttempt)
                                        ELSE attempts[s]],
           genRun.status \in {"none", "failed"}, \A r \in Rows : ~At(r).unconfirmed,
           genRun' \in GenRun, genRun'.status = "pending", genRun'.used = genRun.used,
           retries' \in 0 .. MaxRetries, UNCHANGED <<genQueue, task, calls, genFaults>>
    PROVE  GenInv'
  <1>1. \A s \in Slots : attempts[s] \in Seq(Attempt) /\ Len(attempts[s]) \in Nat
    BY DEF GenInv, GenerativeTypeOK
  <1>2. \A s \in Slots :
          /\ attempts'[s] \in Seq(Attempt)
          /\ \A n \in Numbers(s) : attempts'[s][n] = attempts[s][n]
          /\ s \in again => /\ Len(attempts'[s]) = Len(attempts[s]) + 1
                            /\ attempts'[s][Len(attempts[s]) + 1] = NewAttempt
          /\ s \notin again => attempts'[s] = attempts[s]
    <2> TAKE s \in Slots
    <2>1. CASE s \in again
      <3>1. attempts'[s] = Append(attempts[s], NewAttempt)
        BY <2>1
      <3> HIDE DEF Numbers
      <3>2. /\ Append(attempts[s], NewAttempt) \in Seq(Attempt)
            /\ Len(Append(attempts[s], NewAttempt)) = Len(attempts[s]) + 1
            /\ \A n \in 1 .. Len(attempts[s]) : Append(attempts[s], NewAttempt)[n] = attempts[s][n]
            /\ Append(attempts[s], NewAttempt)[Len(attempts[s]) + 1] = NewAttempt
        BY <1>1, NewAttemptIs, AppendProperties
      <3> QED  BY <2>1, <3>1, <3>2 DEF Numbers
    <2>2. CASE s \notin again
      BY <1>1, <2>2
    <2> QED  BY <2>1, <2>2
  <1>3. GenerativeTypeOK'
    BY <1>2 DEF GenInv, GenerativeTypeOK
  <1>4. \A s \in Slots : \A n \in Numbers(s)' :
          \/ n \in Numbers(s) /\ attempts'[s][n] = attempts[s][n]
          \/ s \in again /\ n = Len(attempts'[s]) /\ n = Len(attempts[s]) + 1 /\ attempts'[s][n] = NewAttempt
    BY <1>1, <1>2 DEF Numbers
  <1>5. \A r \in Rows' : /\ r[1] \in Slots /\ r[2] \in Numbers(r[1])'
                         /\ At(r)' = attempts'[r[1]][r[2]] /\ r = <<r[1], r[2]>>
    <2> SUFFICES ASSUME NEW r \in Rows'
                 PROVE  /\ r[1] \in Slots /\ r[2] \in Numbers(r[1])' /\ r = <<r[1], r[2]>>
      BY DEF At
    <2>1. MaxRetries \in Nat
      BY GenerativeAssumption
    <2>2. r \in Slots \X (1 .. MaxRetries + 1) /\ r[2] <= Len(attempts'[r[1]])
      BY DEF Rows
    <2>3. Len(attempts'[r[1]]) \in Nat
      BY <1>2, <2>2
    <2> QED  BY <2>1, <2>2, <2>3 DEF Numbers
  <1>6. \A r \in Rows' : (r \in Rows /\ At(r)' = At(r)) \/ (At(r)' = NewAttempt /\ r[2] = Len(attempts'[r[1]]))
    <2> TAKE r \in Rows'
    <2>1. CASE r[2] \in Numbers(r[1]) /\ attempts'[r[1]][r[2]] = attempts[r[1]][r[2]]
      BY <1>5, <2>1, RowsAre DEF GenInv, At
    <2>2. CASE r[2] = Len(attempts'[r[1]]) /\ attempts'[r[1]][r[2]] = NewAttempt
      BY <1>5, <2>2
    <2> QED  BY <1>4, <1>5, <2>1, <2>2
  <1>7. \A r \in Rows : r \in Rows' /\ At(r)' = At(r) /\ At(r).status \notin Unfinished
    <2> TAKE r \in Rows
    <2>1. /\ r[1] \in Slots /\ r[2] \in Numbers(r[1])
      BY RowsAre DEF GenInv
    <2>2. At(r)' = At(r)
      BY <1>2, <2>1 DEF At
    <2>3. At(r).status \notin Unfinished
      BY DEF GenInv, GenRows, Unfinished
    <2>4. Len(attempts[r[1]]) <= Len(attempts'[r[1]]) /\ Len(attempts'[r[1]]) \in Nat
      <3>1. CASE r[1] \in again
        BY <1>1, <1>2, <2>1, <3>1
      <3>2. CASE r[1] \notin again
        BY <1>1, <1>2, <2>1, <3>2
      <3> QED  BY <3>1, <3>2
    <2>5. r \in Slots \X (1 .. MaxRetries + 1) /\ r[2] <= Len(attempts[r[1]])
      BY DEF Rows
    <2>6. r[2] <= Len(attempts'[r[1]])
      <3>1. r[2] \in Nat /\ Len(attempts[r[1]]) \in Nat
        BY <1>1, <2>1 DEF Numbers
      <3> QED  BY <2>4, <2>5, <3>1
    <2> QED  BY <2>2, <2>3, <2>5, <2>6 DEF Rows
  <1>8. GenRows'
    <2> SUFFICES ASSUME NEW r \in Rows'
                 PROVE  /\ At(r)'.status \in Unfinished => r[2] = Len(attempts'[r[1]])
                        /\ At(r)'.status # "running" /\ ~At(r)'.unconfirmed
      BY DEF GenRows, Unfinished
    <2>1. CASE r \in Rows /\ At(r)' = At(r)
      BY <1>7, <2>1 DEF Unfinished
    <2>2. CASE At(r)' = NewAttempt /\ r[2] = Len(attempts'[r[1]])
      BY <2>2, NewAttemptIs
    <2> QED  BY <1>6, <2>1, <2>2
  <1>9. GenEnds' /\ GenUsed'
    BY DEF GenInv, GenEnds, GenUsed
  <1>10. \A w \in GenWorkers : TaskFits(w)'
    <2> TAKE w \in GenWorkers
    <2>1. ~OwnsRun(w)' /\ TaskFits(w) /\ task'[w] = task[w]
      BY DEF OwnsRun, GenInv
    <2>2. task[w].step \in Calling => (At(task[w].at).status # "pending")'
      BY <1>7, <2>1 DEF TaskFits, At
    <2>3. Rows \subseteq Rows'
      BY <1>7
    <2> QED  BY <2>1, <2>2, <2>3 DEF TaskFits
  <1>11. StartsApart'
    BY DEF GenInv, StartsApart
  <1>12. CallsFit'
    <2> SUFFICES ASSUME NEW s \in Slots
                 PROVE  calls'[s] + Cardinality(Uncalled(s)') <= Len(attempts'[s])
      BY DEF CallsFit
    <2>1. IsFiniteSet(Uncalled(s))
      BY UncalledFinite DEF GenInv
    <2>2. \A n \in Uncalled(s)' : n \in Uncalled(s) \/ (s \in again /\ n = Len(attempts[s]) + 1)
      <3> TAKE n \in Uncalled(s)'
      <3>1. n \in Numbers(s)'
        BY DEF Uncalled
      <3>2. CASE n \in Numbers(s) /\ attempts'[s][n] = attempts[s][n]
        <4>1. At(<<s, n>>)' = At(<<s, n>>)
          BY <3>2 DEF At
        <4>2. \A w \in GenWorkers : Starts(w, s, n)' => Starts(w, s, n)
          BY DEF Starts
        <4> QED  BY <3>2, <4>1, <4>2 DEF Uncalled
      <3> QED  BY <1>4, <3>1, <3>2
    <2>3. /\ calls[s] \in Nat /\ calls' = calls /\ Cardinality(Uncalled(s)) \in Nat
          /\ calls[s] + Cardinality(Uncalled(s)) <= Len(attempts[s]) /\ Len(attempts[s]) \in Nat
      BY <1>1, <2>1, FS_CardinalityType DEF GenInv, GenerativeTypeOK, CallsFit
    <2>4. CASE s \in again
      <3>1. Uncalled(s)' \subseteq Uncalled(s) \cup {Len(attempts[s]) + 1}
        BY <2>2
      <3>2. /\ IsFiniteSet(Uncalled(s) \cup {Len(attempts[s]) + 1})
            /\ Cardinality(Uncalled(s) \cup {Len(attempts[s]) + 1}) <= Cardinality(Uncalled(s)) + 1
            /\ Cardinality(Uncalled(s) \cup {Len(attempts[s]) + 1}) \in Nat
        <4>1. /\ IsFiniteSet(Uncalled(s) \cup {Len(attempts[s]) + 1})
              /\ \/ Cardinality(Uncalled(s) \cup {Len(attempts[s]) + 1}) = Cardinality(Uncalled(s))
                 \/ Cardinality(Uncalled(s) \cup {Len(attempts[s]) + 1}) = Cardinality(Uncalled(s)) + 1
          BY <2>1, FS_AddElement
        <4> QED  BY <2>3, <4>1
      <3>3. Cardinality(Uncalled(s)') <= Cardinality(Uncalled(s) \cup {Len(attempts[s]) + 1})
            /\ Cardinality(Uncalled(s)') \in Nat
        BY <3>1, <3>2, FS_Subset, FS_CardinalityType
      <3>4. Len(attempts'[s]) = Len(attempts[s]) + 1 /\ calls'[s] = calls[s]
        BY <1>2, <2>3, <2>4
      <3> QED  BY <2>3, <3>2, <3>3, <3>4
    <2>5. CASE s \notin again
      <3>1. Uncalled(s)' \subseteq Uncalled(s)
        BY <2>2, <2>5
      <3>2. Cardinality(Uncalled(s)') <= Cardinality(Uncalled(s)) /\ Cardinality(Uncalled(s)') \in Nat
        BY <2>1, <3>1, FS_Subset, FS_CardinalityType
      <3>3. attempts'[s] = attempts[s] /\ calls'[s] = calls[s]
        BY <1>2, <2>3, <2>5
      <3> QED  BY <2>3, <3>2, <3>3
    <2> QED  BY <2>4, <2>5
  <1> QED  BY <1>3, <1>8, <1>9, <1>10, <1>11, <1>12 DEF GenInv

LEMMA GenSubmitKeeps ==
    ASSUME GenInv, Submit
    PROVE  GenInv'
  <1>1. \A s \in Slots : attempts[s] = <<>> /\ Len(attempts[s]) = 0
    <2> TAKE s \in Slots
    <2>1. attempts[s] \in Seq(Attempt) /\ Len(attempts[s]) = 0
      BY DEF Submit, GenInv, GenerativeTypeOK, GenLens
    <2> QED  BY <2>1, EmptySeq
  <1>2. <<NewAttempt>> = Append(<<>>, NewAttempt) /\ Len(<<NewAttempt>>) = 1
    OBVIOUS
  <1>3. attempts' = [s \in Slots |-> IF s \in Slots THEN Append(attempts[s], NewAttempt)
                                     ELSE attempts[s]]
    BY <1>1, <1>2 DEF Submit
  <1>4. genRun' \in GenRun /\ genRun'.status = "pending" /\ genRun'.used = genRun.used
    BY DEF Submit, GenInv, GenerativeTypeOK, GenRun
  <1>5. retries' \in 0 .. MaxRetries /\ retries' \in Nat
    BY GenerativeAssumption DEF Submit, GenInv, GenerativeTypeOK
  <1>6. \A s \in Slots : Len(attempts'[s]) = 1
    <2>1. \A s \in Slots : attempts'[s] = <<NewAttempt>>
      BY DEF Submit
    <2> QED  BY <1>2, <2>1
  <1>7. GenLens'
    <2>1. 1 <= 1 + retries' /\ 1 # 0
      <3>1. \A n \in Nat : 1 <= 1 + n /\ 1 # 0
        OBVIOUS
      <3> QED  BY <1>5, <3>1
    <2>2. \A s \in Slots : Len(attempts'[s]) <= 1 + retries' /\ Len(attempts'[s]) # 0
      BY <1>6, <2>1
    <2> QED  BY <1>4, <2>2 DEF GenLens
  <1>8. \A r \in Rows : ~At(r).unconfirmed
    BY DEF Submit, GenInv, GenRows
  <1> QED  BY <1>3, <1>4, <1>5, <1>7, <1>8, GenGrow DEF Submit

LEMMA GenRetryKeeps ==
    ASSUME GenInv, RetryFailed
    PROVE  GenInv'
  <1> DEFINE again == {s \in Slots : Latest(s).status \in {"failed", "interrupted"}}
  <1>1. attempts' = [s \in Slots |-> IF s \in again THEN Append(attempts[s], NewAttempt)
                                     ELSE attempts[s]]
    BY DEF RetryFailed
  <1>2. again \in SUBSET Slots
    OBVIOUS
  <1> HIDE DEF again
  <1>3. genRun' \in GenRun /\ genRun'.status = "pending" /\ genRun'.used = genRun.used
    BY DEF RetryFailed, GenInv, GenerativeTypeOK, GenRun
  <1>4. retries \in Nat /\ retries' = retries + 1 /\ retries' \in 0 .. MaxRetries
    BY GenerativeAssumption DEF RetryFailed, GenInv, GenerativeTypeOK
  <1>5. genRun.status = "failed" /\ \A r \in Rows : ~At(r).unconfirmed
    BY DEF RetryFailed, RetryAllowed
  <1>6. GenLens'
    <2> SUFFICES ASSUME NEW s \in Slots
                 PROVE  Len(attempts'[s]) <= 1 + retries' /\ Len(attempts'[s]) # 0
      BY <1>3 DEF GenLens
    <2>1. attempts[s] \in Seq(Attempt) /\ Len(attempts[s]) \in Nat
      BY DEF GenInv, GenerativeTypeOK
    <2>2. Len(attempts[s]) <= 1 + retries /\ Len(attempts[s]) # 0
      BY <1>5 DEF GenInv, GenLens
    <2>3. CASE s \in again
      <3>1. Len(attempts'[s]) = Len(attempts[s]) + 1
        BY <1>1, <2>1, <2>3, NewAttemptIs, AppendProperties
      <3> QED  BY <1>4, <2>1, <2>2, <3>1
    <2>4. CASE s \notin again
      <3>1. attempts'[s] = attempts[s]
        BY <1>1, <2>4
      <3> QED  BY <1>4, <2>1, <2>2, <3>1
    <2> QED  BY <2>3, <2>4
  <1> QED  BY <1>1, <1>2, <1>3, <1>4, <1>5, <1>6, GenGrow DEF RetryFailed

------------------------------------------------------------------------------
(* GenerativeRuns: the theorems.                                             *)

LEMMA GenInit == GenerativeInit => GenInv
  <1> SUFFICES ASSUME GenerativeInit PROVE GenInv
    OBVIOUS
  <1>1. NoTask \in Task /\ NoTask.step = "idle" /\ NoTask.todo = {}
    BY DEF NoTask, Task, Outcomes
  <1>2. GenerativeTypeOK
    BY <1>1, GenerativeAssumption DEF GenerativeInit, GenerativeTypeOK, GenRun
  <1>3. \A s \in Slots : attempts[s] = <<>> /\ Len(attempts[s]) = 0 /\ calls[s] = 0
    BY DEF GenerativeInit
  <1>4. genRun.status = "none" /\ ~genRun.used /\ retries = 0
    BY DEF GenerativeInit
  <1>5. GenLens
    BY <1>3, <1>4 DEF GenLens
  <1>6. Rows = {}
    BY <1>2, <1>3, <1>5, RowsAre DEF Numbers
  <1>7. \A w \in GenWorkers : task[w].step = "idle" /\ task[w].todo = {}
    BY <1>1 DEF GenerativeInit
  <1>8. GenRows /\ GenEnds /\ GenUsed
    BY <1>3, <1>4, <1>6, <1>7 DEF GenRows, GenEnds, GenUsed
  <1>9. (\A w \in GenWorkers : TaskFits(w)) /\ StartsApart
    BY <1>7 DEF TaskFits, StartsApart, Calling, Working
  <1>10. CallsFit
    <2> SUFFICES ASSUME NEW s \in Slots
                 PROVE  calls[s] + Cardinality(Uncalled(s)) <= Len(attempts[s])
      BY DEF CallsFit
    <2>1. Uncalled(s) = {}
      BY <1>3 DEF Uncalled, Numbers
    <2>2. Cardinality(Uncalled(s)) = 0
      BY <2>1, FS_EmptySet
    <2> QED  BY <1>3, <2>2
  <1> QED  BY <1>2, <1>5, <1>8, <1>9, <1>10 DEF GenInv

LEMMA GenNextKeeps == GenInv /\ [GenerativeNext]_genVars => GenInv'
  <1> SUFFICES ASSUME GenInv, [GenerativeNext]_genVars PROVE GenInv'
    OBVIOUS
  <1>1. CASE UNCHANGED genVars
    <2>1. UNCHANGED <<genRun, attempts, genQueue, task, calls, retries, genFaults>>
      BY <1>1 DEF genVars
    <2>2. GenerativeTypeOK'
      BY <2>1 DEF GenInv, GenerativeTypeOK
    <2>3. \A w \in GenWorkers : task'[w] = task[w]
      BY <2>1
    <2> QED  BY <2>1, <2>2, <2>3, GenQuiet
  <1>2. CASE Submit \/ CancelPending \/ RetryFailed \/ InterruptStale
    BY <1>2, GenSubmitKeeps, GenCancelKeeps, GenRetryKeeps, GenInterruptKeeps
  <1>3. CASE DispatchPending \/ TwoMinutesPass \/ ClaimGoesStale \/ \E w \in GenWorkers : Beat(w)
    BY <1>3, GenQueueKeeps
  <1>4. ASSUME NEW w \in GenWorkers, ReceiveTask(w) \/ TaskStep(w) \/ TaskRaises(w) \/ GenWorkerDies(w)
        PROVE  GenInv'
    <2>1. CASE ReceiveTask(w) \/ TaskRaises(w) \/ GenWorkerDies(w)
      BY <2>1, GenReceiveKeeps
    <2>2. CASE ClaimGenerative(w) \/ LoadAttempts(w) \/ ClaimAttempt(w) \/ StartCall(w)
      BY <2>2, GenClaimKeeps, GenLoadKeeps, GenAttemptKeeps, GenStartKeeps
    <2>3. CASE EndCall(w) \/ CompleteAttempt(w) \/ CompleteUnconfirmed(w) \/ FinishGenerative(w)
      BY <2>3, GenEndCallKeeps, GenCompleteKeeps, GenUnconfirmedKeeps, GenFinishKeeps
    <2> QED  BY <1>4, <2>1, <2>2, <2>3 DEF TaskStep
  <1> QED  BY <1>1, <1>2, <1>3, <1>4 DEF GenerativeNext

\* The invariant above holds in every behaviour of generative runs.
THEOREM GenerativeInvariant == GenerativeSpec => []GenInv
  BY GenInit, GenNextKeeps, PTL DEF GenerativeSpec

\* Every state of a generative run is well typed (GenerativeRunRecord,
\* GenerativeAttemptRecord).
THEOREM GenerativeTypeCorrect == GenerativeSpec => []GenerativeTypeOK
  <1>1. GenInv => GenerativeTypeOK
    BY DEF GenInv
  <1> QED  BY <1>1, GenerativeInvariant, PTL

\* However often messages are delivered and workers are lost, a slot is executed
\* at most once for its first attempt and once for each retry the owner asked
\* for (interrupt_stale, claim_run, claim_attempt).
THEOREM NoAutomaticReplayHolds == GenerativeSpec => []NoAutomaticReplay
  <1>1. GenInv => NoAutomaticReplay
    <2> SUFFICES ASSUME GenInv, NEW s \in Slots
                 PROVE  calls[s] <= Len(attempts[s]) /\ Len(attempts[s]) <= 1 + retries
      BY DEF NoAutomaticReplay
    <2>1. Cardinality(Uncalled(s)) \in Nat
      BY UncalledFinite, FS_CardinalityType DEF GenInv
    <2>2. calls[s] \in Nat /\ Len(attempts[s]) \in Nat
      BY DEF GenInv, GenerativeTypeOK
    <2>3. calls[s] + Cardinality(Uncalled(s)) <= Len(attempts[s])
          /\ Len(attempts[s]) <= 1 + retries
      BY DEF GenInv, CallsFit, GenLens
    <2> QED  BY <2>1, <2>2, <2>3
  <1> QED  BY <1>1, GenerativeInvariant, PTL

\* An ended run has no open attempt, a completed one a completed attempt in every
\* slot, and a cancelled one has executed nothing (finish_run, interrupt_stale,
\* complete_attempt, cancel_pending).
THEOREM EndedRunIsSettledHolds == GenerativeSpec => []EndedRunIsSettled
  <1>1. GenInv => EndedRunIsSettled
    <2> SUFFICES ASSUME GenInv, genRun.status \in RunEnded
                 PROVE  /\ RowsIn(Unfinished) = {}
                        /\ genRun.status = "completed" => \A s \in Slots : Latest(s).status = "completed"
                        /\ genRun.status = "cancelled" => \A s \in Slots : calls[s] = 0
      BY DEF EndedRunIsSettled
    <2>1. genRun.status \notin Unfinished
      BY DEF RunEnded, Unfinished
    <2>2. RowsIn(Unfinished) = {}
      BY <2>1 DEF GenInv, GenRows, RowsIn
    <2> QED  BY <2>2 DEF GenInv, GenEnds, GenUsed
  <1> QED  BY <1>1, GenerativeInvariant, PTL

\* A failed run with an unconfirmed attempt is left alone by everybody.
LEMMA FenceHolds ==
    ASSUME GenInv, [GenerativeNext]_genVars, NEW r \in Rows, At(r).unconfirmed
    PROVE  genRun' = genRun /\ attempts' = attempts
  <1>1. genRun.status = "failed" /\ ~RetryAllowed /\ \A w \in GenWorkers : ~OwnsRun(w)
    BY DEF GenInv, GenRows, RetryAllowed, OwnsRun
  <1>2. CASE UNCHANGED genVars
    BY <1>2 DEF genVars
  <1>3. CASE Submit \/ CancelPending \/ RetryFailed \/ InterruptStale
    BY <1>1, <1>3 DEF Submit, CancelPending, Untouched, RetryFailed, InterruptStale
  <1>4. CASE DispatchPending \/ TwoMinutesPass \/ ClaimGoesStale \/ \E w \in GenWorkers : Beat(w)
    BY <1>1, <1>4 DEF DispatchPending, TwoMinutesPass, ClaimGoesStale, Beat
  <1>5. ASSUME NEW w \in GenWorkers, ReceiveTask(w) \/ TaskStep(w) \/ TaskRaises(w) \/ GenWorkerDies(w)
        PROVE  genRun' = genRun /\ attempts' = attempts
    <2>1. CASE ReceiveTask(w) \/ TaskRaises(w) \/ GenWorkerDies(w)
      BY <2>1 DEF ReceiveTask, TaskRaises, GenWorkerDies
    <2>2. CASE ClaimGenerative(w) \/ LoadAttempts(w) \/ ClaimAttempt(w) \/ StartCall(w)
      BY <1>1, <2>2 DEF ClaimGenerative, ClaimablePending, LoadAttempts, ClaimAttempt, MayClaim, StartCall
    <2>3. CASE EndCall(w) \/ CompleteAttempt(w) \/ CompleteUnconfirmed(w) \/ FinishGenerative(w)
      BY <1>1, <2>3 DEF EndCall, CompleteAttempt, CompleteUnconfirmed, OwnsAttempt, FinishGenerative
    <2> QED  BY <1>5, <2>1, <2>2, <2>3 DEF TaskStep
  <1> QED  BY <1>2, <1>3, <1>4, <1>5 DEF GenerativeNext

\* Once a provider's end is unconfirmed neither the run nor an attempt of it ever
\* changes again (complete_attempt, retry_failed, claim_run).
THEOREM UnconfirmedIsFencedHolds == GenerativeSpec => UnconfirmedIsFenced
  <1>1. GenInv /\ [GenerativeNext]_genVars =>
          [\A r \in Rows : At(r).unconfirmed =>
             /\ genRun' = genRun
             /\ attempts' = attempts]_genVars
    BY FenceHolds
  <1> QED  BY <1>1, GenerativeInvariant, PTL DEF GenerativeSpec, UnconfirmedIsFenced
==============================================================================
