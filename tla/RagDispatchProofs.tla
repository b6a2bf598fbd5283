-------------------------- MODULE RagDispatchProofs --------------------------
(***************************************************************************)
(* Proofs about RagDispatch for any number of jobs, runs and faults and    *)
(* any batch size.  The safety properties say what the row of a job looks  *)
(* like while its current claim is held; what makes them inductive is that *)
(* a claim is held by one run, is no newer than its row, and is counted as *)
(* taken only after the broker has it.                                     *)
(***************************************************************************)
EXTENDS RagDispatch, TLAPS

\* A held claim was made by the row's attempt counter and is not ahead of it.
ClaimsCounted ==
    \A d \in Dispatchers : \A c \in Held(d) : c.attempt <= row[c.job].attempt

\* A claim is in the hands of one run, and there in one place.
ClaimsUnique ==
    /\ \A d, e \in Dispatchers : \A c \in Held(d) : c \in Held(e) => d = e
    /\ \A d \in Dispatchers : \A s \in hand[d] :
        s.claim \notin claims[d] /\ \A t \in hand[d] : s = t

\* A send that returned put its message into the broker.
TakenWasAccepted ==
    \A d \in Dispatchers : \A s \in hand[d] : s.taken => s.claim \in accepted

ClaimInv ==
    /\ ClaimsCounted
    /\ ClaimsUnique
    /\ TakenWasAccepted
    /\ CurrentClaimKept
    /\ SentWasAccepted

Inv == TypeOK /\ ClaimInv

----------------------------------------------------------------------------
(* Types.                                                                    *)

\* What a write of one row's status does to the rows.
LEMMA StatusWrite ==
    ASSUME TypeOK, NEW j \in Jobs, NEW status \in RowStatus, SetStatus(j, status)
    PROVE  /\ row' \in [Jobs -> [status : RowStatus, attempt : Nat]]
           /\ row'[j].status = status
           /\ \A k \in Jobs : /\ row'[k].attempt = row[k].attempt
                              /\ k # j => row'[k] = row[k]
  BY DEF TypeOK, SetStatus

LEMMA LatestType ==
    ASSUME TypeOK, NEW j \in Jobs
    PROVE  Latest(j) \subseteq Jobs \X Jobs
  BY DEF TypeOK, Latest

\* The members of a run's claims and sendings are well formed.
LEMMA HeldType ==
    ASSUME TypeOK, NEW d \in Dispatchers
    PROVE  /\ \A c \in claims[d] : c \in Claim
           /\ \A s \in hand[d] : s \in Sending /\ s.claim \in Claim
           /\ Held(d) \subseteq Claim
  BY DEF TypeOK, Held, Sending

LEMMA InitType == Init => TypeOK
  BY DispatchAssumption DEF Init, TypeOK, JobStatus, RowStatus

\* The rows and claims that claim_ready leaves behind.
LEMMA ClaimType ==
    ASSUME TypeOK, NEW d \in Dispatchers, NEW skipped, ClaimReady(d, skipped)
    PROVE  TypeOK'
  <1>1. PICK batch \in SUBSET (Candidates \ skipped) :
          LET mine == {j \in batch : Admitted(j) /\ job[j] # "succeeded"}
              done == {j \in batch : Admitted(j) /\ job[j] = "succeeded" /\ row[j].status = "pending"}
          IN /\ row' = [j \in Jobs |->
                  IF j \in mine THEN [status |-> "claimed", attempt |-> row[j].attempt + 1]
                  ELSE IF j \in done THEN [row[j] EXCEPT !.status = "cancelled"] ELSE row[j]]
             /\ stale' = stale \ mine
             /\ claims' = [claims EXCEPT ![d] =
                  {[job |-> j, attempt |-> row[j].attempt + 1] : j \in mine}]
    BY DEF ClaimReady
  <1>2. batch \subseteq Jobs
    BY DEF Candidates, TypeOK
  <1>3. row' \in [Jobs -> [status : RowStatus, attempt : Nat]]
    BY <1>1 DEF TypeOK, RowStatus
  <1>4. claims' \in [Dispatchers -> SUBSET Claim]
    <2>1. \A j \in batch : [job |-> j, attempt |-> row[j].attempt + 1] \in Claim
      BY <1>2 DEF TypeOK, Claim
    <2>. QED
      BY <1>1, <2>1 DEF TypeOK
  <1>. QED
    BY <1>1, <1>3, <1>4 DEF TypeOK, ClaimReady

LEMMA SendType ==
    ASSUME TypeOK, NEW d \in Dispatchers, Send(d) \/ SendRaises(d)
    PROVE  TypeOK'
  <1>1. PICK c \in claims[d], taken \in BOOLEAN :
          TakeUp(d, c, taken) /\ (Enqueue(c) \/ UNCHANGED <<queue, accepted>>)
    BY DEF Send, SendRaises
  <1>2. c \in Claim /\ c.job \in Jobs
    BY HeldType DEF Claim
  <1>3. claims' \in [Dispatchers -> SUBSET Claim] /\ hand' \in [Dispatchers -> SUBSET Sending]
    BY <1>1, <1>2 DEF TakeUp, TypeOK, Sending
  <1>4. queue' \in [Jobs -> Nat] /\ accepted' \subseteq Claim
    BY <1>1, <1>2 DEF Enqueue, TypeOK
  <1>5. faults' \in 0 .. MaxFaults
    <2>1. UNCHANGED faults \/ Spend
      BY DEF Send, SendRaises
    <2>. QED
      BY <2>1, DispatchAssumption DEF Spend, TypeOK
  <1>. QED
    BY <1>3, <1>4, <1>5 DEF TypeOK, Send, SendRaises

LEMMA MarkType ==
    ASSUME TypeOK, NEW d \in Dispatchers, Mark(d)
    PROVE  TypeOK'
  <1>1. PICK s \in hand[d] : LET c == s.claim IN
          IF StillMine(c)
          THEN /\ SetStatus(c.job, IF s.taken THEN "sent" ELSE "pending")
               /\ stale' = stale \ {c.job}
               /\ waiting' = IF s.taken THEN waiting ELSE waiting \cup {c.job}
               /\ UNCHANGED claims
          ELSE /\ claims' = [claims EXCEPT ![d] = {}]
               /\ UNCHANGED <<row, stale, waiting>>
    BY DEF Mark
  <1>2. s.claim.job \in Jobs
    BY HeldType DEF Claim
  <1>3. row' \in [Jobs -> [status : RowStatus, attempt : Nat]]
    BY <1>1, <1>2, StatusWrite DEF TypeOK, RowStatus
  <1>. QED
    BY <1>1, <1>2, <1>3 DEF TypeOK, Mark

LEMMA TypeStep == TypeOK /\ [Next]_vars => TypeOK'
  <1>. SUFFICES ASSUME TypeOK, [Next]_vars PROVE TypeOK'
    OBVIOUS
  <1>. USE DispatchAssumption
  <1>1. ASSUME NEW j \in Jobs, Ensure(j) PROVE TypeOK'
    BY <1>1, StatusWrite, LatestType DEF Ensure, TypeOK, RowStatus, JobStatus
  <1>2. ASSUME NEW j \in Jobs, BackoffElapses(j) PROVE TypeOK'
    BY <1>2, LatestType DEF BackoffElapses, TypeOK
  <1>3. ASSUME NEW j \in Jobs, GoStale(j) PROVE TypeOK'
    BY <1>3 DEF GoStale, Spend, TypeOK
  <1>4. ASSUME NEW j \in Jobs, Work(j) PROVE TypeOK'
    BY <1>4 DEF Work, TypeOK, JobStatus
  <1>5. ASSUME NEW j \in Jobs, Deactivate(j) \/ Fence(j) PROVE TypeOK'
    BY <1>5 DEF Deactivate, Fence, TypeOK
  <1>6. ASSUME NEW j \in Jobs, Terminalize(j) \/ CancelCompleted(j) PROVE TypeOK'
    BY <1>6, StatusWrite DEF Terminalize, CancelCompleted, CancelledRow, TypeOK, RowStatus, JobStatus
  <1>7. ASSUME NEW d \in Dispatchers, DispatcherStops(d) PROVE TypeOK'
    BY <1>7 DEF DispatcherStops, Spend, TypeOK
  <1>8. CASE UNCHANGED vars
    BY <1>8 DEF vars, TypeOK
  <1>. QED
    BY <1>1, <1>2, <1>3, <1>4, <1>5, <1>6, <1>7, <1>8, ClaimType, SendType, MarkType
    DEF Next, DispatcherStep

----------------------------------------------------------------------------
(* Claims.                                                                   *)

\* Steps that touch neither rows nor claims.
LEMMA OtherSteps ==
    ASSUME ClaimInv, UNCHANGED <<row, claims, hand, accepted>>
    PROVE  ClaimInv'
  BY DEF ClaimInv, ClaimsCounted, ClaimsUnique, TakenWasAccepted, CurrentClaimKept, SentWasAccepted,
         Held, Holds

\* A status write that keeps every held claim's row claimed or cancelled.
LEMMA StatusSteps ==
    ASSUME TypeOK, ClaimInv, NEW j \in Jobs, NEW status \in RowStatus, SetStatus(j, status),
           status = "cancelled" \/ (status = "pending" /\ row[j].status = "none"),
           UNCHANGED <<claims, hand, accepted>>
    PROVE  ClaimInv'
  <1>1. \A d \in Dispatchers : Held(d)' = Held(d) /\ Held(d) \subseteq Claim
    BY HeldType DEF Held
  <1>2. /\ row'[j].status = status
        /\ \A k \in Jobs : row'[k].attempt = row[k].attempt /\ (k # j => row'[k] = row[k])
    BY StatusWrite
  <1>3. ClaimsCounted'
    BY <1>1, <1>2 DEF ClaimInv, ClaimsCounted, Claim
  <1>4. ClaimsUnique' /\ TakenWasAccepted'
    BY <1>1 DEF ClaimInv, ClaimsUnique, TakenWasAccepted
  <1>5. CurrentClaimKept'
    BY <1>1, <1>2 DEF ClaimInv, CurrentClaimKept, Holds
  <1>6. SentWasAccepted'
    BY <1>2 DEF ClaimInv, SentWasAccepted
  <1>. QED
    BY <1>3, <1>4, <1>5, <1>6 DEF ClaimInv

\* A run that stops only drops claims.
LEMMA StopSteps ==
    ASSUME TypeOK, ClaimInv, NEW d \in Dispatchers, DispatcherStops(d)
    PROVE  ClaimInv'
  <1>1. \A e \in Dispatchers : Held(e)' \subseteq Held(e) /\ hand'[e] \subseteq hand[e]
                               /\ claims'[e] \subseteq claims[e]
    BY DEF DispatcherStops, Held, TypeOK
  <1>. QED
    BY <1>1 DEF DispatcherStops, ClaimInv, ClaimsCounted, ClaimsUnique, TakenWasAccepted,
        CurrentClaimKept, SentWasAccepted, Holds

\* Sending moves a claim from the run's list into its hand.
LEMMA SendSteps ==
    ASSUME TypeOK, ClaimInv, NEW d \in Dispatchers, Send(d) \/ SendRaises(d)
    PROVE  ClaimInv'
  <1>1. PICK c \in claims[d], taken \in BOOLEAN :
          /\ TakeUp(d, c, taken)
          /\ Enqueue(c) \/ (~taken /\ UNCHANGED <<queue, accepted>>)
    BY DEF Send, SendRaises
  <1>2. hand[d] = {} /\ UNCHANGED row
    BY DEF Send, SendRaises
  <1>3. /\ claims'[d] = claims[d] \ {c}
        /\ hand'[d] = {[claim |-> c, taken |-> taken]}
        /\ \A e \in Dispatchers \ {d} : claims'[e] = claims[e] /\ hand'[e] = hand[e]
    BY <1>1 DEF TakeUp, TypeOK
  <1>4. \A e \in Dispatchers : Held(e)' = Held(e)
    <2>1. Held(d)' = Held(d)
      BY <1>2, <1>3 DEF Held
    <2>. QED
      BY <2>1, <1>3 DEF Held
  <1>5. accepted \subseteq accepted' /\ (taken => c \in accepted')
    BY <1>1 DEF Enqueue
  <1>6. ClaimsCounted' /\ CurrentClaimKept' /\ SentWasAccepted'
    BY <1>2, <1>4, <1>5 DEF ClaimInv, ClaimsCounted, CurrentClaimKept, SentWasAccepted, Holds
  <1>7. ClaimsUnique'
    BY <1>3, <1>4 DEF ClaimInv, ClaimsUnique
  <1>8. TakenWasAccepted'
    BY <1>3, <1>5 DEF ClaimInv, TakenWasAccepted
  <1>. QED
    BY <1>6, <1>7, <1>8 DEF ClaimInv

\* The compare-and-set settles a claim that nobody else holds, or drops the run's claims.
LEMMA MarkSteps ==
    ASSUME TypeOK, ClaimInv, NEW d \in Dispatchers, Mark(d)
    PROVE  ClaimInv'
  <1>1. PICK s \in hand[d] : LET c == s.claim IN
          IF StillMine(c)
          THEN /\ SetStatus(c.job, IF s.taken THEN "sent" ELSE "pending")
               /\ UNCHANGED claims
          ELSE /\ claims' = [claims EXCEPT ![d] = {}]
               /\ UNCHANGED row
    BY DEF Mark
  <1>2. hand' = [hand EXCEPT ![d] = {}] /\ UNCHANGED accepted
    BY DEF Mark
  <1>3. s.claim \in Claim /\ s.claim.job \in Jobs /\ s \in Sending
    BY HeldType DEF Claim
  <1>4. \A e \in Dispatchers : /\ Held(e)' \subseteq Held(e) /\ Held(e) \subseteq Claim
                               /\ hand'[e] \subseteq hand[e]
                               /\ claims'[e] \subseteq claims[e]
    BY <1>1, <1>2, HeldType DEF Held, TypeOK
  <1>5. ClaimsUnique' /\ TakenWasAccepted'
    BY <1>2, <1>4 DEF ClaimInv, ClaimsUnique, TakenWasAccepted
  <1>6. CASE ~StillMine(s.claim)
    BY <1>1, <1>2, <1>4, <1>5, <1>6
    DEF ClaimInv, ClaimsCounted, CurrentClaimKept, SentWasAccepted, Holds
  <1>7. CASE StillMine(s.claim)
    <2>. DEFINE c == s.claim
                status == IF s.taken THEN "sent" ELSE "pending"
    <2>1. /\ row'[c.job].status = status
          /\ \A k \in Jobs : row'[k].attempt = row[k].attempt /\ (k # c.job => row'[k] = row[k])
      BY <1>1, <1>3, <1>7, StatusWrite DEF RowStatus
    <2>2. c = [job |-> c.job, attempt |-> row[c.job].attempt]
      BY <1>3, <1>7 DEF StillMine, Claim
    <2>3. ClaimsCounted'
      BY <1>4, <2>1 DEF ClaimInv, ClaimsCounted, Claim
    <2>4. \A e \in Dispatchers : c \notin Held(e)'
      <3>1. c \in Held(d) /\ c \notin claims[d]
        BY DEF Held, ClaimInv, ClaimsUnique
      <3>2. Held(d)' \subseteq claims[d]
        BY <1>2, <1>4 DEF Held, TypeOK
      <3>. QED
        BY <1>4, <3>1, <3>2 DEF ClaimInv, ClaimsUnique
    <2>5. CurrentClaimKept'
      BY <1>4, <2>1, <2>2, <2>4 DEF ClaimInv, CurrentClaimKept, Holds
    <2>6. SentWasAccepted'
      BY <1>2, <2>1, <2>2 DEF ClaimInv, SentWasAccepted, TakenWasAccepted
    <2>. QED
      BY <1>5, <2>3, <2>5, <2>6 DEF ClaimInv
  <1>. QED
    BY <1>6, <1>7

\* A new claim is ahead of every claim held so far.
LEMMA ClaimSteps ==
    ASSUME TypeOK, ClaimInv, NEW d \in Dispatchers, NEW skipped, ClaimReady(d, skipped)
    PROVE  ClaimInv'
  <1>1. PICK batch \in SUBSET (Candidates \ skipped) :
          LET mine == {j \in batch : Admitted(j) /\ job[j] # "succeeded"}
              done == {j \in batch : Admitted(j) /\ job[j] = "succeeded" /\ row[j].status = "pending"}
          IN /\ row' = [j \in Jobs |->
                  IF j \in mine THEN [status |-> "claimed", attempt |-> row[j].attempt + 1]
                  ELSE IF j \in done THEN [row[j] EXCEPT !.status = "cancelled"] ELSE row[j]]
             /\ claims' = [claims EXCEPT ![d] =
                  {[job |-> j, attempt |-> row[j].attempt + 1] : j \in mine}]
    BY DEF ClaimReady
  <1>. DEFINE mine == {j \in batch : Admitted(j) /\ job[j] # "succeeded"}
              done == {j \in batch : Admitted(j) /\ job[j] = "succeeded" /\ row[j].status = "pending"}
              new == {[job |-> j, attempt |-> row[j].attempt + 1] : j \in mine}
  <1>2. mine \subseteq Jobs /\ done \subseteq Jobs /\ mine \cap done = {}
    BY DEF Candidates, TypeOK
  <1>3. /\ \A j \in mine : row'[j].status = "claimed" /\ row'[j].attempt = row[j].attempt + 1
        /\ \A j \in done : row'[j].status = "cancelled" /\ row'[j].attempt = row[j].attempt
        /\ \A j \in Jobs \ (mine \cup done) : row'[j] = row[j]
    BY <1>1, <1>2 DEF TypeOK
  <1>4. hand' = hand /\ hand[d] = {} /\ claims[d] = {} /\ accepted' = accepted
    BY DEF ClaimReady
  <1>5. claims'[d] = new /\ \A e \in Dispatchers \ {d} : claims'[e] = claims[e]
    BY <1>1 DEF TypeOK
  <1>6. Held(d)' = new /\ \A e \in Dispatchers \ {d} : Held(e)' = Held(e)
    BY <1>4, <1>5 DEF Held
  <1>7. \A e \in Dispatchers : \A c \in Held(e) :
          c \in Claim /\ c.attempt <= row[c.job].attempt /\ c.job \in Jobs /\ c.attempt \in Nat
    BY HeldType DEF ClaimInv, ClaimsCounted, Claim
  <1>8. \A j \in Jobs : row[j].attempt \in Nat /\ row'[j].attempt \in Nat
                        /\ row[j].attempt <= row'[j].attempt
    BY <1>2, <1>3 DEF TypeOK
  <1>9. \A c \in new : c.job \in mine /\ c.attempt = row[c.job].attempt + 1
    OBVIOUS
  <1>10. \A e \in Dispatchers : \A c \in new : c \notin Held(e)
    BY <1>2, <1>7, <1>8, <1>9
  <1>11. ClaimsCounted'
    <2>1. \A c \in new : c.attempt <= row'[c.job].attempt
      BY <1>2, <1>3, <1>8, <1>9
    <2>2. \A e \in Dispatchers \ {d} : \A c \in Held(e) : c.attempt <= row'[c.job].attempt
      BY <1>7, <1>8
    <2>. QED
      BY <1>6, <2>1, <2>2 DEF ClaimsCounted
  <1>12. ClaimsUnique'
    <2>1. \A e, f \in Dispatchers : \A c \in Held(e)' : c \in Held(f)' => e = f
      BY <1>6, <1>10 DEF ClaimInv, ClaimsUnique
    <2>2. \A e \in Dispatchers : \A s \in hand'[e] :
            s.claim \notin claims'[e] /\ \A t \in hand'[e] : s = t
      BY <1>4, <1>5 DEF ClaimInv, ClaimsUnique
    <2>. QED
      BY <2>1, <2>2 DEF ClaimsUnique
  <1>13. TakenWasAccepted'
    BY <1>4 DEF ClaimInv, TakenWasAccepted
  <1>14. CurrentClaimKept'
    <2>. SUFFICES ASSUME NEW e \in Dispatchers, NEW j \in Jobs, Holds(e, j)'
                  PROVE  row'[j].status \in {"claimed", "cancelled"}
      BY DEF CurrentClaimKept
    <2>1. CASE j \in mine \cup done
      BY <1>3, <2>1
    <2>2. CASE j \notin mine \cup done
      <3>1. row'[j] = row[j]
        BY <1>3, <2>2
      <3>2. [job |-> j, attempt |-> row[j].attempt] \notin new
        BY <1>9, <2>2
      <3>3. Holds(e, j)
        BY <1>6, <3>1, <3>2 DEF Holds
      <3>. QED
        BY <3>1, <3>3 DEF ClaimInv, CurrentClaimKept
    <2>. QED
      BY <2>1, <2>2
  <1>15. SentWasAccepted'
    BY <1>3, <1>4 DEF ClaimInv, SentWasAccepted
  <1>. QED
    BY <1>11, <1>12, <1>13, <1>14, <1>15 DEF ClaimInv

----------------------------------------------------------------------------
(* Theorems.                                                                 *)

LEMMA InvInit == Init => Inv
  <1>. SUFFICES ASSUME Init PROVE Inv
    OBVIOUS
  <1>1. \A d \in Dispatchers : Held(d) = {} /\ hand[d] = {}
    BY DEF Init, Held
  <1>2. \A j \in Jobs : row[j].status = "none"
    BY DEF Init
  <1>. QED
    BY <1>1, <1>2, InitType DEF Inv, ClaimInv, ClaimsCounted, ClaimsUnique, TakenWasAccepted,
        CurrentClaimKept, SentWasAccepted, Holds

LEMMA InvStep == Inv /\ [Next]_vars => Inv'
  <1>. SUFFICES ASSUME TypeOK, ClaimInv, [Next]_vars PROVE ClaimInv'
    BY TypeStep DEF Inv
  <1>1. ASSUME NEW j \in Jobs, Ensure(j) PROVE ClaimInv'
    BY <1>1, StatusSteps DEF Ensure, RowStatus
  <1>2. ASSUME NEW j \in Jobs, Terminalize(j) \/ CancelCompleted(j) PROVE ClaimInv'
    BY <1>2, StatusSteps, OtherSteps DEF Terminalize, CancelCompleted, CancelledRow, RowStatus
  <1>3. ASSUME NEW j \in Jobs,
               BackoffElapses(j) \/ GoStale(j) \/ Work(j) \/ Deactivate(j) \/ Fence(j)
        PROVE  ClaimInv'
    BY <1>3, OtherSteps DEF BackoffElapses, GoStale, Work, Deactivate, Fence
  <1>4. CASE UNCHANGED vars
    BY <1>4, OtherSteps DEF vars
  <1>. QED
    BY <1>1, <1>2, <1>3, <1>4, StopSteps, SendSteps, MarkSteps, ClaimSteps
    DEF Next, DispatcherStep

\* Every reachable state satisfies the inductive invariant.
THEOREM Invariance == Spec => []Inv
  BY InvInit, InvStep, PTL DEF Spec

\* Rows, claims, sendings and counters keep their types.
THEOREM TypeCorrect == Spec => []TypeOK
  <1>1. Inv => TypeOK
    BY DEF Inv
  <1>. QED
    BY <1>1, Invariance, PTL

\* However many runs of RagDispatchReconciler overlap, the row of a claim that is held and
\* current stays claimed until its holder settles it or the source becomes inactive.
THEOREM ClaimsAreKept == Spec => []CurrentClaimKept
  <1>1. Inv => CurrentClaimKept
    BY DEF Inv, ClaimInv
  <1>. QED
    BY <1>1, Invariance, PTL

\* mark_sent never records a delivery that the broker did not take for the row's claim.
THEOREM SentIsTrue == Spec => []SentWasAccepted
  <1>1. Inv => SentWasAccepted
    BY DEF Inv, ClaimInv
  <1>. QED
    BY <1>1, Invariance, PTL

\* No run revives a cancelled row or sends a sent one again.
THEOREM RowsStayEnded == Spec => RowsEnd
  <1>1. TypeOK /\ [Next]_vars => [RowEnds]_vars
    <2>. SUFFICES ASSUME TypeOK, [Next]_vars PROVE RowEnds \/ UNCHANGED vars
      OBVIOUS
    <2>1. ASSUME NEW j \in Jobs, Ensure(j) \/ Terminalize(j) \/ CancelCompleted(j) PROVE RowEnds
      BY <2>1 DEF Ensure, Terminalize, CancelCompleted, CancelledRow, SetStatus, RowEnds, TypeOK
    <2>2. ASSUME NEW d \in Dispatchers, Mark(d) PROVE RowEnds
      <3>1. PICK s \in hand[d] :
              \/ /\ StillMine(s.claim)
                 /\ SetStatus(s.claim.job, IF s.taken THEN "sent" ELSE "pending")
              \/ UNCHANGED row
        BY <2>2 DEF Mark
      <3>2. s.claim.job \in Jobs
        BY HeldType DEF Claim
      <3>. QED
        BY <3>1, <3>2, StatusWrite DEF StillMine, RowEnds, RowStatus
    <2>3. ASSUME NEW d \in Dispatchers, NEW skipped, ClaimReady(d, skipped) PROVE RowEnds
      BY <2>3 DEF ClaimReady, Candidates, RowEnds, TypeOK
    <2>4. ASSUME UNCHANGED row PROVE RowEnds
      BY <2>4 DEF RowEnds
    <2>. QED
      BY <2>1, <2>2, <2>3, <2>4 DEF Next, DispatcherStep, BackoffElapses, GoStale, Work,
        Deactivate, Fence, Send, SendRaises, DispatcherStops
  <1>. QED
    BY <1>1, TypeCorrect, PTL DEF Spec, RowsEnd
==============================================================================
