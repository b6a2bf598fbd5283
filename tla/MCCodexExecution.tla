-------------------------- MODULE MCCodexExecution --------------------------
(***************************************************************************)
(* The instance of CodexExecution and EvidenceApprovals for TLC.  Two      *)
(* calls share a runner with one slot; the second configuration has two.   *)
(* One call sends a revision, the other, a contextualization, sends none.  *)
(* Two actors with two request_id values each and two reviews let every    *)
(* request_id be used again for something else.                            *)
(*                                                                         *)
(* A behaviour is about one of the two: calls only see the grant of a      *)
(* revision, not by whose request it was made or on which review.          *)
(***************************************************************************)
EXTENDS CodexExecution, TLC

CONSTANTS c1, c2, r1, k1, k2, a1, a2, q1, q2, v1, v2, public, synthetic

MCEvidence == c1 :> {r1} @@ c2 :> {}
MCMaxConcurrent == k1 :> 1 @@ k2 :> 2

\* No call has begun and nothing that calls depend on besides the grants has changed.
NoCalls ==
    /\ \A c \in Calls : pc[c] = "idle" /\ approval[c] = "none"
    /\ config = FirstConfig /\ standing /\ active = Revisions /\ faults = 0
    /\ cancelled = {}

\* Without reviews, each generation has a request of its own, always the same one.
RequestOf == <<<<a1, q1>>, <<a1, q2>>, <<a2, q1>>>>
PlainHistory ==
    /\ \A v \in Reviews : review[v].status = "none"
    /\ \A e \in events : /\ <<e.actor, e.request>> = RequestOf[e.generation]
                         /\ e.digest.class # synthetic

\* v1 is the review that is created first.
ReviewsInOrder == review[v1].status = "none" => review[v2].status = "none"

MCNext ==
    \/ NoCalls /\ (\E r \in Revisions : ReviewEvidence(r)) /\ ReviewsInOrder'
    \/ PlainHistory /\ Next /\ PlainHistory'

MCSpec == Init /\ [][MCNext]_vars /\ \A c \in Calls : WF_vars(Progress(c))
=============================================================================
