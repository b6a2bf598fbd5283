--------------------------- MODULE PublishedStudy ---------------------------
(***************************************************************************)
(* What publishing promises about each study, without requests, rows or    *)
(* stores: decisions to publish a revision or to withdraw the study are    *)
(* numbered in the order in which they are taken, the public view shows    *)
(* one of them and never goes back to an earlier one, and a decision is    *)
(* confirmed to the owner only after the public view has reached it.       *)
(* A decision may be skipped, when a later one overtakes it.               *)
(***************************************************************************)
EXTENDS Naturals

CONSTANT Slugs

VARIABLES
    decided,    \* decided[s]: the decisions taken for a study
    shown,      \* shown[s]: the decision that the public sees, none at first
    confirmed   \* confirmed[s]: the last one that the owner was told of

vars == <<decided, shown, confirmed>>

\* A withdrawal is of no revision.
Decision == [sequence : Nat \ {0}, action : {"publish", "withdraw"}, revision : Nat]

Init ==
    /\ decided = [s \in Slugs |-> {}]
    /\ shown = [s \in Slugs |-> {}]
    /\ confirmed = [s \in Slugs |-> {}]

\* d is later than every decision of the set
After(d, decisions) == \A e \in decisions : e.sequence < d.sequence

Decide(s) ==
    \E d \in decided'[s] :
        /\ d \in Decision
        /\ After(d, decided[s])
        /\ decided' = [decided EXCEPT ![s] = @ \cup {d}]
        /\ UNCHANGED <<shown, confirmed>>

Show(s) ==
    \E d \in decided[s] :
        /\ After(d, shown[s])
        /\ shown' = [shown EXCEPT ![s] = {d}]
        /\ UNCHANGED <<decided, confirmed>>

Confirm(s) ==
    \E d \in decided[s] :
        /\ After(d, confirmed[s])
        /\ \E e \in shown[s] : d.sequence <= e.sequence
        /\ confirmed' = [confirmed EXCEPT ![s] = {d}]
        /\ UNCHANGED <<decided, shown>>

Next == \E s \in Slugs : Decide(s) \/ Show(s) \/ Confirm(s)

Spec == Init /\ [][Next]_vars
============================================================================
