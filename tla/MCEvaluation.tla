---------------------------- MODULE MCEvaluation ----------------------------
(***************************************************************************)
(* The instance of EvaluationRuns and GenerativeRuns for TLC.  The two     *)
(* kinds of runs have no row in common, so that a behaviour is about one   *)
(* run, of either kind: the first request decides.                         *)
(***************************************************************************)
EXTENDS EvaluationRuns, GenerativeRuns

Init == EvaluationInit /\ GenerativeInit

Next ==
    \/ genRun.status = "none" /\ EvaluationNext /\ UNCHANGED genVars
    \/ run.status = "none" /\ GenerativeNext /\ UNCHANGED evalVars

Spec == Init /\ [][Next]_<<evalVars, genVars>> /\ EvaluationFairness /\ GenerativeFairness
=============================================================================
