------------------------ MODULE MCAssetVerification ------------------------
(***************************************************************************)
(* Instances of AssetVerification for TLC.                                 *)
(***************************************************************************)
EXTENDS AssetVerification, TLC

\* Workers are interchangeable, and so are dispatcher runs.
ProcessSymmetry == Permutations(Workers) \cup Permutations(Dispatchers)
============================================================================
