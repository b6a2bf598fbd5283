---------------------------- MODULE MCRagHandoff ----------------------------
(***************************************************************************)
(* Instances of RagHandoff for TLC.  MCSpec has two overlapping runs of    *)
(* the beat task; whatever can go wrong with a source goes wrong with the  *)
(* older version, which comes first in every batch, and the newer one is   *)
(* the healthy hand-over behind it.  The other instance has one run and    *)
(* two sources that may be superseded.                                     *)
(***************************************************************************)
EXTENDS RagHandoff

Healthy == Versions \ (Broken \cup Fenceable)

MCSpec == Init /\ [][Next /\ Healthy \subseteq current']_vars /\ Fairness
=============================================================================
