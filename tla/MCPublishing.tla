---------------------------- MODULE MCPublishing ----------------------------
(***************************************************************************)
(* The instance of Publishing for TLC.  Two studies and two calls are      *)
(* enough for two requests to race for a slug or for a request_id and for  *)
(* a delivery to be overtaken by a later command; two request ids give one *)
(* study two commands, or each study one.                                  *)
(***************************************************************************)
EXTENDS Publishing, TLC

Symmetry ==
    Permutations(Calls) \cup Permutations(Slugs) \cup Permutations(RequestIds)
    \cup Permutations(Contents)
============================================================================
