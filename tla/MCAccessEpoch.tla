---------------------------- MODULE MCAccessEpoch ----------------------------
(* The alias journal, its command line, the cutover and the role keys, on a small instance. *)
EXTENDS AccessEpoch, TLC

CONSTANT writer

MCRoles == <<writer>>

Interchangeable == Permutations(Ops) \cup Permutations(Requests) \cup Permutations(Controllers)
==============================================================================
