--------------------------- MODULE MCRagIngestion ---------------------------
(***************************************************************************)
(* The instance of RagIngestion for TLC: two overlapping deliveries.  No   *)
(* symmetry set, since the run checks that the ingestion ends.  Instead    *)
(* the worker that writes the first file has a fixed name: every other     *)
(* behaviour is one of these with the names of the workers exchanged.      *)
(***************************************************************************)
EXTENDS RagIngestion, TLC

CONSTANTS w1, w2

NoFile == \A role \in Roles : file[role] = <<>>

MCNext == Next /\ (NoFile => file' \in {file, [file EXCEPT !["parsed"] = <<w1>>]})

MCSpec == Init /\ [][MCNext]_vars /\ Fairness
=============================================================================
