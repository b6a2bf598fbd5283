--------------------------- MODULE MCRagDispatch ---------------------------
(***************************************************************************)
(* Instances of RagDispatch for TLC.  Two rows and two runs are enough for *)
(* one row to be passed over or to wait behind the other in a batch of one *)
(* place, and for one run to take over a claim that the other still        *)
(* carries.                                                                *)
(***************************************************************************)
EXTENDS RagDispatch
============================================================================
