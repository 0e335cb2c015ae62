----------------------------- MODULE MCPipeline -----------------------------
(***************************************************************************)
(* Instances of Pipeline for TLC.  The .cfg files give the constants.      *)
(***************************************************************************)
EXTENDS Pipeline, TLC

\* The requests are interchangeable (safety runs only).
Symmetry == Permutations(Requests)
=============================================================================
