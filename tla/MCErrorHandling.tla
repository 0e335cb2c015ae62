--------------------------- MODULE MCErrorHandling ---------------------------
(***************************************************************************)
(* Instances of ErrorHandling for TLC.  The .cfg files give the constants. *)
(***************************************************************************)
EXTENDS ErrorHandling
=============================================================================
