------------------------------ MODULE MCSender ------------------------------
(***************************************************************************)
(* Instances of Sender for TLC.  The .cfg files give the constants.        *)
(***************************************************************************)
EXTENDS Sender
=============================================================================
