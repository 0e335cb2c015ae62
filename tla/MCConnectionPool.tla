-------------------------- MODULE MCConnectionPool --------------------------
(***************************************************************************)
(* Instances of ConnectionPool for TLC.  The .cfg files give the constants.*)
(***************************************************************************)
EXTENDS ConnectionPool
=============================================================================
