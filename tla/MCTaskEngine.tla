---------------------------- MODULE MCTaskEngine ----------------------------
(***************************************************************************)
(* TaskEngine for TLC.                                                     *)
(***************************************************************************)
EXTENDS TaskEngine
=============================================================================
