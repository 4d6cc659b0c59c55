---------------------------- MODULE MCModelRouter ----------------------------
(***************************************************************************)
(* ModelRouter for TLC.                                                    *)
(***************************************************************************)
EXTENDS ModelRouter
=============================================================================
