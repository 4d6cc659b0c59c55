--------------------------- MODULE MCStreamRelay ---------------------------
(***************************************************************************)
(* StreamRelay for TLC.  Every answer of up to MaxChunks chunks, with      *)
(* usage on any subset of them, is an initial state.                       *)
(***************************************************************************)
EXTENDS StreamRelay
=============================================================================
