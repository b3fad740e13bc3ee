------------------------- MODULE MCFallbackPlayback -------------------------
(***************************************************************************)
(* Model checking of FallbackPlayback, and its refinement of SidChannel.   *)
(***************************************************************************)
EXTENDS FallbackPlayback
=============================================================================
