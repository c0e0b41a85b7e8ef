-------------------------- MODULE MCAdaptiveDepth --------------------------
(* AdaptiveDepth on a small instance.                                       *)
EXTENDS AdaptiveDepth

(* The production ladder with an out-of-range rung, the pin of             *)
(* run_phase2.sh and a ladder that uses the formula, each in another graph *)
(* mode.  The pin runs as champion_adaptive.sh does, in mode FULL with     *)
(* capture sizes too small for all requests at once.                       *)
DepthSettings ==
  {[depths |-> {2, 4, 9}, cudagraph_mode |-> "FULL_AND_PIECEWISE",
    cudagraph_capture_sizes |-> {8, 12}],
   [depths |-> {2}, cudagraph_mode |-> "FULL", cudagraph_capture_sizes |-> {2, 5}],
   [depths |-> {3, 4}, cudagraph_mode |-> "FULL_DECODE_ONLY",
    cudagraph_capture_sizes |-> {6, 12}]}
=============================================================================
