--------------------------- MODULE MCLaunchWrapper ---------------------------
(* LaunchWrapper with named recovery actors.                                *)
EXTENDS LaunchWrapper

CONSTANTS b1, b2
=============================================================================
