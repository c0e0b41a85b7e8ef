---------------------------- MODULE MCDraftRing ----------------------------
(* Instances of DraftRing: a prompt longer than the window and its slack    *)
(* beside short ones.                                                       *)
EXTENDS DraftRing, TLC

CONSTANTS r1, r2
Prompts == r1 :> 1 @@ r2 :> 6
=============================================================================
