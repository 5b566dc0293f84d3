-------------------------- MODULE MCSignedUpdate ---------------------------
(***************************************************************************)
(* Two signed images of secure versions 0 and 2 and an unsigned one that   *)
(* claims version 2; two blocks per image.                                 *)
(***************************************************************************)
EXTENDS UpdateRefinement, TLC

CONSTANTS old, new, rogue

MCImages == {old, new, rogue}
MCSigned == {old, new}
MCSecureVersion == (old :> 0) @@ (new :> 2) @@ (rogue :> 2)
=============================================================================
