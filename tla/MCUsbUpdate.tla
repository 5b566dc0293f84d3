---------------------------- MODULE MCUsbUpdate ----------------------------
(***************************************************************************)
(* A signed current image, a signed older one, and an unsigned one.        *)
(***************************************************************************)
EXTENDS UsbUpdate, TLC

CONSTANTS old, new, rogue

MCImages == {old, new, rogue}
MCSigned == {old, new}
MCSecureVersion == (old :> 0) @@ (new :> 1) @@ (rogue :> 1)
=============================================================================
