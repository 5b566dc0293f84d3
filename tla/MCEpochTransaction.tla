------------------------- MODULE MCEpochTransaction -------------------------
(***************************************************************************)
(* A counter of four bits of which the second is set; the plan raises it   *)
(* to three, so that a burn of two bits can stop halfway and a burn of all *)
(* free bits would be too much.                                            *)
(***************************************************************************)
EXTENDS EpochTransaction, TLC

CONSTANTS maint, normal, low, junk, wr_dis, secure

MCOtherBits == {wr_dis, secure}
MCProtections == {secure}
MCExpected == {1, secure}
MCResidues == {{}, {0, wr_dis}}
MCImages == {maint, normal, low, junk}
MCSigned == {maint, normal, low}
MCSecureVersion == (maint :> 3) @@ (normal :> 3) @@ (low :> 2) @@ (junk :> 3)
=============================================================================
