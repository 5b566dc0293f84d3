----------------------------- MODULE MCCtapHid -----------------------------
(***************************************************************************)
(* CtapHid with small constants.  Four channel identifiers: the reserved   *)
(* one, two that can be handed out, and broadcast.                         *)
(***************************************************************************)
EXTENDS CtapHid
=============================================================================
