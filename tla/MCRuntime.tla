----------------------------- MODULE MCRuntime -----------------------------
(***************************************************************************)
(* Runtime with two channels that can be handed out and broadcast, and     *)
(* messages of one or two packets.                                         *)
(***************************************************************************)
EXTENDS Runtime
=============================================================================
