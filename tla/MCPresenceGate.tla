--------------------------- MODULE MCPresenceGate ---------------------------
(***************************************************************************)
(* PresenceGate with a clock just long enough for a long hold: a release,  *)
(* a hold of two units and a release end one unit before the deadline.     *)
(***************************************************************************)
EXTENDS PresenceGate
=============================================================================
