----------------------- MODULE MCResidentCredentials -----------------------
(* ResidentCredentials for TLC. *)
EXTENDS ResidentCredentials, TLC

Symmetry == Permutations(Users) \cup Permutations(Creds)

=============================================================================
