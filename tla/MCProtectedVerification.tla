----------------------- MODULE MCProtectedVerification -----------------------
EXTENDS ProtectedVerification, TLC

Symmetry == Permutations(Buses)
=============================================================================
