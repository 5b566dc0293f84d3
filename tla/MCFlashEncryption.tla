-------------------------- MODULE MCFlashEncryption --------------------------
EXTENDS FlashEncryption, TLC

Symmetry == Permutations(Blocks)
=============================================================================
