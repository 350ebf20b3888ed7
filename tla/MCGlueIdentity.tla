------------------------------ MODULE MCGlueIdentity ---------------------------
EXTENDS GlueIdentity, TLC
MCSymmetry == Permutations(User) \cup Permutations(Thread)
=============================================================================
