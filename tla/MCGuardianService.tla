------------------------- MODULE MCGuardianService -------------------------
EXTENDS GuardianService, TLC

CONSTANTS t1, t2, r1, r2, w1, w2, w3, once, often

Symmetry == Permutations(Identities) \cup Permutations(RequestIds)
=============================================================================
