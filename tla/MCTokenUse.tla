------------------------------ MODULE MCTokenUse ------------------------------
EXTENDS TokenUse, TLC

CONSTANTS alice, bob, carol, t1, t2, photo

=============================================================================
