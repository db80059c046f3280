---------------------------- MODULE MCTokenMinting ----------------------------
EXTENDS TokenMinting

CONSTANTS c1, c2
=============================================================================
