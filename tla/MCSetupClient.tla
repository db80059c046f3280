---------------------------- MODULE MCSetupClient ----------------------------
EXTENDS SetupClient
=============================================================================
