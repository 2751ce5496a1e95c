---------------------------- MODULE MCCloseFlow ----------------------------
EXTENDS CloseFlow, TLC
=============================================================================
