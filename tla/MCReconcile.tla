---------------------------- MODULE MCReconcile ----------------------------
EXTENDS Reconcile

CONSTANTS m1, u, e
=============================================================================
