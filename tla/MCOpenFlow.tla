----------------------------- MODULE MCOpenFlow -----------------------------
EXTENDS OpenFlow, TLC

CONSTANTS m1, m2, m3, u, e

\* The Master's positions are interchangeable.
MCSymmetry == Permutations(Masters)
=============================================================================
