------------------------- MODULE MCCommandDelivery -------------------------
EXTENDS CommandDelivery, TLC

\* The pairs are interchangeable in the safety runs.
Symmetry == Permutations(Intents)
=============================================================================
