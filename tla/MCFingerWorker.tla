--------------------------- MODULE MCFingerWorker ---------------------------
EXTENDS FingerWorker, TLC
CONSTANTS c1, c2
Symmetry == Permutations(Callers)
=============================================================================
