--------------------------- MODULE MCAttemptLimit ---------------------------
EXTENDS AttemptLimit, TLC

Symmetry == Permutations(Attempts)

=============================================================================
