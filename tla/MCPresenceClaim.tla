--------------------------- MODULE MCPresenceClaim ---------------------------
EXTENDS PresenceClaim, TLC

Symmetry == Permutations(Instances)

=============================================================================
