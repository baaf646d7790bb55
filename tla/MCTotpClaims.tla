---------------------------- MODULE MCTotpClaims ----------------------------
EXTENDS TotpClaims, TLC

CounterSet == 0..2
CodeSet == {0, 1, 9}

\* Counters 0 and 2 have the same code, as two six-digit codes may; 9 is a wrong code.
CodeOfCounter == [c \in CounterSet |-> IF c = 2 THEN 0 ELSE c]

Symmetry == Permutations(Attempts)

=============================================================================
