----------------------------- MODULE MCKeyPool -----------------------------
EXTENDS KeyPool, TLC

\* A date, more than the ceiling, and nothing at all.
MCHeaders == {[date |-> TRUE, value |-> 2], [date |-> FALSE, value |-> 9],
              [date |-> FALSE, value |-> 0]}

Symmetry == Permutations(Calls)
=============================================================================
