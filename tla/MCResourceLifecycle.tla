------------------------- MODULE MCResourceLifecycle -------------------------
EXTENDS ResourceLifecycle, TLC

\* A value of the key column may stand in the other column too: nothing but
\* equality within a column matters.
Symmetry == Permutations(Request) \cup Permutations(Resource) \cup Permutations(Value)

=============================================================================
