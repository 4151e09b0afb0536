--------------------------- MODULE MCScriptPinning ---------------------------
EXTENDS ScriptPinning, TLC

CONSTANTS c1, c2, p1, p2

\* The second commit dropped one of the plans.
SomePlans == (Commit \X Path) \ {<<c2, p2>>}

Symmetry == Permutations(Request)

=============================================================================
