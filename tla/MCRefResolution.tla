--------------------------- MODULE MCRefResolution ---------------------------
EXTENDS RefResolution

CONSTANTS c1, c2, t1

main == 2
release == 3
feature == 1  \* sorts before main

Branch(n) == Heads \o n

\* Names that sort in the code's favour: release/main comes after main.
FlatNames == {Branch(<<main>>), Branch(<<release, main>>), Tags \o <<4>>}
FlatGiven == {<<main>>, <<release, main>>, <<4>>, Branch(<<main>>), c1}

\* feature/main comes before main.
NestedNames == {Branch(<<main>>), Branch(<<feature, main>>)}
NestedGiven == {<<main>>}

OneTag == {Tags \o <<4>>}
TagGiven == {<<4>>}

PeelOf == [t \in Tag |-> c2]

=============================================================================
