--------------------------- MODULE MCTestDocuments ---------------------------
EXTENDS TestDocuments, TLC

\* Editors are interchangeable names, and so are contents.
Symmetry == Permutations(Editor) \cup Permutations(Content)

=============================================================================
