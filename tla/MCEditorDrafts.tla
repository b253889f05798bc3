--------------------------- MODULE MCEditorDrafts ---------------------------
EXTENDS EditorDrafts, TLC

\* Tabs, and the texts but for the first, may be swapped.
Symmetry == Permutations(Tabs) \cup Permutations(Texts \ {FirstText})
=============================================================================
