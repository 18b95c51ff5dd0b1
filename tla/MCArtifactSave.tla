--------------------------- MODULE MCArtifactSave ---------------------------
(* TLC instance of ArtifactSave: calls and texts are interchangeable. *)
EXTENDS ArtifactSave

Symmetry == Permutations(Calls) \union Permutations(Texts)
=============================================================================
