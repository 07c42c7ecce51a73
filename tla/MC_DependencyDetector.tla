----------------------- MODULE MC_DependencyDetector -----------------------
(* Instances of DependencyDetector for TLC.                                *)
EXTENDS DependencyDetector, TLC

Symmetry == Permutations(Scalars) \cup Permutations(Indices)
=============================================================================
