--------------------------- MODULE MC_LiMMachine ---------------------------
(* Instances of LiMMachine for TLC.                                        *)
EXTENDS LiMMachine, TLC

Symmetry == Permutations(Vars) \cup Permutations(Temps)

Scalar == {<<1>>}
=============================================================================
