---------------------------- MODULE MC_LiMBinder ----------------------------
(* Instances of LiMBinder for TLC.                                         *)
EXTENDS LiMBinder, TLC

Symmetry == Permutations(Vars) \cup Permutations(Temps)

(* Single variables; arrays of two elements read forwards, backwards or at *)
(* one index.                                                              *)
Scalar == {<<1>>}
Arrays == {<<1>>, <<2>>, <<1, 2>>, <<2, 1>>}

(* Shift amounts: an empty range of states, no intermediate one, two.      *)
Amounts == {-1, 0, 2}
=============================================================================
