------------------------------ MODULE MC_ASAP ------------------------------
(* Instances of ASAP for TLC: the address numberings to explore.           *)
EXTENDS ASAP

AllNumberings == {a \in [1..N -> 1..N] : \A i, j \in 1..N : a[i] = a[j] => i = j}
=============================================================================
