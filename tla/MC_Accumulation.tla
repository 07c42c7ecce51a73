-------------------------- MODULE MC_Accumulation --------------------------
(* Instances of Accumulation for TLC.                                      *)
EXTENDS Accumulation

Elements == {<<1>>, <<2>>}
Sets == {<<1, 1, 2, 1, 3, 1, 2, 3, 4>>, <<1, 2>>, <<1, 2, 3>>, <<3, 4>>,
         <<1, 2, 3, 4>>, <<5, 3, 4, 1, 2>>}
Cuts == {[triangle |-> FALSE, count |-> n, cols |-> 1] : n \in 1..5}
          \cup {[triangle |-> TRUE, count |-> 4, cols |-> 2]}
=============================================================================
