------------------------------ MODULE Schedule ------------------------------
(***************************************************************************)
(* What "as soon as possible" promises of a schedule: an instruction is    *)
(* given a start time once the operands it waits for have one, and it      *)
(* starts the moment the last of them is available, or at 0 if it is       *)
(* anchored there (it waits for nothing, or for something that is there    *)
(* from the beginning).  A delay may be negative: the result of such an    *)
(* instruction is available before it starts.                              *)
(***************************************************************************)
EXTENDS Integers

CONSTANTS Instrs        \* the instructions to schedule

VARIABLES operands,     \* operands[i]: the instructions i waits for
          anchored,     \* the instructions that do not start before 0
          delay,        \* delay[i]: the time i takes
          scheduled,    \* the instructions that have a start time
          start         \* start[i], meaningful for i in scheduled

vars == <<operands, anchored, delay, scheduled, start>>

Finish(i) == start[i] + delay[i]

Init ==
  /\ operands \in [Instrs -> SUBSET Instrs]
  /\ anchored \in SUBSET Instrs
  /\ delay \in [Instrs -> Int]
  /\ scheduled = {}
  /\ start = [i \in Instrs |-> 0]

(* t is the largest of the times i waits for.                              *)
AsSoonAsPossible(i, t) ==
  /\ \A s \in operands[i] : Finish(s) <= t
  /\ i \in anchored => 0 <= t
  /\ \/ \E s \in operands[i] : Finish(s) = t
     \/ i \in anchored /\ t = 0

Place(i) ==
  /\ i \notin scheduled
  /\ operands[i] \subseteq scheduled
  /\ AsSoonAsPossible(i, start'[i])
  /\ start' = [start EXCEPT ![i] = start'[i]]
  /\ scheduled' = scheduled \cup {i}
  /\ UNCHANGED <<operands, anchored, delay>>

Next == \E i \in Instrs : Place(i)

Spec == Init /\ [][Next]_vars
=============================================================================
