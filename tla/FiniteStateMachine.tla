------------------------- MODULE FiniteStateMachine -------------------------
(***************************************************************************)
(* The finite state machine of the array (Binding/FiniteStateMachine.cpp)  *)
(* as a data structure: FSM2 maps a row to the state that writes it, and   *)
(* selectionSignalsList holds, for rows shared through a multiplexer, the  *)
(* states that select each side.  transform turns FSM2 around.             *)
(***************************************************************************)
EXTENDS Integers, Sequences, StdContainers

(* Seeded fault: a row that has a state is moved to the new one.           *)
moveInstruction(fsm2, time, row) ==
  [r \in DOMAIN fsm2 \cup {row} |-> IF r = row THEN time ELSE fsm2[r]]

addNewInstruction(fsm2, time, row) == Insert(fsm2, row, time)

getTime(fsm2, row) == fsm2[row]

insertSelectionSignal(list, times, row) ==
  Append(list, [destRow |-> row, activeTimeList |-> times])

(* FSM: the rows written in each state.  getFSMSize counts its keys.       *)
transform(fsm2) ==
  [t \in {fsm2[r] : r \in DOMAIN fsm2} |-> {r \in DOMAIN fsm2 : fsm2[r] = t}]
=============================================================================
