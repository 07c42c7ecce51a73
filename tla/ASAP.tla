-------------------------------- MODULE ASAP --------------------------------
(***************************************************************************)
(* The ASAP scheduler (Scheduling/ASAP.cpp) and the parts of               *)
(* InstructionTable and OperationsDelay it works on.                       *)
(*                                                                         *)
(* An instruction is identified by its position in the program: 1..N.  In  *)
(* the code it is identified by the address of its destination register,   *)
(* and the scheduler walks a std::map keyed by that address.  Which of two *)
(* registers has the lower address is decided by the allocator, so address *)
(* is chosen in Init among Addresses, the numberings under study.          *)
(***************************************************************************)
EXTENDS Integers, Sequences, StdContainers

CONSTANTS N,          \* number of instructions of the program
          Ops,        \* the operations the program may use
          Addresses   \* the numberings of 1..N by address under study

Instrs == 1..N
Constant == 0                   \* stands for an operand of type constant

(* Utils/OperationsImplemented.h: what the binder recognises.              *)
LimOperations == {"load", "add", "sub", "shl", "shr", "ashr", "sdiv", "mul",
                  "and", "nand", "or", "nor", "xnor", "xor", "switch"}

(* Utils/OperationsDelay.h: the keys of delayMap; every value is 1.        *)
DelayedOperations == {"and", "nand", "or", "nor", "xor", "xnor",
                      "add", "sub", "mul"}

ASSUME NAssumption == N \in Nat
ASSUME OpsAssumption == Ops \subseteq LimOperations
ASSUME AddressAssumption ==
  /\ Addresses \subseteq [Instrs -> Nat]
  /\ \A a \in Addresses : \A i, j \in Instrs : a[i] = a[j] => i = j

VARIABLES
  operation, sourceReg1, sourceReg2,    \* the program, fixed
  address,                              \* address[i]: key of i in the map
  ti, di,                               \* start time and delay of each entry
  pending,                              \* keys the for loop has yet to visit
  instructionOrderVector,               \* the order the binder will follow
  reordered                             \* reorderInstructionVector has run

program == <<operation, sourceReg1, sourceReg2, address>>
vars == <<operation, sourceReg1, sourceReg2, address, ti, di, pending,
          instructionOrderVector, reordered>>

IsLoad(i) == operation[i] = "load"

(* The registers i reads.  A load reads none, a constant is not one.       *)
Sources(i) ==
  IF IsLoad(i) THEN {} ELSE {sourceReg1[i], sourceReg2[i]} \ {Constant}

-----------------------------------------------------------------------------
(* Seeded fault: every delay counted twice.                                *)
getOperationDelayTwice(op) == IF op \in DelayedOperations THEN 2 ELSE -1

getOperationDelay(op) == IF op \in DelayedOperations THEN 1 ELSE -1

getAvailableTime(src) == ti[src] + di[src]

OperandTime(src) == IF src = Constant THEN 0 ELSE getAvailableTime(src)

(* Seeded fault: only the first operand is waited for.                     *)
getTimeOfFirst(src1, src2) == OperandTime(src1)

getTime(src1, src2) == Maximum(OperandTime(src1), OperandTime(src2))

(* Seeded fault: time and delay swapped.                                   *)
setDelayAndTime(i, time, delay) ==
  /\ ti' = [ti EXCEPT ![i] = delay]
  /\ di' = [di EXCEPT ![i] = time]

setInstructionTimeAndDelay(i, time, delay) ==
  /\ ti' = [ti EXCEPT ![i] = time]
  /\ di' = [di EXCEPT ![i] = delay]

(* The iterator of the for loop: std::map is walked by increasing key.     *)
IsNext(i) == i \in pending /\ \A j \in pending : address[i] <= address[j]

-----------------------------------------------------------------------------
(* The table DependencyDetector leaves: single assignment, so an operand   *)
(* is the result of an earlier instruction, clang having folded what only  *)
(* reads constants; every time and delay is 0.                             *)
EarlierSource == {f \in [Instrs -> 0..N] : \A i \in Instrs : f[i] < i}

Init ==
  /\ operation \in [Instrs -> Ops]
  /\ sourceReg1 \in EarlierSource
  /\ sourceReg2 \in EarlierSource
  /\ \A i \in Instrs :
       IF IsLoad(i) THEN sourceReg1[i] = Constant /\ sourceReg2[i] = Constant
       ELSE Sources(i) # {}
  /\ address \in Addresses
  /\ ti = [i \in Instrs |-> 0]
  /\ di = [i \in Instrs |-> 0]
  /\ pending = Instrs
  /\ instructionOrderVector = [i \in Instrs |-> i]
  /\ reordered = FALSE

ScheduleLoad(i) ==
  /\ IsNext(i)
  /\ IsLoad(i)
  /\ setInstructionTimeAndDelay(i, 0, 0)
  /\ pending' = pending \ {i}
  /\ UNCHANGED <<program, instructionOrderVector, reordered>>

ScheduleOperation(i) ==
  /\ IsNext(i)
  /\ ~IsLoad(i)
  /\ setInstructionTimeAndDelay(i, getTime(sourceReg1[i], sourceReg2[i]),
                                getOperationDelay(operation[i]))
  /\ pending' = pending \ {i}
  /\ UNCHANGED <<program, instructionOrderVector, reordered>>

(* Loads first, then the others, each group in its previous order.         *)
reorderInstructionVector ==
  /\ pending = {}
  /\ ~reordered
  /\ instructionOrderVector' =
       SelectSeq(instructionOrderVector, IsLoad)
         \o SelectSeq(instructionOrderVector, LAMBDA i : ~IsLoad(i))
  /\ reordered' = TRUE
  /\ UNCHANGED <<program, ti, di, pending>>

Next ==
  \/ \E i \in Instrs : ScheduleLoad(i) \/ ScheduleOperation(i)
  \/ reorderInstructionVector

Spec == Init /\ [][Next]_vars

-----------------------------------------------------------------------------
(* Every variable has the type of the field it stands for.                 *)
TypeOK ==
  /\ operation \in [Instrs -> Ops]
  /\ sourceReg1 \in [Instrs -> 0..N]
  /\ sourceReg2 \in [Instrs -> 0..N]
  /\ address \in [Instrs -> Nat]
  /\ ti \in [Instrs -> Int]
  /\ di \in [Instrs -> {-1, 0, 1}]
  /\ pending \subseteq Instrs
  /\ reordered \in BOOLEAN

Visited == Instrs \ pending

(* The map order visits the operands of i before i.                        *)
OperandsFirst(i) == \A s \in Sources(i) : address[s] < address[i]

(* An operand of type constant is available at 0, and loads start there.   *)
Anchored(i) == IsLoad(i) \/ Constant \in {sourceReg1[i], sourceReg2[i]}

(* t is the moment the last operand of i becomes available.                *)
LastOperandAt(i, t) ==
  /\ \A s \in Sources(i) : getAvailableTime(s) <= t
  /\ Anchored(i) => 0 <= t
  /\ \/ \E s \in Sources(i) : getAvailableTime(s) = t
     \/ Anchored(i) /\ t = 0

(* An operation that the map order visits after its operands starts at the *)
(* very moment the last of them is available, and keeps that time whatever *)
(* is scheduled afterwards (ASAP.cpp:44-51 reads the live table).          *)
StartsWhenOperandsEnd ==
  \A i \in Visited : OperandsFirst(i) => LastOperandAt(i, ti[i])

(* The time a result takes.                                                *)
DelayOf(i) == IF IsLoad(i) THEN 0 ELSE getOperationDelay(operation[i])

(* A start before 0 comes from operations that delayMap does not have,     *)
(* whose delay of -1 moves their consumers back, and from nothing else     *)
(* (OperationsDelay.cpp:29): each operand is such an operation or starts   *)
(* before 0 itself, and was visited before.                                *)
NegativeOnlyByMissingDelay ==
  \A i \in Visited :
    ti[i] < 0 =>
      /\ ~Anchored(i)
      /\ OperandsFirst(i)
      /\ \A s \in Sources(i) : ti[s] < 0 \/ DelayOf(s) < 0

-----------------------------------------------------------------------------
(* The schedule this state stands for.  What the address order visits      *)
(* later is not waited for; it counts as available at 0.                   *)
S == INSTANCE Schedule WITH
       operands  <- [i \in Instrs |-> {s \in Sources(i) : address[s] < address[i]}],
       anchored  <- {i \in Instrs : Anchored(i) \/ ~OperandsFirst(i)},
       delay     <- [i \in Instrs |-> DelayOf(i)],
       scheduled <- Visited,
       start     <- ti

(* For every program and every address order the scheduler computes an     *)
(* as-soon-as-possible schedule (module Schedule) of the dependencies the  *)
(* order respects.  When it respects all of them, as program order does,   *)
(* that is the schedule ASAP.cpp:82 means.                                 *)
ImplementsSchedule == S!Spec
=============================================================================
