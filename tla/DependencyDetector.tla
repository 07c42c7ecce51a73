------------------------- MODULE DependencyDetector -------------------------
(***************************************************************************)
(* The dependency detector (Analysis/DependencyDetector.cpp) and the table *)
(* it fills (Utils/InstructionTable.cpp).                                  *)
(*                                                                         *)
(* The detector reads the instructions of a block one after the other and  *)
(* keeps the operands of the operation to come in a few latches.  What it  *)
(* is given is what clang emits for assignments without optimisation: the  *)
(* operands of an expression are loaded and combined like on a stack, and  *)
(* a store ends the statement.  The model has that stack, so that an       *)
(* operation can be asked what it really reads; the detector has not.      *)
(***************************************************************************)
EXTENDS Integers, Sequences, StdContainers

CONSTANTS
  Scalars, Arrays,      \* the alloca registers of the two kinds
  Indices,              \* the pointers into an array: <<array, index>>
  Ops,                  \* opcodes of the program
  Shapes,               \* what it may have beyond left-nested operations
  MaxDepth,             \* bound: operands waiting at once
  MaxRegs,              \* bound: loads and operations of the program
  MaxRegsOther,         \* bound: the same once it has used a shape
  Null,                 \* nullptr
  Garbage,              \* the value of a pointer never assigned
  Number, MinusOne      \* constant operands: any, and -1

Vars == Scalars \cup Arrays
Pointers == Arrays \X Indices

(* The opcodes detectDependencies has a branch for.                        *)
Opcodes == {"add", "sdiv", "mul", "shl", "lshr", "ashr", "sub", "xor", "and", "or"}

AllShapes == {"nested", "copy", "chain", "constant", "complement",
              "unknown opcode"}

ASSUME OpsAssumption == Ops \subseteq Opcodes
ASSUME ShapesAssumption == Shapes \subseteq AllShapes
ASSUME BoundsAssumption ==
  /\ MaxDepth \in Nat \ {0} /\ MaxRegs \in Nat /\ MaxRegsOther \in Nat
ASSUME NamesAssumption ==
  /\ Scalars \cap Arrays = {}
  /\ ({Null, Garbage, Number, MinusOne} \cup Vars) \cap Nat = {}
  /\ {Null, Garbage, Number, MinusOne} \cap (Vars \cup Pointers) = {}
  /\ Vars \cap Pointers = {}
  /\ Null \notin {Garbage, Number, MinusOne} /\ Garbage \notin {Number, MinusOne}
  /\ Number # MinusOne

(* xor, and, or with a complement as second operand.                       *)
Negated == [xor |-> "xnor", and |-> "nand", or |-> "nor"]

VARIABLES
  stack,                  \* values waiting for an operation or a store
  regs,                   \* registers given to loads and operations
  inLoop,                 \* isLoopBody of the block being read
  src1, src2,             \* srcReg1, srcReg1Type, tmpPtrSrc1, isSrc1Array...
  dest,                   \* destReg, destRegType, tmpPtrDest
  operation, loadCount,
  accumulationValidityCount, tmpAccumulationOp,
  isNegated, tmpLogicOperatorDestReg, tmpSrcReg2,
  lastUsedRegMap,
  instructionMap, instructionOrderVector,
  status,                 \* "running", "done" or "end() dereferenced"
  reaching,               \* history: the last definition of each variable
  asked,                  \* history: what each operation really reads
  holder,                 \* history: the variable it was first stored in
  shape                   \* history: the shape that has been used

block == <<stack, regs, inLoop>>
latches == <<src1, src2, dest, operation, loadCount, accumulationValidityCount,
             tmpAccumulationOp>>
negation == <<isNegated, tmpLogicOperatorDestReg, tmpSrcReg2>>
table == <<instructionMap, instructionOrderVector>>
vars == <<block, latches, negation, lastUsedRegMap, table, status,
          reaching, asked, holder, shape>>

NoOperand == [reg |-> Null, type |-> "undefined", ptr |-> Null, isArray |-> FALSE]
NoDest == [reg |-> Null, type |-> "undefined", ptr |-> Null]

Init ==
  /\ stack = << >> /\ regs = 0 /\ inLoop \in BOOLEAN
  /\ src1 = NoOperand /\ src2 = NoOperand /\ dest = NoDest
  /\ operation = "null" /\ loadCount = 0
  /\ accumulationValidityCount = 0 /\ tmpAccumulationOp = Garbage
  /\ isNegated = FALSE /\ tmpLogicOperatorDestReg = Garbage /\ tmpSrcReg2 = Garbage
  /\ lastUsedRegMap = EmptyMap
  /\ instructionMap = EmptyMap /\ instructionOrderVector = << >>
  /\ status = "running"
  /\ reaching = [v \in Vars |-> v]
  /\ asked = EmptyMap
  /\ holder = EmptyMap
  /\ shape = "none"

-----------------------------------------------------------------------------
(* The instruction stream.  Bound: a program uses one shape, once.         *)
plain == shape = "none"
Uses(form) == plain /\ form \in Shapes

MayGrow(isPlain) ==
  /\ status = "running"
  /\ regs < IF isPlain THEN MaxRegs ELSE MaxRegsOther

(* A value: its register, and what an operation that takes it should be    *)
(* recorded as reading (type and pointer are those of a loaded value).     *)
Value(ssa, reg, type, ptr) == [ssa |-> ssa, reg |-> reg, type |-> type, ptr |-> ptr]
IsConstant(value) == value.ssa \in {Number, MinusOne}

Push(value) == stack' = Append(stack, value)
Top == stack[Len(stack)]
Below == stack[Len(stack) - 1]

(* The array or variable a load or store through address refers to.        *)
getAllocatedReg(address) == IF address \in Scalars THEN address ELSE address[1]

TypeOf(isArray) == IF isArray THEN "array" ELSE "singleVariable"

(* The table.                                                              *)
Entry(op, destType, destPtr, s1, s2, loop) ==
  [operation |-> op, accumulation |-> FALSE,
   destRegType |-> destType, destRegPtr |-> destPtr,
   src1 |-> [reg |-> s1.reg, type |-> s1.type, ptr |-> s1.ptr],
   src2 |-> [reg |-> s2.reg, type |-> s2.type, ptr |-> s2.ptr],
   isInLoopBody |-> loop]

(* Seeded fault: the order vector grows at its front.                      *)
insertInstructionFront(reg, entry) ==
  /\ instructionMap' = Insert(instructionMap, reg, entry)
  /\ instructionOrderVector' = <<<<reg, entry.operation>>>> \o instructionOrderVector

insertInstruction(reg, entry) ==
  /\ instructionMap' = Insert(instructionMap, reg, entry)
  /\ instructionOrderVector' = Append(instructionOrderVector, <<reg, entry.operation>>)

insertLoadInstruction(reg, type) ==
  IF reg \in DOMAIN instructionMap THEN UNCHANGED table
  ELSE insertInstruction(reg, Entry("load", type, Null, NoOperand, NoOperand, FALSE))

(* modifyGivenField for destRegPtr and destRegType: nothing without entry. *)
SetDest(map, reg, type, ptr) ==
  [k \in DOMAIN map |->
     IF k = reg THEN [map[k] EXCEPT !.destRegType = type, !.destRegPtr = ptr]
     ELSE map[k]]

(* The end of a store: find, then insert or assign through the iterator.   *)
Assign(map, k, v) == [x \in DOMAIN map \cup {k} |-> IF x = k THEN v ELSE map[x]]

-----------------------------------------------------------------------------
(* Seeded fault: the first register is never replaced.                     *)
getAllocated(reg) == reg

(* getRealSrcReg: the last definition of what is loaded.                   *)
getRealSrcReg(reg) ==
  IF reg \in DOMAIN lastUsedRegMap THEN lastUsedRegMap[reg] ELSE reg

(* What a load leaves in a latch: pointer and flag stay if not an array.   *)
Latched(latch, address) ==
  LET reg == getRealSrcReg(getAllocatedReg(address)) IN
  IF address \in Pointers
  THEN [latch EXCEPT !.reg = reg, !.ptr = address, !.isArray = TRUE]
  ELSE [latch EXCEPT !.reg = reg]

(* A load pushes one more operand; a third one waiting is "nested".        *)
Load(address) ==
  LET v == getAllocatedReg(address)
      isPlain == plain /\ Len(stack) < 2
  IN
  /\ MayGrow(isPlain)
  /\ Len(stack) < IF Uses("nested") THEN MaxDepth ELSE 2
  /\ regs' = regs + 1
  /\ Push(Value(regs + 1, reaching[v], TypeOf(v \in Arrays),
                IF v \in Arrays THEN address ELSE Null))
  /\ operation' = "load"
  /\ tmpAccumulationOp' = address
  /\ accumulationValidityCount' = accumulationValidityCount + 1
  /\ insertLoadInstruction(v, TypeOf(v \in Arrays))
  /\ IF loadCount % 2 = 0
     THEN src1' = Latched(src1, address) /\ UNCHANGED src2
     ELSE src2' = Latched(src2, address) /\ UNCHANGED src1
  /\ loadCount' = loadCount + 1
  /\ shape' = IF Len(stack) < 2 THEN shape ELSE "nested"
  /\ UNCHANGED <<inLoop, dest, negation, lastUsedRegMap, status, reaching, asked,
                 holder>>

(* A constant operand is no instruction: the detector sees nothing. It may *)
(* also join the value of a store, as in (x = e) + 3.                      *)
PushConstant ==
  /\ status = "running"
  /\ \/ Uses("constant")
     \/ "constant" \in Shapes /\ stack # << >> /\ loadCount = 0
  /\ Len(stack) < 2
  /\ stack # << >> => ~IsConstant(Top)
  /\ Push(Value(Number, Number, "constant", Null))
  /\ shape' = IF plain THEN "constant" ELSE shape
  /\ UNCHANGED <<regs, inLoop, latches, negation, lastUsedRegMap, table, status,
                 reaching, asked, holder>>

-----------------------------------------------------------------------------
(* handleInstructionInserting.                                             *)
IsArrayType(type) == type \in {"array", "fakeArray"}

(* An operand is the result of the operation inserted last: it goes to the *)
(* first free latch.                                                       *)
WithLastResult(latch) ==
  [latch EXCEPT !.reg = dest.reg, !.type = dest.type, !.ptr = dest.ptr]
Typed(latch) == [latch EXCEPT !.type = TypeOf(latch.isArray)]

(* Seeded fault: the last result always goes to the first latch.           *)
MultiOperandFirst(s1, s2) == <<WithLastResult(s1), Typed(s2)>>

MultiOperand(s1, s2) ==
  IF s1.reg = Null THEN <<WithLastResult(s1), Typed(s2)>>
  ELSE IF s2.reg = Null THEN <<Typed(s1), WithLastResult(s2)>>
  ELSE <<s1, s2>>

(* Which of two pointers the result keeps depends on their subset counts,  *)
(* not modelled here: either may be the one.                               *)
MultiOperandPtr(s1, s2) ==
  IF s1.ptr = Null /\ s2.ptr = Null THEN {dest.ptr}
  ELSE IF IsArrayType(s1.type) /\ IsArrayType(s2.type) THEN {s1.ptr, s2.ptr}
  ELSE IF IsArrayType(s1.type) /\ s2.type \in {"singleVariable", "constant"} THEN {s1.ptr}
  ELSE IF IsArrayType(s2.type) /\ s1.type \in {"singleVariable", "constant"} THEN {s2.ptr}
  ELSE {dest.ptr}

(* Neither operand is the last result: the latches are taken as they are,  *)
(* save for constants.                                                     *)
TwoOperand(latch, value) ==
  IF IsConstant(value) THEN [latch EXCEPT !.reg = value.ssa, !.type = "constant"]
  ELSE Typed(latch)

TwoOperandPtr(s1, s2, x, y) ==
  IF ~IsConstant(y) THEN s2.ptr ELSE IF ~IsConstant(x) THEN s1.ptr ELSE dest.ptr

(* Seeded fault: the latches keep what the operation took.                 *)
InsertBothLatched(op, reg, s1, s2, ptr) ==
  LET type == IF IsArrayType(s1.type) \/ IsArrayType(s2.type) THEN "fakeArray"
              ELSE "singleVariable"
  IN  /\ dest' = [reg |-> reg, type |-> type, ptr |-> ptr]
      /\ insertInstruction(reg, Entry(op, type, ptr, s1, s2, inLoop))
      /\ UNCHANGED <<src1, src2>>

InsertBoth(op, reg, s1, s2, ptr) ==
  LET type == IF IsArrayType(s1.type) \/ IsArrayType(s2.type) THEN "fakeArray"
              ELSE "singleVariable"
  IN  /\ dest' = [reg |-> reg, type |-> type, ptr |-> ptr]
      /\ insertInstruction(reg, Entry(op, type, ptr, s1, s2, inLoop))
      /\ src1' = NoOperand /\ src2' = NoOperand

handleInstructionInserting(op, reg, s1, s2, x, y) ==
  IF dest.reg \in {x.ssa, y.ssa}
  THEN LET s == MultiOperand(s1, s2) IN
       \E ptr \in MultiOperandPtr(s[1], s[2]) : InsertBoth(op, reg, s[1], s[2], ptr)
  ELSE LET t1 == TwoOperand(s1, x)
           t2 == TwoOperand(s2, y)
       IN  InsertBoth(op, reg, t1, t2, TwoOperandPtr(s1, s2, x, y))

(* The operation takes the two values on top.                              *)
Combine(op, shown) ==
  /\ Len(stack) >= 2
  /\ regs' = regs + 1
  /\ stack' = Append(SubSeq(stack, 1, Len(stack) - 2),
                     Value(regs + 1, regs + 1, "result", Null))
  /\ asked' = Insert(asked, regs + 1, [operation |-> shown, x |-> Below, y |-> Top])
  /\ accumulationValidityCount' =
       IF op = "add" /\ accumulationValidityCount = 1 THEN 2
       ELSE accumulationValidityCount
  /\ UNCHANGED <<inLoop, loadCount, tmpAccumulationOp, lastUsedRegMap, status,
                 reaching, holder>>

Completes(op, y) ==
  op \in DOMAIN Negated /\ ~IsConstant(y) /\ isNegated /\ tmpLogicOperatorDestReg = y.ssa

(* An ordinary operation.                                                  *)
Operate(op) ==
  /\ MayGrow(plain)
  /\ Combine(op, op)
  /\ ~isNegated
  /\ operation' = op
  /\ handleInstructionInserting(op, regs + 1, src1, src2, Below, Top)
  /\ UNCHANGED <<negation, shape>>

(* Seeded fault: the complement stays pending.                             *)
OperateStillNegated(op) ==
  /\ MayGrow(FALSE)
  /\ Len(stack) >= 2 /\ Completes(op, Top)
  /\ Combine(op, Negated[op])
  /\ operation' = Negated[op]
  /\ handleInstructionInserting(Negated[op], regs + 1, src1,
       IF op = "xor" THEN src2 ELSE [src2 EXCEPT !.reg = tmpSrcReg2], Below, Top)
  /\ UNCHANGED <<negation, shape>>

(* x with the complement of y becomes one operation; nand and nor take the *)
(* complemented operand from tmpSrcReg2, which xor does not set.           *)
OperateNegated(op) ==
  /\ MayGrow(FALSE)
  /\ Len(stack) >= 2 /\ Completes(op, Top)
  /\ Combine(op, Negated[op])
  /\ operation' = Negated[op]
  /\ isNegated' = FALSE
  /\ handleInstructionInserting(Negated[op], regs + 1, src1,
       IF op = "xor" THEN src2 ELSE [src2 EXCEPT !.reg = tmpSrcReg2], Below, Top)
  /\ UNCHANGED <<tmpLogicOperatorDestReg, tmpSrcReg2, shape>>

(* A complement is pending and this is not what completes it: operation    *)
(* is set, nothing is inserted.                                            *)
OperateSuppressed(op) ==
  /\ MayGrow(FALSE)
  /\ Len(stack) >= 2 /\ isNegated /\ ~Completes(op, Top)
  /\ Combine(op, op)
  /\ operation' = op
  /\ UNCHANGED <<src1, src2, dest, negation, table, shape>>

(* An opcode without a branch (srem): operation stays what it was, and if  *)
(* that is an operation it is inserted once more.                          *)
OperateUnknown ==
  /\ Uses("unknown opcode")
  /\ MayGrow(FALSE)
  /\ Combine("srem", "srem")
  /\ IF isNegated \/ operation \in {"null", "load"} THEN UNCHANGED <<src1, src2, dest, table>>
     ELSE handleInstructionInserting(operation, regs + 1, src1, src2, Below, Top)
  /\ shape' = "unknown opcode"
  /\ UNCHANGED <<operation, negation>>

(* xor or or with -1, as in ~y: remembered, and nothing is inserted.  The  *)
(* branch for and is not reached: IRBuilder folds x & -1 to x.             *)
Complement(op) ==
  /\ Uses("complement")
  /\ op \in {"xor", "or"}
  /\ MayGrow(FALSE)
  /\ stack # << >> /\ ~IsConstant(Top)
  /\ regs' = regs + 1
  /\ stack' = [stack EXCEPT ![Len(stack)] = Value(regs + 1, regs + 1, "result", Null)]
  /\ asked' = Insert(asked, regs + 1,
                 [operation |-> op, x |-> Top,
                  y |-> Value(MinusOne, MinusOne, "constant", Null)])
  /\ operation' = op
  /\ isNegated' = TRUE
  /\ tmpLogicOperatorDestReg' = regs + 1
  /\ tmpSrcReg2' = IF op = "xor" THEN tmpSrcReg2 ELSE Top.ssa
  /\ shape' = "complement"
  /\ UNCHANGED <<inLoop, src1, src2, dest, loadCount, accumulationValidityCount,
                 tmpAccumulationOp, lastUsedRegMap, table, status, reaching, holder>>

-----------------------------------------------------------------------------
(* handleStoreInstruction.                                                 *)
StoreType(address) == TypeOf(address \in Pointers)
StorePtr(address) == IF address \in Pointers THEN address ELSE Null

IsAccumulation(address) ==
  accumulationValidityCount >= 2 /\ tmpAccumulationOp = address

(* Seeded fault: the operands are swapped after two loads already.         *)
AccumulateSwapped(entry, address) ==
  [entry EXCEPT !.accumulation = TRUE,
     !.src1 = entry.src2, !.src2 = entry.src1,
     !.destRegPtr = StorePtr(address), !.destRegType = StoreType(address)]

(* The entry of an accumulation; swapOperands after three loads or more.   *)
Accumulate(entry, address) ==
  LET swap == loadCount > 2 IN
  [entry EXCEPT !.accumulation = TRUE,
     !.src1 = IF swap THEN entry.src2 ELSE entry.src1,
     !.src2 = IF swap THEN entry.src1 ELSE entry.src2,
     !.destRegPtr = StorePtr(address), !.destRegType = StoreType(address)]

(* What an assignment x = a changes in the entry of a.                     *)
CopyInto(map, reg, address) ==
  LET withDest == SetDest(map, reg, StoreType(address), StorePtr(address)) IN
  [k \in DOMAIN map |->
     IF k = reg THEN [withDest[k] EXCEPT !.src2.type = StoreType(address)]
     ELSE withDest[k]]

(* The value stored and what becomes of it: in a = b = e it is stored      *)
(* again, in (b = e) + c it is an operand.                                 *)
StoredValue(address) ==
  /\ status = "running"
  /\ Len(stack) = 1
  /\ Top.type \in {"array", "singleVariable"} => Uses("copy")
  /\ \E kept \in {FALSE} \cup {Uses("chain")} :
       /\ stack' = IF kept THEN stack ELSE << >>
       /\ shape' = IF Top.type \in {"array", "singleVariable"} THEN "copy"
                   ELSE IF kept THEN "chain"
                   ELSE IF Top.type = "constant" THEN "constant" ELSE shape
  /\ reaching' = [reaching EXCEPT ![getAllocatedReg(address)] = Top.reg]
  /\ holder' = IF Top.type = "result" THEN Insert(holder, Top.reg, getAllocatedReg(address))
               ELSE holder
  /\ UNCHANGED <<regs, inLoop, negation, instructionOrderVector, asked>>

(* Seeded fault: a definition is inserted, never replaced.                 *)
EndStatementFirst(address, definition) ==
  /\ lastUsedRegMap' = Insert(lastUsedRegMap, getAllocatedReg(address), definition)
  /\ src1' = NoOperand /\ src2' = NoOperand /\ dest' = NoDest
  /\ operation' = "null" /\ loadCount' = 0 /\ accumulationValidityCount' = 0
  /\ UNCHANGED <<tmpAccumulationOp, status>>

(* Seeded fault: the element is the key, not its array.                    *)
EndStatementOfElement(address, definition) ==
  /\ lastUsedRegMap' = Assign(lastUsedRegMap, address, definition)
  /\ src1' = NoOperand /\ src2' = NoOperand /\ dest' = NoDest
  /\ operation' = "null" /\ loadCount' = 0 /\ accumulationValidityCount' = 0
  /\ UNCHANGED <<tmpAccumulationOp, status>>

(* The end of a store that has been handled.                               *)
EndStatement(address, definition) ==
  /\ lastUsedRegMap' = Assign(lastUsedRegMap, getAllocatedReg(address), definition)
  /\ src1' = NoOperand /\ src2' = NoOperand /\ dest' = NoDest
  /\ operation' = "null" /\ loadCount' = 0 /\ accumulationValidityCount' = 0
  /\ UNCHANGED <<tmpAccumulationOp, status>>

(* A store with no operation since the last one: nothing is recorded but   *)
(* the pointer of the destination.                                         *)
StoreIgnored(address) ==
  /\ StoredValue(address)
  /\ operation = "null"
  /\ dest' = [dest EXCEPT !.ptr = IF address \in Pointers THEN address ELSE @]
  /\ UNCHANGED <<src1, src2, operation, loadCount, accumulationValidityCount,
                 tmpAccumulationOp, lastUsedRegMap, instructionMap, status>>

StoreResult(address) ==
  /\ StoredValue(address)
  /\ \/ loadCount >= 2 /\ operation # "null" /\ ~IsAccumulation(address)
     \/ loadCount = 1 /\ operation \notin {"null", "load"}
  /\ instructionMap' =
       SetDest(instructionMap, dest.reg, StoreType(address), StorePtr(address))
  /\ EndStatement(address, dest.reg)

(* Only constants were combined with the value of the last store.          *)
StoreUnloaded(address) ==
  /\ StoredValue(address)
  /\ loadCount = 0 /\ operation # "null"
  /\ UNCHANGED instructionMap
  /\ EndStatement(address, dest.reg)

StoreCopy(address) ==
  /\ StoredValue(address)
  /\ loadCount = 1 /\ operation = "load"
  /\ instructionMap' = CopyInto(instructionMap, src1.reg, address)
  /\ EndStatement(address, Top.ssa)

(* The last load was of what is stored to.  Outside a loop even the type   *)
(* of the destination is left as it is.                                    *)
StoreAccumulation(address) ==
  /\ StoredValue(address)
  /\ loadCount >= 2 /\ operation # "null" /\ IsAccumulation(address)
  /\ dest.reg \in DOMAIN instructionMap
  /\ instructionMap' =
       IF instructionMap[dest.reg].isInLoopBody
       THEN [instructionMap EXCEPT ![dest.reg] = Accumulate(@, address)]
       ELSE instructionMap
  /\ EndStatement(address, dest.reg)

(* The same with no operation inserted: the entry is read through end().   *)
StoreUndefined(address) ==
  /\ StoredValue(address)
  /\ loadCount >= 2 /\ operation # "null" /\ IsAccumulation(address)
  /\ dest.reg \notin DOMAIN instructionMap
  /\ status' = "end() dereferenced"
  /\ UNCHANGED <<latches, lastUsedRegMap, instructionMap>>

-----------------------------------------------------------------------------
(* The next block, of a loop or not.                                       *)
NextBlock ==
  /\ status = "running" /\ stack = << >>
  /\ inLoop' = ~inLoop
  /\ UNCHANGED <<stack, regs, latches, negation, lastUsedRegMap, table, status,
                 reaching, asked, holder, shape>>

IsLoadPair(pair) == pair[2] = "load"

(* What a loop of reorderInstructionVector pushes back: the pairs that are *)
(* loads, or those that are not.                                           *)
PushedBack(vector, loads) ==
  LET orderedVector[n \in 0..Len(vector)] ==
        IF n = 0 THEN << >>
        ELSE IF IsLoadPair(vector[n]) = loads
             THEN Append(orderedVector[n - 1], vector[n])
             ELSE orderedVector[n - 1]
  IN  orderedVector[Len(vector)]

(* The end of detectDependencies: reorderInstructionVector.                *)
Finish ==
  /\ status = "running" /\ stack = << >>
  /\ status' = "done"
  /\ instructionOrderVector' =
       PushedBack(instructionOrderVector, TRUE) \o PushedBack(instructionOrderVector, FALSE)
  /\ UNCHANGED <<block, latches, negation, lastUsedRegMap, instructionMap,
                 reaching, asked, holder, shape>>

handleStoreInstruction(address) ==
  \/ StoreIgnored(address) \/ StoreResult(address) \/ StoreCopy(address)
  \/ StoreUnloaded(address) \/ StoreAccumulation(address) \/ StoreUndefined(address)

Next ==
  \/ \E address \in Scalars \cup Pointers : Load(address) \/ handleStoreInstruction(address)
  \/ PushConstant
  \/ \E op \in Ops :
       Operate(op) \/ OperateNegated(op) \/ OperateSuppressed(op) \/ Complement(op)
  \/ OperateUnknown
  \/ NextBlock
  \/ Finish

Spec == Init /\ [][Next]_vars

-----------------------------------------------------------------------------
Definition == Vars \cup 1..regs \cup {Number}
Register == Vars \cup 1..regs \cup {Null, Garbage, Number, MinusOne}
PtrType == Pointers \cup {Null}
OperandType == {"singleVariable", "array", "constant", "fakeArray", "undefined"}
ValueType ==
  [ssa : 1..regs \cup {Number, MinusOne}, reg : Definition \cup {MinusOne},
   type : {"array", "singleVariable", "constant", "result"}, ptr : PtrType]
SourceType == [reg : Register, type : OperandType, ptr : PtrType]

(* Every variable has the type of the member it stands for.                *)
TypeOK ==
  /\ stack \in Seq(ValueType)
  /\ src1 \in [reg : Register, type : OperandType, ptr : PtrType, isArray : BOOLEAN]
  /\ src2 \in [reg : Register, type : OperandType, ptr : PtrType, isArray : BOOLEAN]
  /\ dest \in [reg : Register, type : OperandType, ptr : PtrType]
  /\ loadCount \in Nat
  /\ accumulationValidityCount \in Nat
  /\ \A k \in DOMAIN lastUsedRegMap : k \in Vars /\ lastUsedRegMap[k] \in Register
  /\ \A k \in DOMAIN instructionMap :
       /\ k \in Vars \cup 1..regs
       /\ instructionMap[k].src1 \in SourceType
       /\ instructionMap[k].src2 \in SourceType
       /\ instructionMap[k].destRegPtr \in PtrType
  /\ reaching \in [Vars -> Definition]

(* source records what the value is: the same register, and for a loaded   *)
(* value its type and the pointer it was read through.                     *)
Records(source, value) ==
  /\ source.reg = value.reg
  /\ value.type # "result" => source.type = value.type /\ source.ptr = value.ptr

(* In left-nested statements every operation is inserted with the operands *)
(* it really reads, in either order: latches filled by the parity of a     *)
(* counter and never tied to the operands of the instruction give what a   *)
(* stack would, across statements and redefinitions                        *)
(* (DependencyDetector.cpp:98-239,610-638).                                *)
OperandsKept ==
  plain =>
    \A r \in DOMAIN asked :
      /\ r \in DOMAIN instructionMap
      /\ instructionMap[r].operation = asked[r].operation
      /\ LET e == instructionMap[r] IN
         \/ Records(e.src1, asked[r].x) /\ Records(e.src2, asked[r].y)
         \/ Records(e.src2, asked[r].x) /\ Records(e.src1, asked[r].y)

(* Between two such statements the next load of a variable will get its    *)
(* last definition (DependencyDetector.cpp:373-386).                       *)
DefinitionsCurrent ==
  plain /\ stack = << >> => \A v \in Vars : getRealSrcReg(v) = reaching[v]

(* A nested right operand takes the latch of one that is waiting, and the  *)
(* outer operation is left with the last result alone: it is never given   *)
(* an operand of another operation instead                                 *)
(* (DependencyDetector.cpp:98-239,610-638).                                *)
OperandsRightOrLost ==
  shape = "nested" =>
    \A r \in DOMAIN asked :
      /\ r \in DOMAIN instructionMap
      /\ LET recorded == {instructionMap[r].src1.reg, instructionMap[r].src2.reg} IN
         \/ recorded = {asked[r].x.reg, asked[r].y.reg}
         \/ recorded = {asked[r].y.reg, Null} /\ asked[r].y.type = "result"

(* A store that follows a store, or stores a constant, records nothing.    *)
(* Between statements that is all that is stale: a variable without its    *)
(* last definition was given a constant, or the value of a result that was *)
(* stored in another first (DependencyDetector.cpp:283,373-386).           *)
DefinitionsConfined ==
  shape \in {"nested", "constant", "chain"} /\ stack = << >> =>
    \A v \in Vars :
      getRealSrcReg(v) # reaching[v] =>
        \/ reaching[v] = Number
        \/ reaching[v] \in DOMAIN holder /\ holder[reaching[v]] # v

(* Of the operations, only a complement and, while nothing completes it,   *)
(* those that follow are not in the table; between statements a variable   *)
(* has its last definition unless that is one of them                      *)
(* (DependencyDetector.cpp:500-600).                                       *)
LostToComplement ==
  shape = "complement" =>
    LET lost == {r \in DOMAIN asked :
                   \/ r = tmpLogicOperatorDestReg
                   \/ isNegated /\ r > tmpLogicOperatorDestReg}
    IN  /\ DOMAIN asked \cap DOMAIN instructionMap = DOMAIN asked \ lost
        /\ stack = << >> =>
             \A v \in Vars : getRealSrcReg(v) # reaching[v] => reaching[v] \in lost

(* What programs with a statement of another shape lose is what these      *)
(* three say, and nothing else of them (DependencyDetector.cpp:98-638).    *)
UnsupportedShapes == OperandsRightOrLost /\ DefinitionsConfined /\ LostToComplement

(* The binder takes the first operand of an accumulation for the set and   *)
(* the second for what it is added to (LiMBinder.cpp:205,256).  A left-    *)
(* nested statement gives them in that order, unless it loads an even      *)
(* number of values from four on, as acc += a + b + c does: there the      *)
(* latches are in order, and the swap exchanges them                       *)
(* (DependencyDetector.cpp:300).                                           *)
AccumulatorSecond ==
  [][\A k \in DOMAIN instructionMap :
       plain /\ instructionMap'[k].accumulation /\ ~instructionMap[k].accumulation =>
         (instructionMap'[k].src2.reg = asked[k].y.reg
            <=> loadCount = 2 \/ loadCount % 2 = 1)]_vars

(* Whatever the program, the vector given to the binder lists every entry  *)
(* of the table once, the loads in front, and no operation before one it   *)
(* names as operand (InstructionTable.cpp:68-74,272-293).                  *)
BindableOrder ==
  status = "done" =>
    LET v == instructionOrderVector
        Key(k) == v[k][1]
    IN  /\ {Key(k) : k \in DOMAIN v} = DOMAIN instructionMap
        /\ \A j, k \in DOMAIN v :
             /\ Key(j) = Key(k) => j = k
             /\ IsLoadPair(v[k]) /\ j < k => IsLoadPair(v[j])
             /\ Key(j) \in {instructionMap[Key(k)].src1.reg, instructionMap[Key(k)].src2.reg}
                  => j < k

(* DependencyDetector.cpp:71: "Function useful to retrieve the right src   *)
(* register name (which has to correspond to the dest reg name of a        *)
(* previous instruction)": a register that is an operand is a key.         *)
SourcesInTable ==
  \A k \in DOMAIN instructionMap :
    {instructionMap[k].src1.reg, instructionMap[k].src2.reg}
      \subseteq DOMAIN instructionMap \cup {Null, Number, MinusOne}
=============================================================================
