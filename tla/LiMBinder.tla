----------------------------- MODULE LiMBinder -----------------------------
(***************************************************************************)
(* The binding phase (Binding/LiMBinder.cpp) for loads and fully parallel  *)
(* operations: it turns the ordered instruction table into rows of the     *)
(* array, states of the FSM and selection signals of multiplexers.         *)
(*                                                                         *)
(* The program is chosen as the run goes on: any number of loads, then any *)
(* operations over registers already named.  An operand that is an array   *)
(* is read through one of Accesses, the positions its pointer visits.      *)
(***************************************************************************)
EXTENDS LiMArray, FiniteStateMachine, FiniteSets

CONSTANTS
  Vars,             \* registers that hold variables: alloca instructions
  Temps,            \* registers that hold results: arithmetic instructions
  Ops,              \* operations the program uses
  MaxSize,          \* bound: elements of an array
  Accesses,         \* position lists an operand may be read through
  ConstantOperands, \* whether the program has operands of type constant
  SelfOperands,     \* whether it combines a register with itself
  ShiftAmounts,     \* floor(log2(constant)); -1 is the value of log2(<= 0)
  GarbageTimes,     \* values of the uninitialised tCopy
  GarbageRows       \* values of the uninitialised effAddrDestReg

ShiftOps == {"shl", "shr", "ashr"}

ASSUME RegistersAssumption == Vars \cap Temps = {}
ASSUME OpsAssumption == "load" \notin Ops
ASSUME SizeAssumption == MaxSize \in Nat
ASSUME AccessAssumption ==
  \A a \in Accesses : a \in Seq(Nat \ {0}) /\ a # << >>
ASSUME GarbageAssumption ==
  ShiftAmounts \subseteq Nat \cup {-1} /\ GarbageTimes \subseteq Nat /\ GarbageRows \subseteq Nat

VARIABLES
  limArray,             \* MemArray.limArray
  FSM2, selectionSignalsList, FSM,      \* FSMLim
  zeroAddr,             \* the next row name
  arrayNamesMap,        \* register -> names of the rows of its elements
  lastDestMap,          \* operand row -> row of the first result made of it
  shiftAmount,          \* floor(log2(constant)), constant being never set
  ins,                  \* the operation being bound, or Idle
  status,               \* "running", "done", or the llvm_unreachable hit
  computes,             \* history: result row -> what was asked of it
  answers               \* history: what was asked for each element, and the
                        \* row arrayNamesMap gives as its value

tables == <<limArray, FSM2, selectionSignalsList, lastDestMap>>
history == <<computes, answers>>
vars == <<limArray, FSM2, selectionSignalsList, FSM, zeroAddr, arrayNamesMap,
          lastDestMap, shiftAmount, ins, status, computes, answers>>

Idle == [operation |-> "none"]          \* between two instructions
Busy == ins # Idle

-----------------------------------------------------------------------------
Init ==
  /\ limArray = EmptyMap
  /\ FSM2 = EmptyMap
  /\ FSM = EmptyMap
  /\ selectionSignalsList = << >>
  /\ zeroAddr = 0
  /\ arrayNamesMap = EmptyMap
  /\ lastDestMap = EmptyMap
  /\ shiftAmount \in ShiftAmounts
  /\ ins = Idle
  /\ status = "running"
  /\ computes = EmptyMap
  /\ answers = {}

Named == DOMAIN arrayNamesMap

(* The rows an operand stands for, in the order its elements are visited.  *)
RowsOf(reg, access) == [k \in DOMAIN access |-> arrayNamesMap[reg][access[k]]]

Readable(reg, access) ==
  \A k \in DOMAIN access : access[k] <= Len(arrayNamesMap[reg])

(* Loads come first in instructionOrderVector.  n is what getArraySize     *)
(* returns for an array and 1 for a variable.                              *)
FetchLoad(reg, n) ==
  /\ status = "running" /\ ~Busy
  /\ Named \subseteq Vars
  /\ reg \in Vars \ Named
  /\ ins' = [operation |-> "load", destReg |-> reg, src1 |-> << >>, src2 |-> << >>,
             n |-> n, i |-> 1, dest |-> zeroAddr]
  /\ UNCHANGED <<tables, FSM, zeroAddr, arrayNamesMap, shiftAmount, status, history>>

(* One iteration of the loop of handleLoadOperationBindingProcess.         *)
BindLoad ==
  /\ status = "running" /\ Busy /\ ins.operation = "load"
  /\ limArray' = addNewRow(limArray, zeroAddr)
  /\ FSM2' = addNewInstruction(FSM2, 0, zeroAddr)
  /\ arrayNamesMap' = PushBack(arrayNamesMap, ins.destReg, zeroAddr)
  /\ zeroAddr' = zeroAddr + 1
  /\ ins' = IF ins.i = ins.n THEN Idle ELSE [ins EXCEPT !.i = @ + 1]
  /\ UNCHANGED <<selectionSignalsList, FSM, lastDestMap, shiftAmount, status, history>>

(* handleFPOperationBindingProcess up to its loop: a name is taken for the *)
(* result, then both address lists are built.  Two arrays read in the same *)
(* loop nest are visited the same number of times.                         *)
FetchOperation(op, reg, reg1, access1, reg2, access2) ==
  /\ status = "running" /\ ~Busy
  /\ reg \in Temps \ Named
  /\ reg1 \in Named /\ Readable(reg1, access1)
  /\ reg2 \in Named /\ Readable(reg2, access2)
  /\ SelfOperands \/ reg1 # reg2
  /\ Len(access1) = Len(access2) \/ Len(access1) = 1 \/ Len(access2) = 1
  /\ zeroAddr' = zeroAddr + 1
  /\ ins' = [operation |-> op, destReg |-> reg,
             src1 |-> RowsOf(reg1, access1), src2 |-> RowsOf(reg2, access2),
             n |-> Maximum(Len(access1), Len(access2)), i |-> 1, dest |-> zeroAddr]
  /\ UNCHANGED <<tables, FSM, arrayNamesMap, shiftAmount, status, history>>

(* A constant has no entry in arrayNamesMap: findInANM is llvm_unreachable *)
(* before the branches for constants are looked at.                        *)
FetchConstantOperand ==
  /\ ConstantOperands
  /\ status = "running" /\ ~Busy
  /\ Named # {} /\ Temps \ Named # {}
  /\ zeroAddr' = zeroAddr + 1
  /\ status' = "name not in arrayNamesMap"
  /\ UNCHANGED <<tables, FSM, arrayNamesMap, shiftAmount, ins, history>>

-----------------------------------------------------------------------------
(* One iteration of the loop over the elements.                            *)
src1 == IF Len(ins.src1) = 1 THEN ins.src1[1] ELSE ins.src1[ins.i]
src2 == IF Len(ins.src2) = 1 THEN ins.src2[1] ELSE ins.src2[ins.i]
dest == ins.dest
operation == ins.operation

Binding == status = "running" /\ Busy /\ operation # "load"

(* Seeded fault: names run downwards.                                      *)
NextElementDown(name) ==
  /\ zeroAddr' = name - 2
  /\ ins' = IF ins.i = ins.n THEN Idle ELSE [ins EXCEPT !.i = @ + 1, !.dest = name]

(* getNewName at the end of the iteration, name being zeroAddr there.      *)
NextElement(name) ==
  /\ zeroAddr' = name + 1
  /\ ins' = IF ins.i = ins.n THEN Idle ELSE [ins EXCEPT !.i = @ + 1, !.dest = name]

Asked(row) == [operation |-> operation, src1 |-> src1, src2 |-> src2, row |-> row]

(* The element gets the row dest, whatever becomes of that row.            *)
AnswerDest ==
  /\ arrayNamesMap' = PushBack(arrayNamesMap, ins.destReg, dest)
  /\ answers' = answers \cup {Asked(dest)}

(* Seeded fault: both operands made some result, not the same one.         *)
SameResultEither == src1 \in DOMAIN lastDestMap /\ src2 \in DOMAIN lastDestMap

(* performBinding's first test: the two operands already made one result.  *)
SameResult ==
  /\ src1 \in DOMAIN lastDestMap /\ src2 \in DOMAIN lastDestMap
  /\ lastDestMap[src1] = lastDestMap[src2]

(* The row whose logic feeds the result the operands already made.         *)
effInDest == Head(limArray[lastDestMap[src1]].inputConnections)

(* Seeded fault: the name of the result is left in the list.               *)
addNewItemNowhere(list, name) == list

(* addNewItemInRefPos: name takes the place of dest in the list.           *)
addNewItemInRefPos(list, name) ==
  [k \in DOMAIN list |-> IF list[k] = dest THEN name ELSE list[k]]

ReuseResult ==
  /\ Binding /\ SameResult
  /\ isLiMRowOfThisType(limArray, effInDest, operation)
  /\ LET named == PushBack(arrayNamesMap, ins.destReg, dest) IN
     arrayNamesMap' = [named EXCEPT ![ins.destReg] =
                         addNewItemInRefPos(@, lastDestMap[src1])]
  /\ answers' = answers \cup {Asked(lastDestMap[src1])}
  /\ NextElement(zeroAddr - 1)                            \* adjustName
  /\ UNCHANGED <<tables, FSM, shiftAmount, status, computes>>

(* The same test with another operation: no branch binds the element.      *)
DropOperation ==
  /\ Binding /\ SameResult
  /\ ~isLiMRowOfThisType(limArray, effInDest, operation)
  /\ AnswerDest
  /\ NextElement(zeroAddr)
  /\ UNCHANGED <<tables, FSM, shiftAmount, status, computes>>

-----------------------------------------------------------------------------
Present(row) == row \in DOMAIN limArray /\ row \in DOMAIN FSM2

CanBind ==
  /\ Binding /\ ~SameResult /\ operation \notin ShiftOps
  /\ Present(src1) /\ Present(src2)

(* Seeded fault: the second operand is not waited for.                     *)
activeTimeOfFirst == getTime(FSM2, src1) + 1

(* The state after both operands are written.                              *)
activeTime == Maximum(getTime(FSM2, src1), getTime(FSM2, src2)) + 1

(* A multiplexer takes one more state.                                    *)
tMux == activeTime + 1

(* What the branches share: the result row, driven by row, is written at   *)
(* time, and is remembered as the result of both operands.                 *)
AddResult(arr, fsm2, row, time) ==
  /\ limArray' = addNewResultRow(arr, dest, row)
  /\ FSM2' = addNewInstruction(fsm2, time, dest)
  /\ lastDestMap' = Insert(Insert(lastDestMap, src1, dest), src2, dest)
  /\ computes' = Insert(computes, dest, Asked(dest))
  /\ AnswerDest
  /\ UNCHANGED <<FSM, shiftAmount, status>>

(* row is a plain word: it becomes LiM and other is wired to it.           *)
Convert(row, other) ==
  /\ AddResult(addNewInputConnection(
                 changeLiMRowType(limArray, row, operation), row, other),
               FSM2, row, activeTime)
  /\ NextElement(zeroAddr)
  /\ UNCHANGED selectionSignalsList

(* Seeded fault: the multiplexer costs two states.                         *)
ShareLate(row, other) ==
  LET late == activeTime + 2 IN
  /\ AddResult(addNewInputConnection(limArray, row, other), FSM2, row, late)
  /\ selectionSignalsList' =
       insertSelectionSignal(selectionSignalsList, <<activeTime - 1, late - 1>>, row)
  /\ NextElement(zeroAddr)

(* Seeded fault: no selection signal for the multiplexer.                  *)
ShareUnselected(row, other) ==
  /\ AddResult(addNewInputConnection(limArray, row, other), FSM2, row, activeTime + 2)
  /\ NextElement(zeroAddr)
  /\ UNCHANGED selectionSignalsList

(* row computes this operation already: other is selected by a multiplexer *)
(* in the state before the result is written.                              *)
Share(row, other) ==
  /\ AddResult(addNewInputConnection(limArray, row, other), FSM2, row, tMux)
  /\ selectionSignalsList' =
       insertSelectionSignal(selectionSignalsList, <<activeTime - 1, tMux - 1>>, row)
  /\ NextElement(zeroAddr)

HasRoom(row) ==
  /\ isLiMRowOfThisType(limArray, row, operation)
  /\ Len(limArray[row].inputConnections) < 3

(* Seeded fault: a row that is LiM already changes type.                   *)
ConvertSrc2Always == CanBind /\ Convert(src2, src1)

ConvertSrc2 ==
  /\ CanBind
  /\ ~checkIfRowIsLiM(limArray, src2)
  /\ Convert(src2, src1)

ConvertSrc1 ==
  /\ CanBind
  /\ checkIfRowIsLiM(limArray, src2) /\ ~checkIfRowIsLiM(limArray, src1)
  /\ Convert(src1, src2)

ShareSrc2 ==
  /\ CanBind
  /\ checkIfRowIsLiM(limArray, src2) /\ checkIfRowIsLiM(limArray, src1)
  /\ HasRoom(src2)
  /\ Share(src2, src1)

ShareSrc1 ==
  /\ CanBind
  /\ checkIfRowIsLiM(limArray, src2) /\ checkIfRowIsLiM(limArray, src1)
  /\ ~HasRoom(src2) /\ HasRoom(src1)
  /\ Share(src1, src2)

(* Seeded fault: the copy row is never written.                            *)
CopyRowUnwritten ==
  /\ CanBind
  /\ checkIfRowIsLiM(limArray, src2) /\ checkIfRowIsLiM(limArray, src1)
  /\ ~HasRoom(src2) /\ ~HasRoom(src1)
  /\ AddResult(addNewInputConnection(
                 addNewLiMRow(limArray, zeroAddr, operation, src1), zeroAddr, src2),
               FSM2, zeroAddr, activeTime + 1)
  /\ NextElement(zeroAddr + 1)
  /\ UNCHANGED selectionSignalsList

(* Neither operand can host the operation: a row is added for it.          *)
CopyRow ==
  /\ CanBind
  /\ checkIfRowIsLiM(limArray, src2) /\ checkIfRowIsLiM(limArray, src1)
  /\ ~HasRoom(src2) /\ ~HasRoom(src1)
  /\ LET copyRow == zeroAddr
         tCopy == activeTime
     IN  /\ AddResult(addNewInputConnection(
                        addNewLiMRow(limArray, copyRow, operation, src1), copyRow, src2),
                      addNewInstruction(FSM2, tCopy, copyRow), copyRow, tCopy + 1)
         /\ NextElement(copyRow + 1)
  /\ UNCHANGED selectionSignalsList

-----------------------------------------------------------------------------
(* Shifts: src2 only counts as the constant, which is never read.          *)
CanShift ==
  /\ Binding /\ ~SameResult /\ operation \in ShiftOps
  /\ src1 \in DOMAIN limArray

(* The states tSrc1+1 .. tSrc1+realConstant+1: target is written in the    *)
(* last, row in the first of the others; none when the range is empty.     *)
AddShiftStates(fsm2, tSrc1, row, target) ==
  IF shiftAmount < 0 THEN fsm2
  ELSE addNewInstruction(
         IF shiftAmount > 0 THEN addNewInstruction(fsm2, tSrc1 + 1, row) ELSE fsm2,
         tSrc1 + shiftAmount + 1, target)

ShiftInPlace ==
  /\ CanShift
  /\ isLiMRowOfThisType(limArray, src1, "load")
  /\ src1 \in DOMAIN FSM2
  /\ limArray' = addNewResultRow(changeLiMRowType(limArray, src1, operation), dest, src1)
  /\ FSM2' = AddShiftStates(FSM2, getTime(FSM2, src1), src1, dest)
  /\ computes' = Insert(computes, dest, Asked(dest))
  /\ AnswerDest
  /\ NextElement(zeroAddr)
  /\ UNCHANGED <<selectionSignalsList, FSM, lastDestMap, shiftAmount, status>>

ShiftCopy ==
  /\ CanShift
  /\ ~isLiMRowOfThisType(limArray, src1, "load")
  /\ limArray' = addNewInputConnection(
                   addNewLiMRow(limArray, zeroAddr, operation, src1), zeroAddr, src2)
  /\ \E tCopy \in GarbageTimes, effAddrDestReg \in GarbageRows :
       FSM2' = AddShiftStates(FSM2, tCopy, zeroAddr, effAddrDestReg)
  /\ AnswerDest
  /\ NextElement(zeroAddr + 1)
  /\ UNCHANGED <<selectionSignalsList, FSM, lastDestMap, shiftAmount, status, computes>>

(* findRow (unreachable, LiMArray.cpp:141) or getTime (which dereferences  *)
(* end(), FiniteStateMachine.cpp:81) of a row that is not there.  Neither  *)
(* leaves anything to be said of what follows: one status stands for both. *)
MissingRow ==
  /\ Binding /\ ~SameResult
  /\ \/ operation \notin ShiftOps /\ ~(Present(src1) /\ Present(src2))
     \/ operation \in ShiftOps /\ src1 \notin DOMAIN limArray
     \/ /\ operation \in ShiftOps /\ src1 \in DOMAIN limArray
        /\ isLiMRowOfThisType(limArray, src1, "load") /\ src1 \notin DOMAIN FSM2
  /\ status' = "row not in limArray"
  /\ UNCHANGED <<tables, FSM, zeroAddr, arrayNamesMap, shiftAmount, ins, history>>

(* The end of the constructor.                                             *)
Finish ==
  /\ status = "running" /\ ~Busy
  /\ status' = "done"
  /\ FSM' = transform(FSM2)
  /\ UNCHANGED <<tables, zeroAddr, arrayNamesMap, shiftAmount, ins, history>>

performBinding ==
  \/ ReuseResult \/ DropOperation
  \/ ConvertSrc2 \/ ConvertSrc1 \/ ShareSrc2 \/ ShareSrc1 \/ CopyRow
  \/ ShiftInPlace \/ ShiftCopy
  \/ MissingRow

Next ==
  \/ \E reg \in Vars, n \in 1..MaxSize : FetchLoad(reg, n)
  \/ BindLoad
  \/ \E op \in Ops, reg \in Temps, reg1, reg2 \in Named, a1, a2 \in Accesses :
       FetchOperation(op, reg, reg1, a1, reg2, a2)
  \/ FetchConstantOperand
  \/ performBinding
  \/ Finish

Spec == Init /\ [][Next]_vars

-----------------------------------------------------------------------------
RowType == {"load"} \cup Ops
Question == [operation : Ops, src1 : Row, src2 : Row, row : Row]
Instruction ==
  [operation : RowType, destReg : Vars \cup Temps,
   src1 : Seq(Row), src2 : Seq(Row), n : Nat, i : Nat, dest : Row]

(* Every variable has the type of the member it stands for.                *)
TypeOK ==
  /\ DOMAIN limArray \subseteq Row
  /\ \A r \in DOMAIN limArray :
       limArray[r] \in [rowType : RowType, inputConnections : Seq(InputLine)]
  /\ DOMAIN FSM2 \subseteq Row
  /\ \A r \in DOMAIN FSM2 : FSM2[r] \in Nat
  /\ selectionSignalsList \in Seq([destRow : Row, activeTimeList : Seq(Nat)])
  /\ zeroAddr \in Nat
  /\ Named \subseteq Vars \cup Temps
  /\ \A reg \in Named : arrayNamesMap[reg] \in Seq(Row)
  /\ DOMAIN lastDestMap \subseteq Row
  /\ \A r \in DOMAIN lastDestMap : lastDestMap[r] \in Row
  /\ shiftAmount \in ShiftAmounts
  /\ ins \in Instruction \cup {Idle}
  /\ status \in {"running", "done", "row not in limArray",
                "name not in arrayNamesMap"}
  /\ DOMAIN computes \subseteq Row
  /\ \A r \in DOMAIN computes : computes[r] \in Question
  /\ answers \subseteq Question

Rows == DOMAIN limArray

(* A name still to be given, or kept for the result being bound, belongs   *)
(* to no row: std::map::insert would silently leave the older row in place *)
(* (LiMArray.cpp:44,64,76).  adjustName takes names back, so this is not a *)
(* matter of a counter that only grows.                                    *)
FreshNames ==
  /\ \A r \in Rows \cup DOMAIN FSM2 : r < zeroAddr
  /\ Binding => dest < zeroAddr /\ dest \notin Rows \cup DOMAIN FSM2

(* A result is written strictly after both its operands are                *)
(* (LiMBinder.cpp:1076-1079,1090-1111).                                    *)
Causality ==
  \A r \in DOMAIN computes :
    /\ FSM2[computes[r].src1] < FSM2[r]
    /\ FSM2[computes[r].src2] < FSM2[r]

(* The values that the shift path reads uninitialised reach no result but  *)
(* the one whose row effAddrDestReg happens to name: any other is written  *)
(* after its operands, and all but shifts by no intermediate state have a  *)
(* state (LiMBinder.cpp:1190-1230).                                        *)
GarbageConfined ==
  \A r \in DOMAIN computes \ GarbageRows :
    LET q == computes[r] IN
    /\ q.operation \notin ShiftOps => r \in DOMAIN FSM2 /\ FSM2[q.src2] < FSM2[r]
    /\ r \in DOMAIN FSM2 => FSM2[q.src1] < FSM2[r]

(* The row that writes the word of row r.                                  *)
Driver(r) == Head(limArray[r].inputConnections)

(* The logic of row d reads x.  The first line writes the word of d, and   *)
(* is no operand.                                                          *)
ReadsLine(d, x) ==
  \E k \in 2..Len(limArray[d].inputConnections) : limArray[d].inputConnections[k] = x

(* Row d has the logic q asks for, and combines the operands of q: its own *)
(* word is one and it reads the other, or it is the copy of one, no result *)
(* itself, and reads the other.  A shift reads its own word.               *)
Feeds(d, q) ==
  /\ limArray[d].rowType = q.operation
  /\ \/ d = q.src2 /\ ReadsLine(d, q.src1)
     \/ d = q.src1 /\ ReadsLine(d, q.src2)
     \/ d \notin DOMAIN computes /\ Driver(d) = q.src1 /\ ReadsLine(d, q.src2)
     \/ q.operation \in ShiftOps /\ d = q.src1

(* The one way an operand is lost: row d was shared, so it has states for  *)
(* a multiplexer, and the operand to be added is the row that writes d,    *)
(* which addNewInputConnection finds in the list (LiMArray.cpp:156).       *)
OperandDropped(d, q) ==
  /\ limArray[d].rowType = q.operation
  /\ {q.src1, q.src2} = {d, Driver(d)}
  /\ \E k \in DOMAIN selectionSignalsList : selectionSignalsList[k].destRow = d

(* The row that feeds a result computes what was asked, and goes on to     *)
(* when other results come to share it, unless the operand is dropped: in  *)
(* t1 = v1 & v2; t2 = v1 & t1; t3 = v2 & t1 the row of t1 gets no line     *)
(* from v2, and t3 is given t1 & v1 (LiMBinder.cpp:958-1047).              *)
ResultsDriven ==
  \A r \in DOMAIN computes :
    /\ Driver(r) \in Rows
    /\ Feeds(Driver(r), computes[r]) \/ OperandDropped(Driver(r), computes[r])

SameQuestion(p, q) ==
  /\ p.operation = q.operation
  /\ {p.src1, p.src2} = {q.src1, q.src2}

(* A result given for an element whose two operands differ is a result of  *)
(* that operation on those operands, though lastDestMap only knows that    *)
(* each of them once took part in it (LiMBinder.cpp:924-950).              *)
ReuseSound ==
  \A a \in answers :
    a.row \in DOMAIN computes /\ a.src1 # a.src2 => SameQuestion(computes[a.row], a)

(* No row is wired to more operands than the two a multiplexer chooses     *)
(* between, and a row that has two has states that select one              *)
(* (LiMBinder.cpp:999-1025,1109-1115).                                     *)
MuxSelected ==
  \A r \in Rows :
    LET wired == limArray[r].inputConnections IN
    /\ Len(wired) <= 3
    /\ Len(wired) = 3 =>
         \E k \in DOMAIN selectionSignalsList : selectionSignalsList[k].destRow = r

(* The generated machine writes every row of the array, and no other.      *)
EveryRowWritten ==
  status = "done" => UNION {FSM[t] : t \in DOMAIN FSM} = Rows

(* An element is left without a row of its own only when both its operands *)
(* already made one result by another operation (LiMBinder.cpp:930-952).   *)
LostOnlyByOtherOperation ==
  \A a \in answers :
    a.row \notin DOMAIN computes =>
      \E r \in DOMAIN computes :
        /\ {a.src1, a.src2} \subseteq {computes[r].src1, computes[r].src2}
        /\ computes[r].operation # a.operation

(* A row looked up and not found is that of an element lost earlier: no    *)
(* other path leaves a name without a row (LiMArray.cpp:129-143).          *)
MissingRowsWereLost ==
  status = "row not in limArray" =>
    \E a \in answers : a.row \in {src1, src2} \ DOMAIN computes

(* LiMArray.cpp:141: "LiMArray error: Error in finding a row inside the    *)
(* LiMArray." is marked unreachable.                                       *)
RowsFound == status # "row not in limArray"

-----------------------------------------------------------------------------
(* What the VHDL architecture makes of the FSM (PrintVhdlFile.cpp).  State *)
(* t of the FSM writes its rows at clock T(2t-1) and reads them at T(2t).  *)
(* The chain T1, T2, ... is as long as FSM has keys.                       *)
getFSMSize == Cardinality(DOMAIN FSM)

(* The states t at which ROW_d_SEL is given the value side: 0 for the      *)
(* front of a signal's list, 1 for the back.  It keeps it until the next.  *)
SelectionStates(d, side) ==
  {t \in 0..(getFSMSize - 1) :
     \E k \in DOMAIN selectionSignalsList :
       /\ selectionSignalsList[k].destRow = d
       /\ t = selectionSignalsList[k].activeTimeList[side + 1]}

(* The side selected when state t writes: the latest assignment before it. *)
Selects(d, t, side) ==
  \E s \in SelectionStates(d, side) :
    /\ s < t
    /\ \A u \in SelectionStates(d, 1 - side) : u < t => u < s

(* Every state of the FSM is one of the chain, so every row is written:    *)
(* though a multiplexer skips a state, no state is left empty              *)
(* (PrintVhdlFile.cpp:945-964).                                            *)
StatesReachable ==
  status = "done" => \A t \in DOMAIN FSM : t < getFSMSize

(* The array and the machine made for it agree: every row is written, all  *)
(* states with a row are in the chain, and a row with two operands to      *)
(* choose between has states that select one of them                       *)
(* (LiMBinder.cpp:1049-1128, PrintVhdlFile.cpp:945-1006).                  *)
RowsAndStatesAgree == EveryRowWritten /\ StatesReachable /\ MuxSelected

(* LiMBinder.cpp:1109: "If a mux is needed, t must be incremented by one": *)
(* a result is written while the multiplexer of the row that feeds it      *)
(* selects its own operand.                                                *)
MuxSelectsOperand ==
  status = "done" =>
    \A r \in DOMAIN computes :
      LET d == Driver(r)
          wired == limArray[d].inputConnections
          other == IF d = computes[r].src2 THEN computes[r].src1 ELSE computes[r].src2
      IN  /\ Len(wired) = 3
          /\ wired[2] # wired[3]
          => /\ other = wired[2] => Selects(d, FSM2[r], 0)
             /\ other = wired[3] => Selects(d, FSM2[r], 1)
=============================================================================
