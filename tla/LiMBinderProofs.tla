-------------------------- MODULE LiMBinderProofs --------------------------
(***************************************************************************)
(* Proofs about module LiMBinder, for every set of registers, operations   *)
(* and access lists and every array size.  Types hold for every program;   *)
(* the other theorems are about programs without shifts, whose path reads  *)
(* uninitialised row names.                                                *)
(***************************************************************************)
EXTENDS LiMBinder, SequenceTheorems, FiniteSetTheorems, FunctionTheorems, TLAPS

(* No operation of the program is a shift.                                 *)
NoShifts == Ops \cap ShiftOps = {}

(* The type of an array.                                                   *)
ArrayOK(arr) ==
  /\ DOMAIN arr \subseteq Row
  /\ \A r \in DOMAIN arr :
       arr[r] \in [rowType : RowType, inputConnections : Seq(InputLine)]

(* new has every row of old; a row that was LiM keeps its type, and every  *)
(* row keeps its lines in their places.                                    *)
ExtendsArray(old, new) ==
  /\ DOMAIN old \subseteq DOMAIN new
  /\ \A r \in DOMAIN old :
       /\ old[r].rowType # "load" => new[r].rowType = old[r].rowType
       /\ Len(old[r].inputConnections) <= Len(new[r].inputConnections)
       /\ \A k \in 1..Len(old[r].inputConnections) :
            new[r].inputConnections[k] = old[r].inputConnections[k]

-----------------------------------------------------------------------------
(* std::map::insert keeps what is there.                                   *)
LEMMA InsertFacts ==
  ASSUME NEW m, NEW k, NEW v
  PROVE  /\ DOMAIN Insert(m, k, v) = DOMAIN m \cup {k}
         /\ \A x \in DOMAIN m : Insert(m, k, v)[x] = m[x]
         /\ k \notin DOMAIN m => Insert(m, k, v)[k] = v
BY DEF Insert

(* Only the list of one key grows (LiMBinder.cpp:1236-1245).               *)
LEMMA PushBackType ==
  ASSUME NEW S, NEW m, NEW k, NEW v \in S, \A x \in DOMAIN m : m[x] \in Seq(S)
  PROVE  /\ DOMAIN PushBack(m, k, v) = DOMAIN m \cup {k}
         /\ \A x \in DOMAIN m \cup {k} : PushBack(m, k, v)[x] \in Seq(S)
<1>1. ListAt(m, k) \in Seq(S)
  BY DEF ListAt
<1>2. Append(ListAt(m, k), v) \in Seq(S)
  BY <1>1
<1> QED BY <1>2 DEF PushBack

LEMMA MaximumBounds ==
  ASSUME NEW a \in Nat, NEW b \in Nat
  PROVE  /\ Maximum(a, b) \in Nat
         /\ a <= Maximum(a, b) /\ b <= Maximum(a, b)
         /\ Maximum(a, b) = a \/ Maximum(a, b) = b
BY DEF Maximum

LEMMA ExtendsReflexive ==
  ASSUME NEW arr, ArrayOK(arr)
  PROVE  ExtendsArray(arr, arr)
<1>1. \A r \in DOMAIN arr : Len(arr[r].inputConnections) \in Nat
  BY DEF ArrayOK
<1> QED BY <1>1 DEF ExtendsArray

(* A chain of calls on the array extends it if each call does.             *)
LEMMA ExtendsTransitive ==
  ASSUME NEW a, NEW b, NEW c, ArrayOK(a), ArrayOK(b), ArrayOK(c),
         ExtendsArray(a, b), ExtendsArray(b, c)
  PROVE  ExtendsArray(a, c)
<1>1. /\ \A r \in DOMAIN a : Len(a[r].inputConnections) \in Nat
      /\ \A r \in DOMAIN b : Len(b[r].inputConnections) \in Nat
      /\ \A r \in DOMAIN c : Len(c[r].inputConnections) \in Nat
  BY DEF ArrayOK
<1>2. DOMAIN a \subseteq DOMAIN c
  BY DEF ExtendsArray
<1>3. ASSUME NEW r \in DOMAIN a
      PROVE  /\ a[r].rowType # "load" => c[r].rowType = a[r].rowType
             /\ Len(a[r].inputConnections) <= Len(c[r].inputConnections)
             /\ \A k \in 1..Len(a[r].inputConnections) :
                  c[r].inputConnections[k] = a[r].inputConnections[k]
  <2>1. r \in DOMAIN b
    BY DEF ExtendsArray
  <2>2. a[r].rowType # "load" => c[r].rowType = a[r].rowType
    BY <2>1 DEF ExtendsArray
  <2>3. Len(a[r].inputConnections) <= Len(c[r].inputConnections)
    BY <2>1, <1>1 DEF ExtendsArray
  <2>4. ASSUME NEW k \in 1..Len(a[r].inputConnections)
        PROVE  c[r].inputConnections[k] = a[r].inputConnections[k]
    <3>1. k \in 1..Len(b[r].inputConnections)
      BY <1>1, <2>1 DEF ExtendsArray
    <3> QED BY <3>1, <2>1 DEF ExtendsArray
  <2> QED BY <2>2, <2>3, <2>4
<1> QED BY <1>2, <1>3 DEF ExtendsArray

-----------------------------------------------------------------------------
(* A row is added with the type and the one line given (LiMArray.cpp:31-78 *)
(* the three functions differ in these only); an existing row stays.       *)
LEMMA InsertRow ==
  ASSUME NEW arr, ArrayOK(arr), NEW row \in Row, NEW type \in RowType,
         NEW line \in InputLine,
         NEW new, new = Insert(arr, row, [rowType |-> type, inputConnections |-> <<line>>])
  PROVE  /\ ArrayOK(new)
         /\ ExtendsArray(arr, new)
         /\ DOMAIN new = DOMAIN arr \cup {row}
         /\ \A r \in DOMAIN arr : new[r] = arr[r]
         /\ row \notin DOMAIN arr =>
              new[row] = [rowType |-> type, inputConnections |-> <<line>>]
<1> DEFINE rec == [rowType |-> type, inputConnections |-> <<line>>]
<1>1. rec \in [rowType : RowType, inputConnections : Seq(InputLine)]
  OBVIOUS
<1>2. /\ DOMAIN new = DOMAIN arr \cup {row}
      /\ \A r \in DOMAIN arr : new[r] = arr[r]
      /\ row \notin DOMAIN arr => new[row] = rec
  BY DEF Insert
<1>3. ArrayOK(new)
  <2>1. DOMAIN new \subseteq Row
    BY <1>2 DEF ArrayOK
  <2>2. ASSUME NEW r \in DOMAIN new
        PROVE  new[r] \in [rowType : RowType, inputConnections : Seq(InputLine)]
    BY <1>1, <1>2 DEF ArrayOK
  <2> QED BY <2>1, <2>2 DEF ArrayOK
<1>4. ExtendsArray(arr, new)
  <2>1. ExtendsArray(arr, arr)
    BY ExtendsReflexive
  <2> QED BY <2>1, <1>2 DEF ExtendsArray
<1> QED BY <1>2, <1>3, <1>4

(* A word becomes LiM: its lines and every other row stay                  *)
(* (LiMArray.cpp:83-117).                                                  *)
LEMMA ChangeType ==
  ASSUME NEW arr, ArrayOK(arr), NEW row \in DOMAIN arr, NEW type \in RowType,
         arr[row].rowType = "load",
         NEW new, new = changeLiMRowType(arr, row, type)
  PROVE  /\ ArrayOK(new)
         /\ ExtendsArray(arr, new)
         /\ DOMAIN new = DOMAIN arr
         /\ new[row].rowType = type
         /\ \A r \in DOMAIN arr : /\ new[r].inputConnections = arr[r].inputConnections
                                  /\ r # row => new[r] = arr[r]
<1>1. /\ DOMAIN new = DOMAIN arr
      /\ new[row].rowType = type
      /\ new[row].inputConnections = arr[row].inputConnections
      /\ \A r \in DOMAIN arr : r # row => new[r] = arr[r]
  BY DEF changeLiMRowType, ArrayOK
<1>2. new[row] \in [rowType : RowType, inputConnections : Seq(InputLine)]
  BY DEF changeLiMRowType, ArrayOK
<1>3. ArrayOK(new)
  BY <1>1, <1>2 DEF ArrayOK
<1>4. ExtendsArray(arr, new)
  <2>1. ExtendsArray(arr, arr)
    BY ExtendsReflexive
  <2> QED BY <2>1, <1>1 DEF ExtendsArray
<1> QED BY <1>1, <1>3, <1>4

(* After addNewInputConnection the operand is a line of the row, and the   *)
(* lines before are where they were (LiMArray.cpp:147-166).                *)
LEMMA Connect ==
  ASSUME NEW arr, ArrayOK(arr), NEW row \in DOMAIN arr, NEW src \in Row,
         NEW new, new = addNewInputConnection(arr, row, src)
  PROVE  /\ ArrayOK(new)
         /\ ExtendsArray(arr, new)
         /\ DOMAIN new = DOMAIN arr
         /\ new[row].rowType = arr[row].rowType
         /\ Listed(new[row].inputConnections, src)
         /\ \/ new[row].inputConnections = arr[row].inputConnections
            \/ new[row].inputConnections = Append(arr[row].inputConnections, src)
         /\ Len(arr[row].inputConnections) = 1 =>
              new[row].inputConnections = Append(arr[row].inputConnections, src)
         /\ \A r \in DOMAIN arr : r # row => new[r] = arr[r]
<1> DEFINE list == arr[row].inputConnections
<1>1. list \in Seq(InputLine) /\ src \in InputLine
  BY DEF ArrayOK, InputLine
<1>2. /\ Append(list, src) \in Seq(InputLine)
      /\ Len(Append(list, src)) = Len(list) + 1
      /\ Append(list, src)[Len(list) + 1] = src
      /\ \A k \in 1..Len(list) : Append(list, src)[k] = list[k]
  BY <1>1
<1>3. Listed(Append(list, src), src)
  BY <1>1, <1>2 DEF Listed
<1>4. CASE Len(list) = 1 \/ ~Listed(list, src)
  <2>1. new = [arr EXCEPT ![row].inputConnections = Append(list, src)]
    BY <1>4 DEF addNewInputConnection
  <2>2. /\ DOMAIN new = DOMAIN arr
        /\ new[row].rowType = arr[row].rowType
        /\ new[row].inputConnections = Append(list, src)
        /\ \A r \in DOMAIN arr : r # row => new[r] = arr[r]
    BY <2>1 DEF ArrayOK
  <2>3. new[row] \in [rowType : RowType, inputConnections : Seq(InputLine)]
    BY <2>1, <1>2 DEF ArrayOK
  <2>4. ArrayOK(new)
    BY <2>2, <2>3 DEF ArrayOK
  <2>5. ExtendsArray(arr, new)
    <3>1. ExtendsArray(arr, arr)
      BY ExtendsReflexive
    <3>2. Len(list) \in Nat
      BY <1>1
    <3> QED BY <3>1, <3>2, <2>2, <1>2 DEF ExtendsArray
  <2> QED BY <2>2, <2>4, <2>5, <1>3
<1>5. CASE ~(Len(list) = 1 \/ ~Listed(list, src))
  <2>1. new = arr
    BY <1>5 DEF addNewInputConnection
  <2>2. ExtendsArray(arr, arr)
    BY ExtendsReflexive
  <2> QED BY <2>1, <2>2, <1>5
<1> QED BY <1>4, <1>5

-----------------------------------------------------------------------------
(* The conjuncts of TypeOK, each the type of one variable.                 *)
TimesOK(f) == DOMAIN f \subseteq Row /\ \A r \in DOMAIN f : f[r] \in Nat
SignalsOK ==
  selectionSignalsList \in Seq([destRow : Row, activeTimeList : Seq(Nat)])
NamesOK ==
  /\ Named \subseteq Vars \cup Temps
  /\ \A reg \in Named : arrayNamesMap[reg] \in Seq(Row)
LastDestOK ==
  /\ DOMAIN lastDestMap \subseteq Row
  /\ \A r \in DOMAIN lastDestMap : lastDestMap[r] \in Row
ComputesOK ==
  /\ DOMAIN computes \subseteq Row
  /\ \A r \in DOMAIN computes : computes[r] \in Question
InsTypeOK == ins \in Instruction \cup {Idle}
RestOK ==
  /\ zeroAddr \in Nat
  /\ shiftAmount \in ShiftAmounts
  /\ status \in {"running", "done", "row not in limArray", "name not in arrayNamesMap"}
  /\ answers \subseteq Question

LEMMA TypeParts ==
  TypeOK <=> /\ ArrayOK(limArray) /\ TimesOK(FSM2) /\ SignalsOK /\ NamesOK
             /\ LastDestOK /\ ComputesOK /\ InsTypeOK /\ RestOK
BY DEF TypeOK, ArrayOK, TimesOK, SignalsOK, NamesOK, LastDestOK, ComputesOK,
       InsTypeOK, RestOK

LEMMA TypePartsPrime ==
  TypeOK' <=> /\ ArrayOK(limArray') /\ TimesOK(FSM2') /\ SignalsOK' /\ NamesOK'
              /\ LastDestOK' /\ ComputesOK' /\ InsTypeOK' /\ RestOK'
BY DEF TypeOK, ArrayOK, TimesOK, SignalsOK, NamesOK, LastDestOK, ComputesOK,
       InsTypeOK, RestOK

(* An operation, not a load, is being bound.                               *)
IsBinding == Busy /\ operation # "load"

(* The name kept for the result is the last one given, and the element     *)
(* being bound is one of both operand lists (LiMBinder.cpp:404-416).       *)
InsOK ==
  IsBinding =>
    /\ dest = zeroAddr - 1
    /\ ins.i \in 1..ins.n
    /\ Len(ins.src1) \in {1, ins.n} /\ Len(ins.src2) \in {1, ins.n}

LEMMA OperandTypes ==
  ASSUME TypeOK, InsOK, IsBinding
  PROVE  /\ src1 \in Row /\ src2 \in Row /\ operation \in Ops
         /\ dest \in Row /\ dest = zeroAddr - 1 /\ zeroAddr \in Nat
         /\ ins \in Instruction
         /\ \A row \in Row : Asked(row) \in Question
<1>1. ins \in Instruction
  BY DEF TypeOK, IsBinding, Busy
<1>2. /\ ins.src1 \in Seq(Row) /\ ins.src2 \in Seq(Row)
      /\ ins.operation \in RowType /\ ins.dest \in Row
  BY <1>1 DEF Instruction
<1>3. /\ ins.i \in 1..ins.n
      /\ Len(ins.src1) \in {1, ins.n} /\ Len(ins.src2) \in {1, ins.n}
      /\ dest = zeroAddr - 1
  BY DEF InsOK
<1>4. src1 \in Row
  BY <1>2, <1>3 DEF src1
<1>5. src2 \in Row
  BY <1>2, <1>3 DEF src2
<1>6. operation \in Ops
  BY <1>2 DEF operation, RowType, IsBinding
<1>7. zeroAddr \in Nat
  BY DEF TypeOK
<1>8. \A row \in Row : Asked(row) \in Question
  BY <1>4, <1>5, <1>6 DEF Asked, Question
<1> QED BY <1>1, <1>2, <1>3, <1>4, <1>5, <1>6, <1>7, <1>8 DEF dest

(* The end of an iteration: the next name is that of the next element.     *)
LEMMA NextElementType ==
  ASSUME TypeOK, InsOK, IsBinding, NEW name \in Nat, NextElement(name)
  PROVE  /\ zeroAddr' = name + 1 /\ zeroAddr' \in Nat
         /\ InsTypeOK' /\ InsOK'
         /\ IsBinding' => dest' = name
<1>1. ins \in Instruction /\ ins.i \in 1..ins.n /\ ins.n \in Nat
  BY OperandTypes DEF InsOK, Instruction
<1>2. zeroAddr' = name + 1
  BY DEF NextElement
<1>3. CASE ins.i = ins.n
  <2>1. ins' = Idle
    BY <1>3 DEF NextElement
  <2>2. ~IsBinding'
    BY <2>1 DEF IsBinding, Busy
  <2> QED BY <1>2, <2>1, <2>2 DEF InsTypeOK, InsOK
<1>4. CASE ins.i # ins.n
  <2>1. ins' = [ins EXCEPT !.i = @ + 1, !.dest = name]
    BY <1>4 DEF NextElement
  <2>2. /\ ins'.i = ins.i + 1 /\ ins'.dest = name /\ ins'.n = ins.n
        /\ ins'.src1 = ins.src1 /\ ins'.src2 = ins.src2
    BY <2>1, <1>1 DEF Instruction
  <2>3. ins' \in Instruction
    <3>1. ins.i + 1 \in Nat /\ name \in Row
      BY <1>1 DEF Row
    <3>2. [ins EXCEPT !.i = ins.i + 1] \in Instruction
      BY <3>1, <1>1 DEF Instruction
    <3>3. ins' = [[ins EXCEPT !.i = ins.i + 1] EXCEPT !.dest = name]
      BY <2>1
    <3> QED BY <3>1, <3>2, <3>3 DEF Instruction
  <2>4. ins'.i \in 1..ins'.n
    BY <2>2, <1>1, <1>4
  <2>5. InsOK'
    BY <2>2, <2>4, <1>2 DEF InsOK, dest
  <2> QED BY <1>2, <2>2, <2>3, <2>5 DEF InsTypeOK, dest
<1> QED BY <1>3, <1>4

(* An element answered with the row kept for it.                           *)
LEMMA AnswerDestType ==
  ASSUME TypeOK, InsOK, IsBinding, AnswerDest
  PROVE  /\ NamesOK'
         /\ answers' = answers \cup {Asked(dest)} /\ answers' \subseteq Question
<1>1. /\ dest \in Row /\ ins.destReg \in Vars \cup Temps /\ Asked(dest) \in Question
  BY OperandTypes DEF Instruction
<1>2. \A x \in DOMAIN arrayNamesMap : arrayNamesMap[x] \in Seq(Row)
  BY DEF TypeOK, Named
<1>3. arrayNamesMap' = PushBack(arrayNamesMap, ins.destReg, dest)
  BY DEF AnswerDest
<1>4. /\ DOMAIN PushBack(arrayNamesMap, ins.destReg, dest) = Named \cup {ins.destReg}
      /\ \A x \in Named \cup {ins.destReg} :
           PushBack(arrayNamesMap, ins.destReg, dest)[x] \in Seq(Row)
  BY <1>1, <1>2, PushBackType DEF Named
<1>5. NamesOK'
  BY <1>1, <1>3, <1>4 DEF NamesOK, Named, TypeOK
<1>6. answers' = answers \cup {Asked(dest)}
  BY DEF AnswerDest
<1> QED BY <1>1, <1>5, <1>6 DEF TypeOK

-----------------------------------------------------------------------------
(* What a successful binding does to the tables has their types            *)
(* (LiMBinder.cpp:1081-1128).                                              *)
LEMMA AddResultType ==
  ASSUME TypeOK, InsOK, IsBinding,
         NEW arr, ArrayOK(arr), NEW fsm2, TimesOK(fsm2),
         NEW row \in Row, NEW time \in Nat, AddResult(arr, fsm2, row, time)
  PROVE  /\ ArrayOK(limArray') /\ TimesOK(FSM2') /\ NamesOK' /\ LastDestOK' /\ ComputesOK'
         /\ shiftAmount' \in ShiftAmounts /\ answers' \subseteq Question
         /\ status' = status
<1>1. /\ src1 \in Row /\ src2 \in Row /\ dest \in Row /\ Asked(dest) \in Question
  BY OperandTypes
<1>2. ArrayOK(limArray')
  <2>1. limArray' = Insert(arr, dest, [rowType |-> "load", inputConnections |-> <<row>>])
    BY DEF AddResult, addNewResultRow
  <2>2. "load" \in RowType /\ row \in InputLine
    BY DEF RowType, InputLine
  <2> QED BY <1>1, <2>1, <2>2, InsertRow
<1>3. TimesOK(FSM2')
  <2>1. FSM2' = Insert(fsm2, dest, time)
    BY DEF AddResult, addNewInstruction
  <2> QED BY <1>1, <2>1 DEF TimesOK, Insert
<1>4. NamesOK' /\ answers' \subseteq Question
  BY AnswerDestType DEF AddResult
<1>5. LastDestOK'
  <2> DEFINE once == Insert(lastDestMap, src1, dest)
  <2>1. DOMAIN once \subseteq Row /\ \A r \in DOMAIN once : once[r] \in Row
    BY <1>1 DEF TypeOK, Insert
  <2>2. lastDestMap' = Insert(once, src2, dest)
    BY DEF AddResult
  <2> HIDE DEF once
  <2> QED BY <1>1, <2>1, <2>2 DEF LastDestOK, Insert
<1>6. ComputesOK'
  <2>1. computes' = Insert(computes, dest, Asked(dest))
    BY DEF AddResult
  <2> QED BY <1>1, <2>1 DEF ComputesOK, Insert, TypeOK
<1>7. shiftAmount' \in ShiftAmounts /\ status' = status
  BY DEF AddResult, TypeOK
<1> QED BY <1>2, <1>3, <1>4, <1>5, <1>6, <1>7

(* Both operands have a row and a state, and the state after both is known *)
(* (LiMBinder.cpp:952-956,1089-1092).                                      *)
LEMMA CanBindFacts ==
  ASSUME TypeOK, InsOK, CanBind
  PROVE  /\ IsBinding /\ status = "running"
         /\ src1 \in Rows /\ src2 \in Rows
         /\ src1 \in DOMAIN FSM2 /\ src2 \in DOMAIN FSM2
         /\ activeTime \in Nat \ {0}
         /\ FSM2[src1] < activeTime /\ FSM2[src2] < activeTime
         /\ activeTime = FSM2[src1] + 1 \/ activeTime = FSM2[src2] + 1
<1>1. /\ IsBinding /\ status = "running"
      /\ src1 \in Rows /\ src2 \in Rows
      /\ src1 \in DOMAIN FSM2 /\ src2 \in DOMAIN FSM2
  BY DEF CanBind, Binding, IsBinding, Present, Rows
<1>2. FSM2[src1] \in Nat /\ FSM2[src2] \in Nat
  BY <1>1 DEF TypeOK
<1> DEFINE m == Maximum(FSM2[src1], FSM2[src2])
<1>3. /\ m \in Nat /\ FSM2[src1] <= m /\ FSM2[src2] <= m
      /\ m = FSM2[src1] \/ m = FSM2[src2]
  BY <1>2, MaximumBounds
<1>4. activeTime = m + 1
  BY DEF activeTime, getTime
<1> HIDE DEF m
<1> QED BY <1>1, <1>2, <1>3, <1>4

(* The array of the conversions: row gets the operation and the operand    *)
(* (LiMBinder.cpp:958-998).                                                *)
LEMMA ConvertArray ==
  ASSUME TypeOK, NEW op \in Ops, NEW row \in Rows, ~checkIfRowIsLiM(limArray, row),
         NEW other \in Row,
         NEW arr, arr = addNewInputConnection(changeLiMRowType(limArray, row, op), row, other)
  PROVE  /\ ArrayOK(arr) /\ ExtendsArray(limArray, arr) /\ DOMAIN arr = Rows
         /\ arr[row].rowType = op
         /\ Listed(arr[row].inputConnections, other)
         /\ \/ arr[row].inputConnections = limArray[row].inputConnections
            \/ arr[row].inputConnections = Append(limArray[row].inputConnections, other)
         /\ Len(limArray[row].inputConnections) = 1 =>
              arr[row].inputConnections = Append(limArray[row].inputConnections, other)
         /\ \A r \in Rows : r # row => arr[r] = limArray[r]
<1> DEFINE mid == changeLiMRowType(limArray, row, op)
<1>1. ArrayOK(limArray) /\ row \in DOMAIN limArray /\ op \in RowType
  BY TypeParts DEF Rows, RowType
<1>2. limArray[row].rowType = "load"
  BY DEF checkIfRowIsLiM
<1>3. /\ ArrayOK(mid) /\ ExtendsArray(limArray, mid) /\ DOMAIN mid = DOMAIN limArray
      /\ mid[row].rowType = op
      /\ \A r \in DOMAIN limArray :
           /\ mid[r].inputConnections = limArray[r].inputConnections
           /\ r # row => mid[r] = limArray[r]
  BY <1>1, <1>2, ChangeType
<1>4. arr = addNewInputConnection(mid, row, other)
  OBVIOUS
<1> HIDE DEF mid
<1>5. /\ ArrayOK(arr) /\ ExtendsArray(mid, arr) /\ DOMAIN arr = DOMAIN mid
      /\ arr[row].rowType = mid[row].rowType
      /\ Listed(arr[row].inputConnections, other)
      /\ \/ arr[row].inputConnections = mid[row].inputConnections
         \/ arr[row].inputConnections = Append(mid[row].inputConnections, other)
      /\ Len(mid[row].inputConnections) = 1 =>
           arr[row].inputConnections = Append(mid[row].inputConnections, other)
      /\ \A r \in DOMAIN mid : r # row => arr[r] = mid[r]
  BY <1>1, <1>3, <1>4, Connect
<1>6. ExtendsArray(limArray, arr)
  BY <1>1, <1>3, <1>5, ExtendsTransitive
<1> QED BY <1>1, <1>3, <1>5, <1>6 DEF Rows

(* The array of the sharing branches (LiMBinder.cpp:999-1047).             *)
LEMMA ShareArray ==
  ASSUME TypeOK, NEW row \in Rows, NEW other \in Row,
         NEW arr, arr = addNewInputConnection(limArray, row, other)
  PROVE  /\ ArrayOK(arr) /\ ExtendsArray(limArray, arr) /\ DOMAIN arr = Rows
         /\ arr[row].rowType = limArray[row].rowType
         /\ Listed(arr[row].inputConnections, other)
         /\ \/ arr[row].inputConnections = limArray[row].inputConnections
            \/ arr[row].inputConnections = Append(limArray[row].inputConnections, other)
         /\ \A r \in Rows : r # row => arr[r] = limArray[r]
BY TypeParts, Connect DEF Rows

(* The array of the copy branch (LiMBinder.cpp:1049-1070).                 *)
Copied(arr, copyRow, op, s1, s2) ==
  /\ ArrayOK(arr) /\ ExtendsArray(limArray, arr)
  /\ DOMAIN arr = Rows \cup {copyRow}
  /\ \A r \in Rows : r # copyRow => arr[r] = limArray[r]
  /\ copyRow \notin Rows =>
       /\ arr[copyRow].rowType = op
       /\ arr[copyRow].inputConnections = Append(<<s1>>, s2)

LEMMA CopyArray ==
  ASSUME TypeOK, NEW op \in Ops, NEW copyRow \in Row, NEW s1 \in Row, NEW s2 \in Row,
         NEW arr,
         arr = addNewInputConnection(addNewLiMRow(limArray, copyRow, op, s1), copyRow, s2)
  PROVE  Copied(arr, copyRow, op, s1, s2)
<1> DEFINE mid == addNewLiMRow(limArray, copyRow, op, s1)
<1>1. ArrayOK(limArray) /\ op \in RowType /\ s1 \in InputLine
  BY TypeParts DEF RowType, InputLine
<1>2. mid = Insert(limArray, copyRow, [rowType |-> op, inputConnections |-> <<s1>>])
  BY DEF addNewLiMRow
<1> HIDE DEF mid
<1>3. /\ ArrayOK(mid) /\ ExtendsArray(limArray, mid)
      /\ DOMAIN mid = DOMAIN limArray \cup {copyRow}
      /\ \A r \in DOMAIN limArray : mid[r] = limArray[r]
      /\ copyRow \notin DOMAIN limArray =>
           mid[copyRow] = [rowType |-> op, inputConnections |-> <<s1>>]
  BY <1>1, <1>2, InsertRow
<1>4. arr = addNewInputConnection(mid, copyRow, s2)
  BY DEF mid
<1>5. /\ ArrayOK(arr) /\ ExtendsArray(mid, arr) /\ DOMAIN arr = DOMAIN mid
      /\ arr[copyRow].rowType = mid[copyRow].rowType
      /\ Len(mid[copyRow].inputConnections) = 1 =>
           arr[copyRow].inputConnections = Append(mid[copyRow].inputConnections, s2)
      /\ \A r \in DOMAIN mid : r # copyRow => arr[r] = mid[r]
  BY <1>3, <1>4, Connect
<1>6. ExtendsArray(limArray, arr)
  BY <1>1, <1>3, <1>5, ExtendsTransitive
<1>7. copyRow \notin DOMAIN limArray =>
        /\ arr[copyRow].rowType = op
        /\ arr[copyRow].inputConnections = Append(<<s1>>, s2)
  BY <1>3, <1>5
<1> QED BY <1>3, <1>5, <1>6, <1>7 DEF Rows, Copied

-----------------------------------------------------------------------------
(* Type correctness.                                                       *)
TypeInv == TypeOK /\ InsOK

(* A binding branch keeps the types if its arguments have them.            *)
LEMMA BindType ==
  ASSUME TypeInv, IsBinding,
         NEW arr, ArrayOK(arr), NEW fsm2, TimesOK(fsm2),
         NEW row \in Row, NEW time \in Nat, AddResult(arr, fsm2, row, time),
         NEW name \in Nat, NextElement(name), SignalsOK'
  PROVE  TypeInv'
<1>1. /\ ArrayOK(limArray') /\ TimesOK(FSM2') /\ NamesOK' /\ LastDestOK' /\ ComputesOK'
      /\ shiftAmount' \in ShiftAmounts /\ answers' \subseteq Question
      /\ status' = status
  BY AddResultType DEF TypeInv
<1>2. zeroAddr' \in Nat /\ InsTypeOK' /\ InsOK'
  BY NextElementType DEF TypeInv
<1>3. RestOK'
  BY <1>1, <1>2 DEF RestOK, TypeInv, TypeOK
<1> QED BY <1>1, <1>2, <1>3, TypePartsPrime DEF TypeInv

LEMMA ConvertType ==
  ASSUME TypeInv, CanBind, NEW row \in Rows, NEW other \in Row,
         ~checkIfRowIsLiM(limArray, row), Convert(row, other)
  PROVE  TypeInv'
<1> DEFINE arr == addNewInputConnection(
                    changeLiMRowType(limArray, row, operation), row, other)
<1>1. IsBinding /\ activeTime \in Nat /\ zeroAddr \in Nat /\ operation \in Ops
  BY CanBindFacts, OperandTypes DEF TypeInv
<1>2. ArrayOK(arr)
  BY <1>1, ConvertArray DEF TypeInv
<1>3. TimesOK(FSM2) /\ row \in Row
  BY TypeParts DEF TypeInv, ArrayOK, Rows
<1>4. /\ AddResult(arr, FSM2, row, activeTime) /\ NextElement(zeroAddr)
      /\ UNCHANGED selectionSignalsList
  BY DEF Convert
<1>5. SignalsOK'
  BY <1>4, TypeParts DEF TypeInv, SignalsOK
<1> HIDE DEF arr
<1> QED BY <1>1, <1>2, <1>3, <1>4, <1>5, BindType

LEMMA ShareType ==
  ASSUME TypeInv, CanBind, NEW row \in Rows, NEW other \in Row, Share(row, other)
  PROVE  TypeInv'
<1> DEFINE arr == addNewInputConnection(limArray, row, other)
<1>1. IsBinding /\ activeTime \in Nat \ {0} /\ zeroAddr \in Nat
  BY CanBindFacts, OperandTypes DEF TypeInv
<1>2. ArrayOK(arr)
  BY ShareArray DEF TypeInv
<1>3. TimesOK(FSM2) /\ row \in Row
  BY TypeParts DEF TypeInv, ArrayOK, Rows
<1>4. /\ AddResult(arr, FSM2, row, tMux) /\ NextElement(zeroAddr)
      /\ selectionSignalsList' = Append(selectionSignalsList,
           [destRow |-> row, activeTimeList |-> <<activeTime - 1, tMux - 1>>])
  BY DEF Share, insertSelectionSignal
<1>5. tMux \in Nat /\ tMux - 1 \in Nat /\ activeTime - 1 \in Nat
  BY <1>1 DEF tMux
<1>6. SignalsOK'
  <2>1. selectionSignalsList \in Seq([destRow : Row, activeTimeList : Seq(Nat)])
    BY TypeParts DEF TypeInv, SignalsOK
  <2>2. [destRow |-> row, activeTimeList |-> <<activeTime - 1, tMux - 1>>]
          \in [destRow : Row, activeTimeList : Seq(Nat)]
    BY <1>3, <1>5
  <2> QED BY <1>4, <2>1, <2>2 DEF SignalsOK
<1> HIDE DEF arr
<1> QED BY <1>1, <1>2, <1>3, <1>4, <1>5, <1>6, BindType

LEMMA CopyRowType ==
  ASSUME TypeInv, CopyRow
  PROVE  TypeInv'
<1> DEFINE arr == addNewInputConnection(
                    addNewLiMRow(limArray, zeroAddr, operation, src1), zeroAddr, src2)
           fsm2 == addNewInstruction(FSM2, activeTime, zeroAddr)
<1>1. /\ IsBinding /\ activeTime \in Nat /\ zeroAddr \in Nat
      /\ operation \in Ops /\ src1 \in Row /\ src2 \in Row
  BY CanBindFacts, OperandTypes DEF TypeInv, CopyRow
<1>2. zeroAddr \in Row
  BY <1>1 DEF Row
<1>3. ArrayOK(arr)
  <2>1. ASSUME NEW a,
               a = addNewInputConnection(
                     addNewLiMRow(limArray, zeroAddr, operation, src1), zeroAddr, src2)
        PROVE  ArrayOK(a)
    <3>1. Copied(a, zeroAddr, operation, src1, src2)
      BY <1>1, <1>2, <2>1, CopyArray DEF TypeInv
    <3> QED BY <3>1 DEF Copied
  <2> QED BY <2>1
<1>4. TimesOK(fsm2)
  BY <1>1, <1>2, TypeParts DEF TypeInv, TimesOK, addNewInstruction, Insert
<1>5. /\ AddResult(arr, fsm2, zeroAddr, activeTime + 1) /\ NextElement(zeroAddr + 1)
      /\ UNCHANGED selectionSignalsList
  BY DEF CopyRow
<1>6. SignalsOK'
  BY <1>5, TypeParts DEF TypeInv, SignalsOK
<1> HIDE DEF arr, fsm2
<1>7. activeTime + 1 \in Nat /\ zeroAddr + 1 \in Nat
  BY <1>1
<1> QED BY <1>1, <1>2, <1>3, <1>4, <1>5, <1>6, <1>7, BindType

(* Reuse and loss change names and answers only (LiMBinder.cpp:939-952).   *)
LEMMA ReuseType ==
  ASSUME TypeInv, ReuseResult
  PROVE  TypeInv'
<1> DEFINE L == lastDestMap[src1]
           named == PushBack(arrayNamesMap, ins.destReg, dest)
<1>1. /\ IsBinding /\ zeroAddr \in Nat /\ dest \in Row /\ dest = zeroAddr - 1
      /\ ins.destReg \in Vars \cup Temps /\ \A row \in Row : Asked(row) \in Question
  <2>1. IsBinding
    BY DEF ReuseResult, Binding, IsBinding
  <2> QED BY <2>1, OperandTypes DEF TypeInv, Instruction
<1>2. L \in Row
  BY DEF ReuseResult, SameResult, TypeInv, TypeOK
<1>3. zeroAddr - 1 \in Nat /\ NextElement(zeroAddr - 1)
  BY <1>1 DEF ReuseResult, Row
<1>4. zeroAddr' \in Nat /\ InsTypeOK' /\ InsOK'
  BY <1>1, <1>3, NextElementType DEF TypeInv
<1>5. NamesOK'
  <2>1. /\ DOMAIN named = Named \cup {ins.destReg}
        /\ \A x \in Named \cup {ins.destReg} : named[x] \in Seq(Row)
    <3>1. \A x \in DOMAIN arrayNamesMap : arrayNamesMap[x] \in Seq(Row)
      BY DEF TypeInv, TypeOK, Named
    <3>2. /\ DOMAIN PushBack(arrayNamesMap, ins.destReg, dest) = Named \cup {ins.destReg}
          /\ \A x \in Named \cup {ins.destReg} :
               PushBack(arrayNamesMap, ins.destReg, dest)[x] \in Seq(Row)
      <4>1. dest \in Row
        BY <1>1
      <4> QED BY <3>1, <4>1, PushBackType DEF Named
    <3> QED BY <3>2
  <2>2. ASSUME NEW list \in Seq(Row)
        PROVE  addNewItemInRefPos(list, L) \in Seq(Row)
    <3>1. DOMAIN list = 1..Len(list) /\ Len(list) \in Nat
          /\ \A k \in 1..Len(list) : list[k] \in Row
      BY <2>2
    <3>2. \A k \in 1..Len(list) : (IF list[k] = dest THEN L ELSE list[k]) \in Row
      BY <1>2, <3>1
    <3>3. addNewItemInRefPos(list, L) =
            [k \in 1..Len(list) |-> IF list[k] = dest THEN L ELSE list[k]]
      BY <3>1 DEF addNewItemInRefPos
    <3> QED BY <3>1, <3>2, <3>3, IsASeq
  <2>3. arrayNamesMap' = [named EXCEPT ![ins.destReg] = addNewItemInRefPos(@, L)]
    BY DEF ReuseResult
  <2> HIDE DEF named, L
  <2>4. /\ DOMAIN arrayNamesMap' = Named \cup {ins.destReg}
        /\ \A x \in DOMAIN arrayNamesMap' : arrayNamesMap'[x] \in Seq(Row)
    BY <2>1, <2>2, <2>3
  <2> QED BY <1>1, <2>4 DEF NamesOK, Named, TypeInv, TypeOK
<1>6. answers' \subseteq Question
  BY <1>1, <1>2 DEF ReuseResult, TypeInv, TypeOK
<1>7. /\ limArray' = limArray /\ FSM2' = FSM2 /\ computes' = computes
      /\ selectionSignalsList' = selectionSignalsList /\ lastDestMap' = lastDestMap
      /\ shiftAmount' = shiftAmount /\ status' = status
  BY DEF ReuseResult, tables
<1> QED
  BY <1>4, <1>5, <1>6, <1>7
  DEF TypeInv, TypeOK, NamesOK, InsTypeOK

LEMMA DropType ==
  ASSUME TypeInv, DropOperation
  PROVE  TypeInv'
<1>1. IsBinding
  BY DEF DropOperation, Binding, IsBinding
<1>2. zeroAddr \in Nat /\ NextElement(zeroAddr) /\ AnswerDest
  BY <1>1, OperandTypes DEF TypeInv, DropOperation
<1>3. zeroAddr' \in Nat /\ InsTypeOK' /\ InsOK'
  BY <1>1, <1>2, NextElementType DEF TypeInv
<1>4. NamesOK' /\ answers' \subseteq Question
  BY <1>1, <1>2, AnswerDestType DEF TypeInv
<1>5. /\ limArray' = limArray /\ FSM2' = FSM2 /\ computes' = computes
      /\ selectionSignalsList' = selectionSignalsList /\ lastDestMap' = lastDestMap
      /\ shiftAmount' = shiftAmount /\ status' = status
  BY DEF DropOperation, tables
<1> QED
  BY <1>3, <1>4, <1>5
  DEF TypeInv, TypeOK, NamesOK, InsTypeOK

(* The states of a shift are those of its two rows (LiMBinder.cpp:1140-    *)
(* 1226); nothing is written when the shift amount is negative.            *)
LEMMA AddShiftStatesType ==
  ASSUME NEW f, TimesOK(f), NEW t \in Nat, NEW row \in Row, NEW target \in Row,
         shiftAmount \in ShiftAmounts
  PROVE  TimesOK(AddShiftStates(f, t, row, target))
<1>1. shiftAmount \in Nat \cup {-1}
  BY GarbageAssumption
<1>2. CASE shiftAmount < 0
  BY <1>2 DEF AddShiftStates
<1>3. CASE ~(shiftAmount < 0)
  <2>1. t + 1 \in Nat /\ t + shiftAmount + 1 \in Nat
    BY <1>1, <1>3
  <2>2. ASSUME NEW g, TimesOK(g), NEW r \in Row, NEW time \in Nat
        PROVE  TimesOK(addNewInstruction(g, time, r))
    BY <2>2 DEF TimesOK, addNewInstruction, Insert
  <2>3. TimesOK(addNewInstruction(f, t + 1, row))
    BY <2>1, <2>2
  <2>4. PICK g : /\ TimesOK(g)
                 /\ AddShiftStates(f, t, row, target)
                      = addNewInstruction(g, t + shiftAmount + 1, target)
    BY <1>3, <2>3 DEF AddShiftStates
  <2> QED BY <2>1, <2>2, <2>4
<1> QED BY <1>2, <1>3

LEMMA ShiftInPlaceType ==
  ASSUME TypeInv, ShiftInPlace
  PROVE  TypeInv'
<1> DEFINE mid == changeLiMRowType(limArray, src1, operation)
<1>1. /\ IsBinding /\ zeroAddr \in Nat /\ operation \in Ops /\ dest \in Row
      /\ src1 \in Row /\ src1 \in Rows /\ src1 \in DOMAIN FSM2
      /\ Asked(dest) \in Question
  <2>1. IsBinding /\ src1 \in DOMAIN limArray /\ src1 \in DOMAIN FSM2
    BY DEF ShiftInPlace, CanShift, Binding, IsBinding
  <2> QED BY <2>1, OperandTypes DEF TypeInv, Rows
<1>2. ArrayOK(limArray')
  <2>1. limArray[src1].rowType = "load" /\ operation \in RowType
    BY <1>1 DEF ShiftInPlace, isLiMRowOfThisType, RowType
  <2>2. ArrayOK(mid)
    BY <1>1, <2>1, TypeParts, ChangeType DEF TypeInv, Rows
  <2>3. limArray' = Insert(mid, dest, [rowType |-> "load", inputConnections |-> <<src1>>])
    BY DEF ShiftInPlace, addNewResultRow
  <2>4. "load" \in RowType /\ src1 \in InputLine
    BY <1>1 DEF RowType, InputLine
  <2> HIDE DEF mid
  <2> QED BY <1>1, <2>2, <2>3, <2>4, InsertRow
<1>3. TimesOK(FSM2')
  <2>1. FSM2' = AddShiftStates(FSM2, FSM2[src1], src1, dest)
    BY DEF ShiftInPlace, getTime
  <2>2. TimesOK(FSM2) /\ FSM2[src1] \in Nat /\ shiftAmount \in ShiftAmounts
    BY <1>1, TypeParts DEF TypeInv, TimesOK, RestOK
  <2> QED BY <1>1, <2>1, <2>2, AddShiftStatesType
<1>4. NamesOK' /\ answers' \subseteq Question
  BY <1>1, AnswerDestType DEF TypeInv, ShiftInPlace
<1>5. ComputesOK'
  <2>1. computes' = Insert(computes, dest, Asked(dest))
    BY DEF ShiftInPlace
  <2> QED BY <1>1, <2>1 DEF ComputesOK, Insert, TypeInv, TypeOK
<1>6. zeroAddr' \in Nat /\ InsTypeOK' /\ InsOK'
  BY <1>1, NextElementType DEF TypeInv, ShiftInPlace
<1>7. SignalsOK' /\ LastDestOK' /\ RestOK'
  BY <1>4, <1>6, TypeParts
  DEF TypeInv, ShiftInPlace, SignalsOK, LastDestOK, RestOK
<1> QED BY <1>2, <1>3, <1>4, <1>5, <1>6, <1>7, TypePartsPrime DEF TypeInv

LEMMA ShiftCopyType ==
  ASSUME TypeInv, ShiftCopy
  PROVE  TypeInv'
<1>1. /\ IsBinding /\ zeroAddr \in Nat /\ zeroAddr \in Row /\ operation \in Ops
      /\ src1 \in Row /\ src2 \in Row
  <2>1. IsBinding
    BY DEF ShiftCopy, CanShift, Binding, IsBinding
  <2> QED BY <2>1, OperandTypes DEF TypeInv, Row
<1>2. ArrayOK(limArray')
  <2>1. limArray' = addNewInputConnection(
                      addNewLiMRow(limArray, zeroAddr, operation, src1), zeroAddr, src2)
    BY DEF ShiftCopy
  <2>2. ASSUME NEW a,
               a = addNewInputConnection(
                     addNewLiMRow(limArray, zeroAddr, operation, src1), zeroAddr, src2)
        PROVE  ArrayOK(a)
    <3>1. Copied(a, zeroAddr, operation, src1, src2)
      BY <1>1, <2>2, CopyArray DEF TypeInv
    <3> QED BY <3>1 DEF Copied
  <2> QED BY <2>1, <2>2
<1>3. TimesOK(FSM2')
  <2>1. PICK tCopy \in GarbageTimes, effAddrDestReg \in GarbageRows :
               FSM2' = AddShiftStates(FSM2, tCopy, zeroAddr, effAddrDestReg)
    BY DEF ShiftCopy
  <2>2. tCopy \in Nat /\ effAddrDestReg \in Row
    BY GarbageAssumption DEF Row
  <2>3. TimesOK(FSM2) /\ shiftAmount \in ShiftAmounts
    BY TypeParts DEF TypeInv, RestOK
  <2> QED BY <1>1, <2>1, <2>2, <2>3, AddShiftStatesType
<1>4. NamesOK' /\ answers' \subseteq Question
  BY <1>1, AnswerDestType DEF TypeInv, ShiftCopy
<1>5. zeroAddr' \in Nat /\ InsTypeOK' /\ InsOK'
  <2>1. zeroAddr + 1 \in Nat /\ NextElement(zeroAddr + 1)
    BY <1>1 DEF ShiftCopy
  <2> QED BY <1>1, <2>1, NextElementType DEF TypeInv
<1>6. SignalsOK' /\ LastDestOK' /\ ComputesOK' /\ RestOK'
  BY <1>4, <1>5, TypeParts
  DEF TypeInv, ShiftCopy, SignalsOK, LastDestOK, ComputesOK, RestOK
<1> QED BY <1>2, <1>3, <1>4, <1>5, <1>6, TypePartsPrime DEF TypeInv

LEMMA FetchLoadType ==
  ASSUME TypeInv, NEW reg \in Vars, NEW n \in 1..MaxSize, FetchLoad(reg, n)
  PROVE  TypeInv'
<1>1. /\ ins' = [operation |-> "load", destReg |-> reg, src1 |-> << >>, src2 |-> << >>,
                 n |-> n, i |-> 1, dest |-> zeroAddr]
      /\ n \in Nat /\ zeroAddr \in Row
  BY SizeAssumption DEF FetchLoad, TypeInv, TypeOK, Row
<1>2. InsTypeOK' /\ ~IsBinding'
  <2>1. << >> \in Seq(Row) /\ "load" \in RowType
    BY DEF RowType
  <2>2. ins' \in Instruction
    BY <1>1, <2>1 DEF Instruction
  <2> QED BY <1>1, <2>2 DEF InsTypeOK, IsBinding, operation
<1> QED
  BY <1>2
  DEF FetchLoad, TypeInv, TypeOK, InsTypeOK, InsOK, tables, history, Named

LEMMA BindLoadType ==
  ASSUME TypeInv, BindLoad
  PROVE  TypeInv'
<1>1. /\ zeroAddr \in Row /\ zeroAddr \in Nat /\ ins \in Instruction
      /\ ins.destReg \in Vars \cup Temps /\ operation = "load"
  BY DEF BindLoad, Busy, TypeInv, TypeOK, Row, Instruction, operation
<1>2. ArrayOK(limArray')
  <2>1. limArray' = Insert(limArray, zeroAddr,
                      [rowType |-> "load", inputConnections |-> <<NoMemoryInput>>])
    BY DEF BindLoad, addNewRow
  <2>2. "load" \in RowType /\ NoMemoryInput \in InputLine
    BY DEF RowType, InputLine
  <2> QED BY <1>1, <2>1, <2>2, TypeParts, InsertRow DEF TypeInv
<1>3. TimesOK(FSM2')
  BY <1>1 DEF BindLoad, addNewInstruction, TimesOK, Insert, TypeInv, TypeOK
<1>4. NamesOK'
  <2>1. \A x \in DOMAIN arrayNamesMap : arrayNamesMap[x] \in Seq(Row)
    BY DEF TypeInv, TypeOK, Named
  <2>2. arrayNamesMap' = PushBack(arrayNamesMap, ins.destReg, zeroAddr)
    BY DEF BindLoad
  <2>3. /\ DOMAIN PushBack(arrayNamesMap, ins.destReg, zeroAddr)
             = Named \cup {ins.destReg}
        /\ \A x \in Named \cup {ins.destReg} :
             PushBack(arrayNamesMap, ins.destReg, zeroAddr)[x] \in Seq(Row)
    BY <1>1, <2>1, PushBackType DEF Named
  <2>4. Named' = Named \cup {ins.destReg}
    BY <2>2, <2>3, Zenon DEF Named
  <2>5. Named \subseteq Vars \cup Temps /\ ins.destReg \in Vars \cup Temps
    BY <1>1 DEF TypeInv, TypeOK
  <2>6. \A x \in Named' : arrayNamesMap'[x] \in Seq(Row)
    BY <2>2, <2>3, <2>4, Zenon
  <2>7. Named' \subseteq Vars \cup Temps
    BY <2>4, <2>5
  <2> QED BY <2>6, <2>7, Zenon DEF NamesOK
<1>5. InsTypeOK' /\ ~IsBinding'
  <2>1. CASE ins.i = ins.n
    BY <2>1 DEF BindLoad, InsTypeOK, IsBinding, Busy
  <2>2. CASE ins.i # ins.n
    <3>1. ins' = [ins EXCEPT !.i = @ + 1]
      BY <2>2 DEF BindLoad
    <3>2. ins' \in Instruction
      <4>1. ins.i + 1 \in Nat
        BY <1>1 DEF Instruction
      <4> DEFINE n == ins.i + 1
      <4>2. ins' = [ins EXCEPT !.i = n] /\ n \in Nat
        BY <3>1, <4>1
      <4> HIDE DEF n
      <4> QED BY <1>1, <4>2 DEF Instruction
    <3>3. ins'.operation = "load"
      BY <1>1, <3>1 DEF Instruction, operation
    <3> QED BY <3>2, <3>3, Zenon DEF InsTypeOK, IsBinding, operation
  <2> QED BY <2>1, <2>2
<1>6. zeroAddr' \in Nat
  BY <1>1 DEF BindLoad
<1>7. SignalsOK' /\ LastDestOK' /\ ComputesOK' /\ RestOK'
  BY <1>6, TypeParts
  DEF TypeInv, BindLoad, SignalsOK, LastDestOK, ComputesOK, RestOK, history
<1> QED
  BY <1>2, <1>3, <1>4, <1>5, <1>7, TypePartsPrime DEF TypeInv, InsOK

(* The rows an address list picks are rows of the register.                *)
LEMMA RowsOfType ==
  ASSUME TypeOK, NEW reg \in Named, NEW access \in Accesses, Readable(reg, access)
  PROVE  /\ RowsOf(reg, access) \in Seq(Row)
         /\ Len(RowsOf(reg, access)) = Len(access)
         /\ Len(access) \in Nat \ {0}
<1>1. access \in Seq(Nat \ {0}) /\ access # << >>
  BY AccessAssumption
<1>2. DOMAIN access = 1..Len(access) /\ Len(access) \in Nat \ {0}
  BY <1>1
<1>3. arrayNamesMap[reg] \in Seq(Row)
  BY DEF TypeOK
<1>4. \A k \in DOMAIN access : arrayNamesMap[reg][access[k]] \in Row
  <2> TAKE k \in DOMAIN access
  <2>1. access[k] \in Nat \ {0} /\ access[k] <= Len(arrayNamesMap[reg])
    BY <1>1 DEF Readable
  <2>2. access[k] \in 1..Len(arrayNamesMap[reg])
    BY <1>3, <2>1
  <2> QED BY <1>3, <2>2
<1>5. RowsOf(reg, access) = [k \in 1..Len(access) |-> arrayNamesMap[reg][access[k]]]
  BY <1>2 DEF RowsOf
<1>6. RowsOf(reg, access) \in Seq(Row)
  BY <1>2, <1>4, <1>5, IsASeq
<1> QED BY <1>2, <1>5, <1>6

LEMMA FetchOperationType ==
  ASSUME TypeInv, NEW op \in Ops, NEW reg \in Temps,
         NEW reg1 \in Named, NEW reg2 \in Named,
         NEW a1 \in Accesses, NEW a2 \in Accesses,
         FetchOperation(op, reg, reg1, a1, reg2, a2)
  PROVE  TypeInv'
<1> DEFINE n == Maximum(Len(a1), Len(a2))
<1>1. /\ RowsOf(reg1, a1) \in Seq(Row) /\ Len(RowsOf(reg1, a1)) = Len(a1)
      /\ RowsOf(reg2, a2) \in Seq(Row) /\ Len(RowsOf(reg2, a2)) = Len(a2)
      /\ Len(a1) \in Nat \ {0} /\ Len(a2) \in Nat \ {0}
  BY RowsOfType DEF TypeInv, FetchOperation
<1>2. n \in Nat \ {0} /\ Len(a1) \in {1, n} /\ Len(a2) \in {1, n}
  BY <1>1 DEF FetchOperation, Maximum
<1>3. ins' = [operation |-> op, destReg |-> reg,
              src1 |-> RowsOf(reg1, a1), src2 |-> RowsOf(reg2, a2),
              n |-> n, i |-> 1, dest |-> zeroAddr]
  BY DEF FetchOperation
<1> HIDE DEF n
<1>4. zeroAddr \in Nat /\ zeroAddr \in Row /\ zeroAddr' = zeroAddr + 1
  BY DEF TypeInv, TypeOK, FetchOperation, Row
<1>5. InsTypeOK'
  <2>1. ins' \in Instruction
    BY <1>1, <1>2, <1>3, <1>4 DEF Instruction, RowType
  <2> QED BY <2>1 DEF InsTypeOK
<1>6. InsOK'
  <2>1. /\ ins'.dest = zeroAddr /\ ins'.i = 1 /\ ins'.n = n
        /\ ins'.src1 = RowsOf(reg1, a1) /\ ins'.src2 = RowsOf(reg2, a2)
    BY <1>3
  <2>2. ins'.dest = zeroAddr' - 1 /\ ins'.i \in 1..ins'.n
    BY <2>1, <1>2, <1>4
  <2>3. Len(ins'.src1) \in {1, ins'.n} /\ Len(ins'.src2) \in {1, ins'.n}
    BY <2>1, <1>1, <1>2
  <2> QED BY <2>2, <2>3 DEF InsOK, dest
<1>7. zeroAddr' \in Nat
  BY <1>4
<1> QED
  BY <1>5, <1>6, <1>7
  DEF FetchOperation, TypeInv, TypeOK, InsTypeOK, tables, history, Named

(* The other steps change the status, the FSM or a name to come only.      *)
LEMMA FetchConstantOperandType ==
  ASSUME TypeInv, FetchConstantOperand
  PROVE  TypeInv'
<1>1. zeroAddr' = zeroAddr + 1 /\ status' = "name not in arrayNamesMap" /\ ~Busy
  BY Zenon DEF FetchConstantOperand
<1>2. UNCHANGED <<tables, FSM, arrayNamesMap, shiftAmount, ins, history>>
  BY Zenon DEF FetchConstantOperand
<1>3. /\ limArray' = limArray /\ FSM2' = FSM2 /\ lastDestMap' = lastDestMap
      /\ selectionSignalsList' = selectionSignalsList
      /\ arrayNamesMap' = arrayNamesMap /\ shiftAmount' = shiftAmount
      /\ ins' = ins /\ computes' = computes /\ answers' = answers
  BY <1>2 DEF tables, history
<1>4. zeroAddr' \in Nat
  <2>1. zeroAddr \in Nat
    BY DEF TypeInv, TypeOK
  <2>2. zeroAddr' = zeroAddr + 1
    BY <1>1, Zenon
  <2> HIDE DEF TypeInv
  <2> QED BY <2>1, <2>2
<1>5. /\ ArrayOK(limArray') /\ TimesOK(FSM2') /\ SignalsOK' /\ NamesOK'
      /\ LastDestOK' /\ ComputesOK' /\ InsTypeOK' /\ RestOK'
  BY <1>1, <1>3, <1>4, TypeParts
  DEF TypeInv, SignalsOK, NamesOK, Named, LastDestOK, ComputesOK, InsTypeOK, RestOK
<1>6. ~IsBinding'
  BY <1>1, <1>3 DEF IsBinding, Busy
<1> QED BY <1>5, <1>6, TypePartsPrime DEF TypeInv, InsOK

LEMMA MissingRowType ==
  ASSUME TypeInv, MissingRow
  PROVE  TypeInv'
BY DEF MissingRow, TypeInv, TypeOK, InsOK, tables, history, Named, dest,
       IsBinding, Busy, operation

LEMMA FinishType ==
  ASSUME TypeInv, Finish
  PROVE  TypeInv'
BY DEF Finish, TypeInv, TypeOK, InsOK, tables, history, Named, dest,
       IsBinding, Busy, operation

LEMMA TypeInvInit == Init => TypeInv
BY DEF Init, TypeInv, TypeOK, InsOK, IsBinding, Busy, EmptyMap, Named

LEMMA TypeInvStutter ==
  ASSUME TypeInv, UNCHANGED vars
  PROVE  TypeInv'
BY DEF TypeInv, TypeOK, InsOK, vars, Named, IsBinding, Busy, operation, dest

LEMMA TypeInvStep ==
  ASSUME TypeInv, [Next]_vars
  PROVE  TypeInv'
<1>1. ASSUME NEW reg \in Vars, NEW n \in 1..MaxSize, FetchLoad(reg, n)
      PROVE  TypeInv'
  BY <1>1, FetchLoadType
<1>2. CASE BindLoad
  BY <1>2, BindLoadType
<1>3. ASSUME NEW op \in Ops, NEW reg \in Temps, NEW reg1 \in Named, NEW reg2 \in Named,
             NEW a1 \in Accesses, NEW a2 \in Accesses,
             FetchOperation(op, reg, reg1, a1, reg2, a2)
      PROVE  TypeInv'
  BY <1>3, FetchOperationType
<1>4. CASE FetchConstantOperand
  BY <1>4, FetchConstantOperandType
<1>15. CASE MissingRow
  BY <1>15, MissingRowType
<1>16. CASE Finish
  BY <1>16, FinishType
<1>5. CASE ReuseResult
  BY <1>5, ReuseType
<1>6. CASE DropOperation
  BY <1>6, DropType
<1>7. CASE ConvertSrc2
  <2>1. CanBind /\ ~checkIfRowIsLiM(limArray, src2) /\ Convert(src2, src1)
    BY <1>7 DEF ConvertSrc2
  <2>2. src1 \in Row /\ src2 \in Rows
    BY <2>1, CanBindFacts, OperandTypes DEF TypeInv
  <2> QED BY <2>1, <2>2, ConvertType
<1>8. CASE ConvertSrc1
  <2>1. CanBind /\ ~checkIfRowIsLiM(limArray, src1) /\ Convert(src1, src2)
    BY <1>8 DEF ConvertSrc1
  <2>2. src2 \in Row /\ src1 \in Rows
    BY <2>1, CanBindFacts, OperandTypes DEF TypeInv
  <2> QED BY <2>1, <2>2, ConvertType
<1>9. CASE ShareSrc2
  <2>1. CanBind /\ Share(src2, src1)
    BY <1>9 DEF ShareSrc2
  <2>2. src1 \in Row /\ src2 \in Rows
    BY <2>1, CanBindFacts, OperandTypes DEF TypeInv
  <2> QED BY <2>1, <2>2, ShareType
<1>10. CASE ShareSrc1
  <2>1. CanBind /\ Share(src1, src2)
    BY <1>10 DEF ShareSrc1
  <2>2. src2 \in Row /\ src1 \in Rows
    BY <2>1, CanBindFacts, OperandTypes DEF TypeInv
  <2> QED BY <2>1, <2>2, ShareType
<1>11. CASE CopyRow
  BY <1>11, CopyRowType
<1>12. CASE ShiftInPlace
  BY <1>12, ShiftInPlaceType
<1>13. CASE ShiftCopy
  BY <1>13, ShiftCopyType
<1>14. CASE UNCHANGED vars
  BY <1>14, TypeInvStutter
<1> QED
  BY <1>1, <1>2, <1>3, <1>4, <1>5, <1>6, <1>7, <1>8, <1>9, <1>10, <1>11, <1>12,
     <1>13, <1>14, <1>15, <1>16
  DEF Next, performBinding

LEMMA TypeInvariant == Spec => []TypeInv
BY TypeInvInit, TypeInvStep, PTL DEF Spec

(* Every member of the binder keeps its type, shifts, constants and        *)
(* uninitialised row names included: the rows, their lines and states, the *)
(* names and the selection signals are well formed in every reachable      *)
(* state (LiMBinder.cpp:280-460,900-1245).                                 *)
THEOREM TypeCorrect == Spec => []TypeOK
<1>1. TypeInv => TypeOK
  BY DEF TypeInv
<1> QED BY <1>1, TypeInvariant, PTL

-----------------------------------------------------------------------------
(* Programs without shifts.  The invariant relates every table to the rows *)
(* of the array.                                                           *)

(* A row of the array is written in one state, and nothing else is.        *)
Placed == DOMAIN FSM2 = Rows

(* Names still to be given, and the one kept for a result, are of no row.  *)
Fresh ==
  /\ \A r \in Rows : r < zeroAddr
  /\ IsBinding => dest \notin Rows

(* Row d computes what q asks, or lost one operand because it is the row   *)
(* that writes d.                                                          *)
Fed(d, q) == Feeds(d, q) \/ OperandDropped(d, q)

(* What was asked of a row is what the array gives it.                     *)
ResultOK(r) ==
  LET q == computes[r] IN
  /\ r \in Rows /\ q.src1 \in Rows /\ q.src2 \in Rows
  /\ FSM2[q.src1] < FSM2[r] /\ FSM2[q.src2] < FSM2[r]
  /\ Driver(r) \in Rows /\ Fed(Driver(r), q)

Results == \A r \in DOMAIN computes : ResultOK(r)

(* The result remembered for an operand was made of it.                    *)
Remembered ==
  \A x \in DOMAIN lastDestMap :
    /\ lastDestMap[x] \in DOMAIN computes
    /\ \/ x = computes[lastDestMap[x]].src1
       \/ x = computes[lastDestMap[x]].src2

(* No answer names the row kept for the result being bound, and a result   *)
(* is an answer to what is asked of it.                                    *)
Answered ==
  \A a \in answers :
    /\ a.row < zeroAddr
    /\ IsBinding => a.row # dest
    /\ a.row \in DOMAIN computes /\ a.src1 # a.src2 => SameQuestion(computes[a.row], a)

(* Every row has one line until it is LiM, then two or, if a multiplexer   *)
(* selects one of them, three.                                             *)
LinesOK(arr, signals) ==
  \A r \in DOMAIN arr :
    LET lines == arr[r].inputConnections IN
    /\ Len(lines) \in 1..3
    /\ arr[r].rowType = "load" => Len(lines) = 1
    /\ Len(lines) = 3 => \E k \in DOMAIN signals : signals[k].destRow = r

(* No state before a used one is empty, and a LiM row has a later result.  *)
Steady(arr, f) ==
  /\ \A r \in DOMAIN f : \A t \in 0..f[r] : \E p \in DOMAIN f : f[p] = t
  /\ \A r \in DOMAIN arr : arr[r].rowType # "load" => \E p \in DOMAIN f : f[r] < f[p]

Transformed == status = "done" => FSM = transform(FSM2)

BindInv ==
  /\ TypeInv
  /\ Placed
  /\ Fresh
  /\ Results
  /\ Remembered
  /\ Answered
  /\ LinesOK(limArray, selectionSignalsList)
  /\ Steady(limArray, FSM2)
  /\ IsFiniteSet(Rows)
  /\ Transformed

(* Some states select an operand of row x, now and after the step.         *)
HasSignal(x) ==
  \E k \in DOMAIN selectionSignalsList : selectionSignalsList[k].destRow = x

SignalsKept == \A x : HasSignal(x) => HasSignal(x)'

(* Row d of arr combines s1 and s2: it is one of them and is wired to the  *)
(* other, it is a new row that copies s1 and is wired to s2, or it is one  *)
(* of them, has states that select, and the other is the row writing it.   *)
WiredTo(arr, d, x) ==
  \E k \in 2..Len(arr[d].inputConnections) : arr[d].inputConnections[k] = x

Combines(arr, d, s1, s2) ==
  \/ d = s2 /\ WiredTo(arr, d, s1)
  \/ d = s1 /\ WiredTo(arr, d, s2)
  \/ d \notin Rows /\ arr[d].inputConnections = Append(<<s1>>, s2)
  \/ {s1, s2} = {d, Head(arr[d].inputConnections)} /\ HasSignal(d)'

(* What the five binding branches have in common: row of arr has the logic *)
(* and both operands, time is after both, and the array and the states     *)
(* before the result is added are as sound as they were.                   *)
Bound(arr, fsm2, row, time, name) ==
  /\ ArrayOK(arr) /\ ExtendsArray(limArray, arr)
  /\ TimesOK(fsm2) /\ DOMAIN fsm2 = DOMAIN arr
  /\ \A r \in Rows : fsm2[r] = FSM2[r]
  /\ row \in DOMAIN arr /\ arr[row].rowType = operation
  /\ Combines(arr, row, src1, src2) /\ SignalsKept
  /\ time \in Nat /\ FSM2[src1] < time /\ FSM2[src2] < time
  /\ src1 \in Rows /\ src2 \in Rows
  /\ dest \notin DOMAIN arr
  /\ name \in Nat /\ dest < name /\ \A r \in DOMAIN arr : r < name
  /\ AddResult(arr, fsm2, row, time)
  /\ NextElement(name)

(* The tables after such a branch.                                         *)
Tables(arr, fsm2, row, time, name) ==
  /\ dest \in Row /\ zeroAddr' = name + 1 /\ (IsBinding' => dest' = name)
  /\ DOMAIN limArray' = DOMAIN arr \cup {dest} /\ Rows \subseteq DOMAIN arr
  /\ \A r \in DOMAIN arr : limArray'[r] = arr[r]
  /\ limArray'[dest] = [rowType |-> "load", inputConnections |-> <<row>>]
  /\ DOMAIN FSM2' = DOMAIN arr \cup {dest}
  /\ \A r \in DOMAIN arr : FSM2'[r] = fsm2[r]
  /\ \A r \in Rows : FSM2'[r] = FSM2[r]
  /\ FSM2'[dest] = time
  /\ DOMAIN computes' = DOMAIN computes \cup {dest}
  /\ dest \notin DOMAIN computes
  /\ \A r \in DOMAIN computes : computes'[r] = computes[r]
  /\ computes'[dest] = Asked(dest)
  /\ DOMAIN lastDestMap' = DOMAIN lastDestMap \cup {src1, src2}
  /\ \A x \in DOMAIN lastDestMap : lastDestMap'[x] = lastDestMap[x]
  /\ \A x \in DOMAIN lastDestMap' \ DOMAIN lastDestMap : lastDestMap'[x] = dest
  /\ answers' = answers \cup {Asked(dest)}

LEMMA BoundTables ==
  ASSUME BindInv, IsBinding,
         NEW arr, NEW fsm2, NEW row, NEW time, NEW name,
         Bound(arr, fsm2, row, time, name)
  PROVE  Tables(arr, fsm2, row, time, name)
<1>1. /\ TypeOK /\ InsOK /\ dest \in Row /\ name \in Nat /\ NextElement(name)
  BY OperandTypes DEF BindInv, TypeInv, Bound
<1>2. zeroAddr' = name + 1 /\ (IsBinding' => dest' = name)
  BY <1>1, NextElementType
<1>3. /\ AddResult(arr, fsm2, row, time) /\ dest \notin DOMAIN arr
      /\ DOMAIN fsm2 = DOMAIN arr /\ \A r \in Rows : fsm2[r] = FSM2[r]
      /\ Rows \subseteq DOMAIN arr
  BY DEF Bound, ExtendsArray, Rows
<1>4. /\ DOMAIN limArray' = DOMAIN arr \cup {dest}
      /\ \A r \in DOMAIN arr : limArray'[r] = arr[r]
      /\ limArray'[dest] = [rowType |-> "load", inputConnections |-> <<row>>]
  <2>1. limArray' = Insert(arr, dest, [rowType |-> "load", inputConnections |-> <<row>>])
    BY <1>3 DEF AddResult, addNewResultRow
  <2>2. dest \notin DOMAIN arr
    BY <1>3
  <2> HIDE DEF Bound, BindInv
  <2> QED BY <2>1, <2>2 DEF Insert
<1>5. /\ DOMAIN FSM2' = DOMAIN arr \cup {dest}
      /\ \A r \in DOMAIN arr : FSM2'[r] = fsm2[r]
      /\ FSM2'[dest] = time
  <2>1. FSM2' = Insert(fsm2, dest, time)
    BY <1>3 DEF AddResult, addNewInstruction
  <2>2. dest \notin DOMAIN fsm2 /\ DOMAIN fsm2 = DOMAIN arr
    BY <1>3
  <2> QED BY <2>1, <2>2 DEF Insert
<1>6. dest \notin DOMAIN computes
  BY <1>3 DEF BindInv, Results, ResultOK
<1>7. /\ DOMAIN computes' = DOMAIN computes \cup {dest}
      /\ \A r \in DOMAIN computes : computes'[r] = computes[r]
      /\ computes'[dest] = Asked(dest)
  <2>1. computes' = Insert(computes, dest, Asked(dest))
    BY <1>3 DEF AddResult
  <2> QED BY <1>6, <2>1 DEF Insert
<1>8. /\ DOMAIN lastDestMap' = DOMAIN lastDestMap \cup {src1, src2}
      /\ \A x \in DOMAIN lastDestMap : lastDestMap'[x] = lastDestMap[x]
      /\ \A x \in DOMAIN lastDestMap' \ DOMAIN lastDestMap : lastDestMap'[x] = dest
  <2> DEFINE once == Insert(lastDestMap, src1, dest)
  <2>1. lastDestMap' = Insert(once, src2, dest)
    BY <1>3 DEF AddResult
  <2>2. /\ DOMAIN once = DOMAIN lastDestMap \cup {src1}
        /\ \A x \in DOMAIN lastDestMap : once[x] = lastDestMap[x]
        /\ src1 \notin DOMAIN lastDestMap => once[src1] = dest
    BY InsertFacts
  <2> HIDE DEF once
  <2>3. /\ DOMAIN lastDestMap' = DOMAIN once \cup {src2}
        /\ \A x \in DOMAIN once : lastDestMap'[x] = once[x]
        /\ src2 \notin DOMAIN once => lastDestMap'[src2] = dest
    BY <2>1 DEF Insert
  <2> QED BY <2>2, <2>3
<1>9. answers' = answers \cup {Asked(dest)}
  BY <1>3 DEF AddResult, AnswerDest
<1> QED BY <1>1, <1>2, <1>3, <1>4, <1>5, <1>6, <1>7, <1>8, <1>9 DEF Tables

LEMMA Pair ==
  ASSUME NEW a, NEW b
  PROVE  /\ Len(Append(<<a>>, b)) = 2
         /\ Append(<<a>>, b)[1] = a /\ Append(<<a>>, b)[2] = b
<1>1. <<a>> \in Seq({a, b}) /\ Len(<<a>>) = 1 /\ <<a>>[1] = a
  OBVIOUS
<1> QED BY <1>1, AppendProperties

(* The first line of a row, its driver if it is a result, stays first.     *)
LEMMA FirstLineKept ==
  ASSUME NEW old, NEW new, ArrayOK(old), ArrayOK(new), ExtendsArray(old, new),
         NEW r \in DOMAIN old, Len(old[r].inputConnections) \in 1..3
  PROVE  Head(new[r].inputConnections) = Head(old[r].inputConnections)
<1>1. r \in DOMAIN new
  BY DEF ExtendsArray
<1>2. /\ old[r].inputConnections \in Seq(InputLine)
      /\ new[r].inputConnections \in Seq(InputLine)
  BY <1>1 DEF ArrayOK
<1>3. Len(old[r].inputConnections) <= Len(new[r].inputConnections)
  BY DEF ExtendsArray
<1>4. new[r].inputConnections[1] = old[r].inputConnections[1]
  BY DEF ExtendsArray
<1>5. /\ Head(old[r].inputConnections) = old[r].inputConnections[1]
      /\ Head(new[r].inputConnections) = new[r].inputConnections[1]
  BY <1>2, <1>3
<1> QED BY <1>4, <1>5

(* A row that computes what was asked goes on to, whatever it is given.    *)
LEMMA FedKept ==
  ASSUME ArrayOK(limArray), ArrayOK(limArray'), ExtendsArray(limArray, limArray'),
         SignalsKept, NEW d \in Rows, NEW q, q.operation # "load",
         Len(limArray[d].inputConnections) \in 1..3,
         d \notin DOMAIN computes => d \notin DOMAIN computes',
         Fed(d, q)
  PROVE  Fed(d, q)'
<1> DEFINE old == limArray[d].inputConnections
           new == limArray'[d].inputConnections
<1>1. Driver(d)' = Driver(d)
  BY FirstLineKept DEF Driver, Rows
<1>2. limArray[d].rowType = q.operation => limArray'[d].rowType = q.operation
  BY DEF ExtendsArray, Rows
<1>3. \A x : ReadsLine(d, x) => ReadsLine(d, x)'
  <2>1. /\ Len(old) \in Nat /\ Len(new) \in Nat /\ Len(old) <= Len(new)
        /\ \A k \in 1..Len(old) : new[k] = old[k]
    <3>1. d \in DOMAIN limArray /\ d \in DOMAIN limArray'
      BY DEF Rows, ExtendsArray
    <3>2. Len(old) \in Nat /\ Len(new) \in Nat
      BY <3>1 DEF ArrayOK
    <3> QED BY <3>1, <3>2 DEF ExtendsArray
  <2> HIDE DEF old, new
  <2>2. \A k \in 2..Len(old) : k \in 2..Len(new) /\ new[k] = old[k]
    BY <2>1
  <2>3. ASSUME NEW x, \E k \in 2..Len(old) : old[k] = x
        PROVE  \E k \in 2..Len(new) : new[k] = x
    BY <2>2, <2>3
  <2> QED BY <2>3, Zenon DEF ReadsLine, old, new
<1>4. HasSignal(d) => HasSignal(d)'
  BY DEF SignalsKept
<1>5. CASE Feeds(d, q)
  <2> HIDE DEF old, new
  <2>1. Feeds(d, q)'
    BY <1>1, <1>2, <1>3, <1>5, Zenon DEF Feeds
  <2> QED BY <2>1 DEF Fed
<1>6. CASE OperandDropped(d, q)
  <2>1. OperandDropped(d, q)'
    BY <1>1, <1>2, <1>4, <1>6, Zenon DEF OperandDropped, HasSignal
  <2> QED BY <2>1 DEF Fed
<1> QED BY <1>5, <1>6 DEF Fed

(* A result keeps its state, its driver and its operands.                  *)
LEMMA ResultKept ==
  ASSUME BindInv, ArrayOK(limArray'), ExtendsArray(limArray, limArray'),
         \A r \in Rows : FSM2'[r] = FSM2[r], SignalsKept,
         \A r \in DOMAIN computes' \ DOMAIN computes : r \notin Rows,
         NEW r \in DOMAIN computes, computes'[r] = computes[r]
  PROVE  ResultOK(r)'
<1>1. PICK q, d : q = computes[r] /\ d = Driver(r)
  OBVIOUS
<1>2. /\ r \in Rows /\ q.src1 \in Rows /\ q.src2 \in Rows
      /\ FSM2[q.src1] < FSM2[r] /\ FSM2[q.src2] < FSM2[r]
      /\ d \in Rows /\ Fed(d, q)
  BY <1>1 DEF BindInv, Results, ResultOK
<1>3. Rows \subseteq Rows'
  BY DEF ExtendsArray, Rows
<1>4. ArrayOK(limArray) /\ q.operation \in Ops
  BY <1>1, TypeParts DEF BindInv, TypeInv, TypeOK, Question
<1>5. \A x \in Rows : Len(limArray[x].inputConnections) \in 1..3
  BY DEF BindInv, LinesOK, Rows
<1>6. Driver(r)' = d /\ computes'[r] = q
  BY <1>1, <1>2, <1>4, <1>5, FirstLineKept DEF Driver, Rows
<1>7. Fed(d, q)'
  <2>1. q.operation # "load"
    BY <1>4, OpsAssumption
  <2>2. d \notin DOMAIN computes => d \notin DOMAIN computes'
    BY <1>2
  <2> QED BY <1>2, <1>4, <1>5, <2>1, <2>2, FedKept
<1>8. FSM2'[r] = FSM2[r] /\ FSM2'[q.src1] = FSM2[q.src1] /\ FSM2'[q.src2] = FSM2[q.src2]
  BY <1>2
<1> QED BY <1>2, <1>3, <1>6, <1>7, <1>8 DEF ResultOK

(* Steps that leave the tables alone leave the results as they are.        *)
LEMMA ResultsUnchanged ==
  ASSUME Results, limArray' = limArray, FSM2' = FSM2, computes' = computes,
         selectionSignalsList' = selectionSignalsList
  PROVE  Results'
<1>1. ASSUME NEW r PROVE Driver(r)' = Driver(r)
  BY DEF Driver
<1>2. ASSUME NEW d, NEW q, Fed(d, q) PROVE Fed(d, q)'
  <2>1. ASSUME NEW x PROVE ReadsLine(d, x)' <=> ReadsLine(d, x)
    BY DEF ReadsLine
  <2>2. Feeds(d, q) => Feeds(d, q)'
    BY <1>1, <2>1, Zenon DEF Feeds
  <2>3. OperandDropped(d, q) => OperandDropped(d, q)'
    BY <1>1, Zenon DEF OperandDropped
  <2> QED BY <1>2, <2>2, <2>3, Zenon DEF Fed
<1>3. ASSUME NEW r \in DOMAIN computes PROVE ResultOK(r)'
  <2>1. PICK q, d : q = computes[r] /\ d = Driver(r)
    OBVIOUS
  <2>2. ResultOK(r)
    BY DEF Results
  <2>3. q = computes'[r] /\ d = Driver(r)'
    BY <1>1, <2>1
  <2>4. Fed(d, q)'
    BY <1>2, <2>1, <2>2 DEF ResultOK
  <2>5. Fed(Driver(r), computes[r])'
    BY <2>3, <2>4
  <2> QED BY <2>1, <2>2, <2>3, <2>5 DEF ResultOK, Rows
<1> QED BY <1>3 DEF Results

(* The row that combines the operands of a new result computes it.         *)
LEMMA CombinesFeeds ==
  ASSUME NEW arr, ArrayOK(arr), NEW d \in DOMAIN arr, NEW s1, NEW s2, NEW q,
         q.src1 = s1, q.src2 = s2, arr[d].rowType = q.operation,
         Combines(arr, d, s1, s2), limArray'[d] = arr[d],
         d \notin Rows => d \notin DOMAIN computes'
  PROVE  Fed(d, q)'
<1> DEFINE lines == arr[d].inputConnections
<1>1. /\ limArray'[d].rowType = q.operation /\ limArray'[d].inputConnections = lines
      /\ Driver(d)' = Head(lines)
  BY DEF Driver
<1>2. \A x : WiredTo(arr, d, x) => ReadsLine(d, x)'
  BY <1>1 DEF WiredTo, ReadsLine
<1>3. CASE d = s2 /\ WiredTo(arr, d, s1)
  BY <1>1, <1>2, <1>3 DEF Fed, Feeds
<1>4. CASE d = s1 /\ WiredTo(arr, d, s2)
  BY <1>1, <1>2, <1>4 DEF Fed, Feeds
<1>5. CASE d \notin Rows /\ lines = Append(<<s1>>, s2)
  <2>1. Len(lines) = 2 /\ lines[1] = s1 /\ lines[2] = s2 /\ lines \in Seq(InputLine)
    BY <1>5, Pair DEF ArrayOK
  <2> HIDE DEF lines
  <2>2. Head(lines) = s1
    BY <2>1
  <2>3. \E k \in 2..Len(lines) : lines[k] = s2
    BY <2>1
  <2>4. ReadsLine(d, s2)'
    BY <1>1, <2>3, Zenon DEF ReadsLine
  <2> QED BY <1>1, <1>5, <2>2, <2>4 DEF Fed, Feeds
<1>6. CASE {s1, s2} = {d, Head(lines)} /\ HasSignal(d)'
  BY <1>1, <1>6 DEF Fed, OperandDropped, HasSignal
<1> QED BY <1>3, <1>4, <1>5, <1>6 DEF Combines

(* A binding branch answers the element soundly.                           *)
LEMMA BoundResults ==
  ASSUME BindInv, IsBinding, ArrayOK(limArray'), operation \in Ops,
         NEW arr, NEW fsm2, NEW row, NEW time, NEW name,
         Bound(arr, fsm2, row, time, name), Tables(arr, fsm2, row, time, name),
         ExtendsArray(limArray, limArray')
  PROVE  Results'
<1>1. /\ DOMAIN limArray' = DOMAIN arr \cup {dest} /\ Rows \subseteq DOMAIN arr
      /\ \A r \in DOMAIN arr : limArray'[r] = arr[r]
      /\ limArray'[dest] = [rowType |-> "load", inputConnections |-> <<row>>]
      /\ \A r \in Rows : FSM2'[r] = FSM2[r]
      /\ FSM2'[dest] = time
      /\ DOMAIN computes' = DOMAIN computes \cup {dest}
      /\ \A r \in DOMAIN computes : computes'[r] = computes[r]
      /\ computes'[dest] = Asked(dest)
  BY DEF Tables
<1>2. /\ ArrayOK(arr) /\ row \in DOMAIN arr /\ arr[row].rowType = operation
      /\ Combines(arr, row, src1, src2) /\ SignalsKept
      /\ FSM2[src1] < time /\ FSM2[src2] < time /\ dest \notin DOMAIN arr
      /\ src1 \in Rows /\ src2 \in Rows
  BY DEF Bound
<1>3. ASSUME NEW r \in DOMAIN computes
      PROVE  ResultOK(r)'
  <2>1. \A x \in DOMAIN computes' \ DOMAIN computes : x \notin Rows
    BY <1>1, <1>2
  <2> QED BY <1>1, <1>2, <2>1, ResultKept
<1>4. ASSUME NEW r, r = dest
      PROVE  ResultOK(r)'
  <2>0. PICK q : q = Asked(dest)
    OBVIOUS
  <2>1. computes'[r] = q /\ q.src1 = src1 /\ q.src2 = src2 /\ q.operation = operation
    BY <1>1, <1>4, <2>0 DEF Asked
  <2>2. /\ r \in Rows' /\ q.src1 \in Rows' /\ q.src2 \in Rows'
        /\ FSM2'[q.src1] < FSM2'[r] /\ FSM2'[q.src2] < FSM2'[r]
    BY <1>1, <1>2, <1>4, <2>1 DEF Rows
  <2>3. Driver(r)' = row /\ row \in Rows'
    BY <1>1, <1>2, <1>4 DEF Driver, Rows
  <2>4. row \notin Rows => row \notin DOMAIN computes'
    <3>1. DOMAIN computes \subseteq Rows
      BY DEF BindInv, Results, ResultOK
    <3> QED BY <1>1, <1>2, <3>1
  <2>5. Fed(row, q)'
    BY <1>1, <1>2, <2>1, <2>4, CombinesFeeds
  <2>6. Fed(Driver(r), computes[r])'
    BY <2>1, <2>3, <2>5
  <2> QED BY <2>1, <2>2, <2>3, <2>6 DEF ResultOK
<1> QED BY <1>1, <1>3, <1>4 DEF Results

LEMMA BoundRemembered ==
  ASSUME BindInv, IsBinding,
         NEW arr, NEW fsm2, NEW row, NEW time, NEW name,
         Tables(arr, fsm2, row, time, name)
  PROVE  Remembered'
<1> SUFFICES ASSUME NEW x \in DOMAIN lastDestMap'
             PROVE  /\ lastDestMap'[x] \in DOMAIN computes'
                    /\ \/ x = computes'[lastDestMap'[x]].src1
                       \/ x = computes'[lastDestMap'[x]].src2
  BY DEF Remembered
<1>1. /\ DOMAIN computes' = DOMAIN computes \cup {dest}
      /\ \A r \in DOMAIN computes : computes'[r] = computes[r]
      /\ computes'[dest] = Asked(dest)
  BY DEF Tables
<1>2. /\ DOMAIN lastDestMap' = DOMAIN lastDestMap \cup {src1, src2}
      /\ \A y \in DOMAIN lastDestMap : lastDestMap'[y] = lastDestMap[y]
      /\ \A y \in DOMAIN lastDestMap' \ DOMAIN lastDestMap : lastDestMap'[y] = dest
  BY DEF Tables
<1>3. CASE x \in DOMAIN lastDestMap
  BY <1>1, <1>2, <1>3 DEF BindInv, Remembered
<1>4. CASE x \notin DOMAIN lastDestMap
  <2>1. lastDestMap'[x] = dest /\ (x = src1 \/ x = src2)
    BY <1>2, <1>4
  <2>2. Asked(dest).src1 = src1 /\ Asked(dest).src2 = src2
    BY DEF Asked
  <2> QED BY <1>1, <2>1, <2>2
<1> QED BY <1>3, <1>4

LEMMA BoundAnswered ==
  ASSUME BindInv, IsBinding,
         NEW arr, NEW fsm2, NEW row, NEW time, NEW name,
         Bound(arr, fsm2, row, time, name), Tables(arr, fsm2, row, time, name)
  PROVE  Answered'
<1>1. /\ DOMAIN computes' = DOMAIN computes \cup {dest}
      /\ \A r \in DOMAIN computes : computes'[r] = computes[r]
      /\ computes'[dest] = Asked(dest)
      /\ answers' = answers \cup {Asked(dest)}
  BY DEF Tables
<1>2. /\ zeroAddr' = name + 1 /\ (IsBinding' => dest' = name)
      /\ dest \in Nat /\ name \in Nat /\ dest < name
  BY DEF Tables, Bound, Row
<1>3. zeroAddr \in Nat /\ dest = zeroAddr - 1
  BY OperandTypes DEF BindInv, TypeInv
<1>4. ASSUME NEW a \in answers
      PROVE  /\ a.row < zeroAddr' /\ (IsBinding' => a.row # dest')
             /\ a.row \in DOMAIN computes' /\ a.src1 # a.src2 =>
                  SameQuestion(computes'[a.row], a)
  <2>1. /\ a.row \in Nat /\ a.row < zeroAddr /\ a.row # dest
        /\ a.row \in DOMAIN computes /\ a.src1 # a.src2 => SameQuestion(computes[a.row], a)
    BY DEF BindInv, TypeInv, TypeOK, Question, Answered, Row
  <2>2. a.row < name
    BY <1>2, <1>3, <2>1
  <2> QED BY <1>1, <1>2, <2>1, <2>2
<1>5. /\ Asked(dest).row < zeroAddr' /\ (IsBinding' => Asked(dest).row # dest')
      /\ SameQuestion(computes'[Asked(dest).row], Asked(dest))
  <2>1. Asked(dest).row = dest
    BY DEF Asked
  <2> QED BY <1>1, <1>2, <2>1 DEF SameQuestion
<1> QED BY <1>1, <1>4, <1>5 DEF Answered

(* The other conjuncts, the lines being those of arr and one more row.     *)
LEMMA BoundFresh ==
  ASSUME BindInv, IsBinding,
         NEW arr, NEW fsm2, NEW row, NEW time, NEW name,
         Bound(arr, fsm2, row, time, name), Tables(arr, fsm2, row, time, name)
  PROVE  Placed' /\ Fresh'
<1>1. /\ Rows' = DOMAIN arr \cup {dest} /\ DOMAIN FSM2' = DOMAIN arr \cup {dest}
      /\ zeroAddr' = name + 1 /\ (IsBinding' => dest' = name)
      /\ dest \in Nat /\ name \in Nat /\ dest < name
      /\ DOMAIN arr \subseteq Nat /\ \A r \in DOMAIN arr : r < name
  BY DEF Tables, Bound, Rows, Row, ArrayOK
<1> QED BY <1>1 DEF Placed, Fresh

LEMMA BoundLines ==
  ASSUME NEW arr, NEW fsm2, NEW row, NEW time, NEW name,
         Tables(arr, fsm2, row, time, name), LinesOK(arr, selectionSignalsList')
  PROVE  LinesOK(limArray', selectionSignalsList')
<1>1. /\ DOMAIN limArray' = DOMAIN arr \cup {dest}
      /\ \A r \in DOMAIN arr : limArray'[r] = arr[r]
      /\ limArray'[dest] = [rowType |-> "load", inputConnections |-> <<row>>]
  BY DEF Tables
<1>2. Len(<<row>>) = 1
  OBVIOUS
<1> QED BY <1>1, <1>2 DEF LinesOK

(* A result in the state after the last used one, or a used one, leaves no *)
(* gap; row gets a later result.                                           *)
LEMMA BoundSteady ==
  ASSUME BindInv, NEW arr, NEW fsm2, NEW row, NEW time, NEW name,
         Bound(arr, fsm2, row, time, name), Tables(arr, fsm2, row, time, name),
         \A r \in DOMAIN fsm2 : \A t \in 0..fsm2[r] : \E p \in DOMAIN fsm2 : fsm2[p] = t,
         \A t \in 0..(time - 1) : \E p \in DOMAIN fsm2 : fsm2[p] = t,
         fsm2[row] < time,
         \A r \in DOMAIN arr : arr[r].rowType # "load" =>
           r = row \/ \E p \in DOMAIN fsm2 : fsm2[r] < fsm2[p]
  PROVE  Steady(limArray', FSM2')
<1>1. /\ DOMAIN limArray' = DOMAIN arr \cup {dest}
      /\ \A r \in DOMAIN arr : limArray'[r] = arr[r]
      /\ limArray'[dest].rowType = "load"
      /\ DOMAIN FSM2' = DOMAIN fsm2 \cup {dest} /\ DOMAIN fsm2 = DOMAIN arr
      /\ \A r \in DOMAIN fsm2 : FSM2'[r] = fsm2[r]
      /\ FSM2'[dest] = time
  BY DEF Tables, Bound
<1>2. time \in Nat /\ \A r \in DOMAIN fsm2 : fsm2[r] \in Nat
  BY DEF Bound, TimesOK
<1>3. \A r \in DOMAIN FSM2' : \A t \in 0..FSM2'[r] : \E p \in DOMAIN FSM2' : FSM2'[p] = t
  <2> SUFFICES ASSUME NEW r \in DOMAIN FSM2', NEW t \in 0..FSM2'[r]
               PROVE  \E p \in DOMAIN FSM2' : FSM2'[p] = t
    OBVIOUS
  <2>1. CASE r \in DOMAIN fsm2
    <3>1. PICK p \in DOMAIN fsm2 : fsm2[p] = t
      BY <1>1, <2>1
    <3> QED BY <1>1, <3>1
  <2>2. CASE r = dest /\ t = time
    BY <1>1, <2>2
  <2>3. CASE r = dest /\ t # time
    <3>1. t \in 0..(time - 1)
      BY <1>1, <1>2, <2>3
    <3>2. PICK p \in DOMAIN fsm2 : fsm2[p] = t
      BY <3>1
    <3> QED BY <1>1, <3>2
  <2> QED BY <1>1, <2>1, <2>2, <2>3
<1>4. \A r \in DOMAIN limArray' :
        limArray'[r].rowType # "load" => \E p \in DOMAIN FSM2' : FSM2'[r] < FSM2'[p]
  <2> SUFFICES ASSUME NEW r \in DOMAIN arr, arr[r].rowType # "load"
               PROVE  \E p \in DOMAIN FSM2' : FSM2'[r] < FSM2'[p]
    BY <1>1
  <2>1. CASE r = row
    BY <1>1, <2>1
  <2>2. CASE r # row
    <3>1. PICK p \in DOMAIN fsm2 : fsm2[r] < fsm2[p]
      BY <2>2
    <3> QED BY <1>1, <3>1
  <2> QED BY <2>1, <2>2
<1> QED BY <1>3, <1>4 DEF Steady

(* A binding branch preserves the invariant.                               *)
LEMMA BoundInv ==
  ASSUME BindInv, IsBinding, status = "running", operation \in Ops, TypeInv',
         NEW arr, NEW fsm2, NEW row, NEW time, NEW name,
         Bound(arr, fsm2, row, time, name),
         LinesOK(arr, selectionSignalsList'), IsFiniteSet(DOMAIN arr),
         \A r \in DOMAIN fsm2 : \A t \in 0..fsm2[r] : \E p \in DOMAIN fsm2 : fsm2[p] = t,
         \A t \in 0..(time - 1) : \E p \in DOMAIN fsm2 : fsm2[p] = t,
         fsm2[row] < time,
         \A r \in DOMAIN arr : arr[r].rowType # "load" =>
           r = row \/ \E p \in DOMAIN fsm2 : fsm2[r] < fsm2[p]
  PROVE  BindInv'
<1>1. Tables(arr, fsm2, row, time, name)
  BY BoundTables
<1>2. ArrayOK(limArray) /\ ArrayOK(limArray') /\ ArrayOK(arr)
  BY TypeParts, TypePartsPrime DEF BindInv, TypeInv, Bound
<1>3. ExtendsArray(limArray, limArray')
  <2>1. ExtendsArray(arr, arr) /\ ExtendsArray(limArray, arr)
    BY <1>2, ExtendsReflexive DEF Bound
  <2>2. ExtendsArray(arr, limArray')
    <3>1. /\ DOMAIN limArray' = DOMAIN arr \cup {dest}
          /\ \A r \in DOMAIN arr : limArray'[r] = arr[r]
      BY <1>1 DEF Tables
    <3> QED BY <2>1, <3>1 DEF ExtendsArray
  <2> QED BY <1>2, <2>1, <2>2, ExtendsTransitive
<1>4. Results'
  BY <1>1, <1>2, <1>3, BoundResults
<1>5. Remembered' /\ Answered' /\ Placed' /\ Fresh'
  BY <1>1, BoundRemembered, BoundAnswered, BoundFresh
<1>6. LinesOK(limArray', selectionSignalsList')
  BY <1>1, BoundLines
<1>7. Steady(limArray', FSM2')
  BY <1>1, BoundSteady
<1>8. IsFiniteSet(Rows')
  <2>1. Rows' = DOMAIN arr \cup {dest}
    BY <1>1 DEF Tables, Rows
  <2> QED BY <2>1, FS_AddElement
<1>9. Transformed'
  BY DEF Bound, AddResult, Transformed
<1> QED BY <1>4, <1>5, <1>6, <1>7, <1>8, <1>9 DEF BindInv

(* The state after both operands is used by a result of one of them, or is *)
(* the first after them all; every one before is used.                     *)
LEMMA StatesBefore ==
  ASSUME BindInv, CanBind
  PROVE  \A t \in 0..(activeTime - 1) : \E p \in DOMAIN FSM2 : FSM2[p] = t
<1>1. PICK r \in DOMAIN FSM2 : activeTime = FSM2[r] + 1
  BY CanBindFacts DEF BindInv, TypeInv
<1>2. FSM2[r] \in Nat
  BY DEF BindInv, TypeInv, TypeOK
<1>3. activeTime - 1 = FSM2[r]
  BY <1>1, <1>2
<1> QED BY <1>3 DEF BindInv, Steady

(* The second line of row is x.                                            *)
SecondIs(arr, row, x) ==
  Len(arr[row].inputConnections) >= 2 /\ arr[row].inputConnections[2] = x

(* A line added to a list that has one is no first line.                   *)
LEMMA AppendedIsWired ==
  ASSUME NEW arr, NEW row, NEW list \in Seq(InputLine), NEW other \in InputLine,
         Len(list) >= 1, arr[row].inputConnections = Append(list, other)
  PROVE  WiredTo(arr, row, other)
<1>1. /\ Len(Append(list, other)) = Len(list) + 1
      /\ Append(list, other)[Len(list) + 1] = other /\ Len(list) \in Nat
  BY AppendProperties
<1>2. Len(list) + 1 \in 2..Len(Append(list, other))
  BY <1>1
<1> QED BY <1>1, <1>2 DEF WiredTo

LEMMA ConvertInv ==
  ASSUME BindInv, TypeInv', CanBind, NEW row, NEW other,
         (row = src1 /\ other = src2) \/ (row = src2 /\ other = src1),
         ~checkIfRowIsLiM(limArray, row), Convert(row, other)
  PROVE  /\ BindInv'
         /\ \E arr : /\ Bound(arr, FSM2, row, activeTime, zeroAddr) /\ DOMAIN arr = Rows
                     /\ SecondIs(arr, row, other)
<1> DEFINE arr == addNewInputConnection(
                    changeLiMRowType(limArray, row, operation), row, other)
<1>1. /\ TypeOK /\ InsOK /\ IsBinding /\ status = "running"
      /\ src1 \in Rows /\ src2 \in Rows
      /\ activeTime \in Nat /\ FSM2[src1] < activeTime /\ FSM2[src2] < activeTime
  BY CanBindFacts DEF BindInv, TypeInv
<1>2. /\ operation \in Ops /\ zeroAddr \in Nat /\ dest = zeroAddr - 1 /\ dest \in Nat
      /\ row \in Rows /\ other \in Row
  BY <1>1, OperandTypes DEF Row
<1>3. /\ Rows \subseteq Nat /\ DOMAIN FSM2 = Rows /\ TimesOK(FSM2)
      /\ \A r \in Rows : r < zeroAddr
      /\ dest \notin Rows /\ LinesOK(limArray, selectionSignalsList)
      /\ Steady(limArray, FSM2) /\ IsFiniteSet(Rows)
  BY <1>1, TypeParts DEF BindInv, Placed, Fresh, ArrayOK, Rows, Row
<1>4. /\ ArrayOK(arr) /\ ExtendsArray(limArray, arr) /\ DOMAIN arr = Rows
      /\ arr[row].rowType = operation
      /\ Listed(arr[row].inputConnections, other)
      /\ Len(limArray[row].inputConnections) = 1 =>
           arr[row].inputConnections = Append(limArray[row].inputConnections, other)
      /\ \A r \in Rows : r # row => arr[r] = limArray[r]
  BY <1>1, <1>2, ConvertArray
<1>5. /\ AddResult(arr, FSM2, row, activeTime) /\ NextElement(zeroAddr)
      /\ selectionSignalsList' = selectionSignalsList
  BY DEF Convert
<1> HIDE DEF arr
<1>6. Combines(arr, row, src1, src2) /\ SignalsKept
  <2>1. Len(limArray[row].inputConnections) = 1 /\ limArray[row] \in
          [rowType : RowType, inputConnections : Seq(InputLine)]
    BY <1>1, <1>2, <1>3 DEF LinesOK, checkIfRowIsLiM, Rows, TypeOK
  <2>2. arr[row].inputConnections = Append(limArray[row].inputConnections, other)
    BY <1>4, <2>1
  <2>3. limArray[row].inputConnections \in Seq(InputLine) /\ other \in InputLine
    BY <1>2, <2>1 DEF InputLine
  <2>4. WiredTo(arr, row, other)
    <3> DEFINE list == limArray[row].inputConnections
    <3>1. list \in Seq(InputLine) /\ other \in InputLine /\ Len(list) >= 1
      BY <2>1, <2>3
    <3>2. arr[row].inputConnections = Append(list, other)
      BY <2>2
    <3> HIDE DEF list
    <3> QED BY <3>1, <3>2, AppendedIsWired
  <2>5. Combines(arr, row, src1, src2)
    BY <2>4, Zenon DEF Combines
  <2> QED BY <1>5, <2>5 DEF SignalsKept, HasSignal
<1>7. Bound(arr, FSM2, row, activeTime, zeroAddr)
  <2>1. dest \notin DOMAIN arr /\ row \in DOMAIN arr /\ DOMAIN FSM2 = DOMAIN arr
    BY <1>2, <1>3, <1>4
  <2>2. dest < zeroAddr
    BY <1>2
  <2>3. \A r \in DOMAIN arr : r < zeroAddr
    BY <1>3, <1>4, Zenon
  <2> QED BY <1>1, <1>2, <1>3, <1>4, <1>5, <1>6, <2>1, <2>2, <2>3, Zenon DEF Bound
<1>8. LinesOK(arr, selectionSignalsList')
  <2>1. Len(limArray[row].inputConnections) = 1 /\ limArray[row] \in
          [rowType : RowType, inputConnections : Seq(InputLine)]
    BY <1>1, <1>2, <1>3 DEF LinesOK, checkIfRowIsLiM, Rows, TypeOK
  <2>2. Len(arr[row].inputConnections) = 2
    <3>1. arr[row].inputConnections = Append(limArray[row].inputConnections, other)
      BY <1>4, <2>1
    <3>2. limArray[row].inputConnections \in Seq(InputLine) /\ other \in InputLine
      BY <1>2, <2>1 DEF InputLine
    <3> QED BY <2>1, <3>1, <3>2, AppendProperties
  <2>3. arr[row].rowType # "load"
    BY <1>2, <1>4, OpsAssumption
  <2>4. ASSUME NEW r \in DOMAIN arr, r # row
        PROVE  arr[r] = limArray[r] /\ r \in DOMAIN limArray
    BY <1>4, <2>4 DEF Rows
  <2> QED BY <1>3, <1>5, <2>2, <2>3, <2>4 DEF LinesOK
<1>9. \A t \in 0..(activeTime - 1) : \E p \in DOMAIN FSM2 : FSM2[p] = t
  BY StatesBefore
<1>10. FSM2[row] < activeTime
  BY <1>1
<1>11. \A r \in DOMAIN arr : arr[r].rowType # "load" =>
         r = row \/ \E p \in DOMAIN FSM2 : FSM2[r] < FSM2[p]
  BY <1>3, <1>4 DEF Steady, Rows
<1>12. \A r \in DOMAIN FSM2 : \A t \in 0..FSM2[r] : \E p \in DOMAIN FSM2 : FSM2[p] = t
  BY <1>3 DEF Steady
<1>13. BindInv'
  BY <1>1, <1>2, <1>3, <1>4, <1>7, <1>8, <1>9, <1>10, <1>11, <1>12, BoundInv
<1>14. SecondIs(arr, row, other)
  <2>1. Len(limArray[row].inputConnections) = 1 /\ limArray[row] \in
          [rowType : RowType, inputConnections : Seq(InputLine)]
    BY <1>1, <1>2, <1>3 DEF LinesOK, checkIfRowIsLiM, Rows, TypeOK
  <2>2. arr[row].inputConnections = Append(limArray[row].inputConnections, other)
    BY <1>4, <2>1
  <2>3. limArray[row].inputConnections \in Seq(InputLine) /\ other \in InputLine
    BY <1>2, <2>1 DEF InputLine
  <2> QED BY <2>1, <2>2, <2>3, AppendProperties DEF SecondIs
<1> QED BY <1>4, <1>7, <1>13, <1>14

(* When both operands are LiM each has a later result, so the state after  *)
(* both is used.                                                           *)
LEMMA StateUsed ==
  ASSUME BindInv, CanBind,
         checkIfRowIsLiM(limArray, src1), checkIfRowIsLiM(limArray, src2)
  PROVE  \E p \in DOMAIN FSM2 : FSM2[p] = activeTime
<1>1. /\ src1 \in Rows /\ src2 \in Rows
      /\ src1 \in DOMAIN FSM2 /\ src2 \in DOMAIN FSM2
      /\ activeTime = FSM2[src1] + 1 \/ activeTime = FSM2[src2] + 1
  BY CanBindFacts DEF BindInv, TypeInv
<1>2. \A r \in DOMAIN FSM2 : FSM2[r] \in Nat
  BY DEF BindInv, TypeInv, TypeOK
<1>3. PICK r \in {src1, src2} : activeTime = FSM2[r] + 1
  BY <1>1
<1>4. PICK p \in DOMAIN FSM2 : FSM2[r] < FSM2[p]
  BY <1>1 DEF BindInv, Steady, checkIfRowIsLiM, Rows
<1>5. activeTime \in 0..FSM2[p]
  BY <1>1, <1>2, <1>3, <1>4
<1> QED BY <1>5 DEF BindInv, Steady

LEMMA ShareInv ==
  ASSUME BindInv, TypeInv', CanBind, NEW row, NEW other,
         (row = src1 /\ other = src2) \/ (row = src2 /\ other = src1),
         checkIfRowIsLiM(limArray, src1), checkIfRowIsLiM(limArray, src2),
         HasRoom(row), Share(row, other)
  PROVE  /\ BindInv'
         /\ \E arr : Bound(arr, FSM2, row, tMux, zeroAddr) /\ DOMAIN arr = Rows
         /\ selectionSignalsList' # << >>
<1> DEFINE arr == addNewInputConnection(limArray, row, other)
           signal == [destRow |-> row, activeTimeList |-> <<activeTime - 1, tMux - 1>>]
<1>1. /\ TypeOK /\ InsOK /\ IsBinding /\ status = "running"
      /\ src1 \in Rows /\ src2 \in Rows
      /\ activeTime \in Nat /\ FSM2[src1] < activeTime /\ FSM2[src2] < activeTime
  BY CanBindFacts DEF BindInv, TypeInv
<1>2. /\ operation \in Ops /\ zeroAddr \in Nat /\ dest = zeroAddr - 1 /\ dest \in Nat
      /\ row \in Rows /\ other \in Row
  BY <1>1, OperandTypes DEF Row
<1>3. /\ Rows \subseteq Nat /\ DOMAIN FSM2 = Rows /\ TimesOK(FSM2)
      /\ \A r \in Rows : r < zeroAddr
      /\ dest \notin Rows /\ LinesOK(limArray, selectionSignalsList)
      /\ Steady(limArray, FSM2) /\ IsFiniteSet(Rows)
  BY <1>1, TypeParts DEF BindInv, Placed, Fresh, ArrayOK, Rows, Row
<1>4. /\ ArrayOK(arr) /\ ExtendsArray(limArray, arr) /\ DOMAIN arr = Rows
      /\ arr[row].rowType = limArray[row].rowType
      /\ Listed(arr[row].inputConnections, other)
      /\ \/ arr[row].inputConnections = limArray[row].inputConnections
         \/ arr[row].inputConnections = Append(limArray[row].inputConnections, other)
      /\ \A r \in Rows : r # row => arr[r] = limArray[r]
  BY <1>1, <1>2, ShareArray
<1>5. /\ AddResult(arr, FSM2, row, tMux) /\ NextElement(zeroAddr)
      /\ selectionSignalsList' = Append(selectionSignalsList, signal)
  BY DEF Share, insertSelectionSignal
<1> HIDE DEF arr, signal
<1>6. /\ limArray[row].rowType = operation /\ operation # "load"
      /\ Len(limArray[row].inputConnections) < 3
  BY <1>2, OpsAssumption DEF HasRoom, isLiMRowOfThisType
<1>7. tMux = activeTime + 1 /\ tMux \in Nat
  BY <1>1 DEF tMux
<1>8. FSM2[src1] < tMux /\ FSM2[src2] < tMux
  <2>1. FSM2[src1] \in Nat /\ FSM2[src2] \in Nat
    BY <1>1, <1>3 DEF TimesOK
  <2> QED BY <1>1, <1>7, <2>1
<1>9. /\ \E k \in DOMAIN selectionSignalsList' : selectionSignalsList'[k].destRow = row
      /\ SignalsKept
  <2>1. selectionSignalsList \in Seq([destRow : Row, activeTimeList : Seq(Nat)])
    BY <1>1 DEF TypeOK
  <2>2. /\ Len(selectionSignalsList') = Len(selectionSignalsList) + 1
        /\ \A k \in 1..Len(selectionSignalsList) :
             selectionSignalsList'[k] = selectionSignalsList[k]
        /\ selectionSignalsList'[Len(selectionSignalsList) + 1] = signal
        /\ DOMAIN selectionSignalsList = 1..Len(selectionSignalsList)
        /\ Len(selectionSignalsList) \in Nat
    <3>1. signal \in [destRow : Row, activeTimeList : Seq(Nat)]
      <4>1. tMux - 1 \in Nat /\ activeTime - 1 \in Nat /\ row \in Row
        BY <1>1, <1>2, <1>3, <1>7, CanBindFacts DEF Row
      <4> QED BY <4>1 DEF signal
    <3> QED BY <1>5, <2>1, <3>1, AppendProperties
  <2>3. DOMAIN selectionSignalsList' = 1..(Len(selectionSignalsList) + 1)
    BY <1>5, <2>1, <2>2
  <2>4. \E k \in DOMAIN selectionSignalsList' : selectionSignalsList'[k].destRow = row
    <3>1. Len(selectionSignalsList) + 1 \in DOMAIN selectionSignalsList'
      BY <2>2, <2>3
    <3>2. signal.destRow = row
      BY DEF signal
    <3> QED BY <2>2, <3>1, <3>2
  <2>5. \A r : (\E k \in DOMAIN selectionSignalsList : selectionSignalsList[k].destRow = r)
          => \E k \in DOMAIN selectionSignalsList' : selectionSignalsList'[k].destRow = r
    BY <2>2, <2>3
  <2> QED BY <2>4, <2>5, Zenon DEF SignalsKept, HasSignal
<1>10. Combines(arr, row, src1, src2)
  <2> DEFINE list == limArray[row].inputConnections
  <2>1. /\ list \in Seq(InputLine) /\ other \in InputLine /\ Len(list) \in 1..3
        /\ arr[row].inputConnections = list \/ arr[row].inputConnections = Append(list, other)
        /\ Listed(arr[row].inputConnections, other) /\ HasSignal(row)'
    <3>1. list \in Seq(InputLine) /\ other \in InputLine
      BY <1>1, <1>2 DEF TypeOK, InputLine, Rows
    <3>2. Len(list) \in 1..3
      BY <1>2, <1>3 DEF LinesOK, Rows
    <3>3. HasSignal(row)'
      BY <1>9, Zenon DEF HasSignal
    <3> QED BY <1>4, <3>1, <3>2, <3>3
  <2> HIDE DEF list
  <2>2. CASE arr[row].inputConnections = Append(list, other)
    <3>1. WiredTo(arr, row, other)
      BY <2>1, <2>2, AppendedIsWired
    <3> QED BY <3>1, Zenon DEF Combines
  <2>3. CASE arr[row].inputConnections = list
    <3>1. PICK k \in DOMAIN list : list[k] = other
      BY <2>1, <2>3 DEF Listed
    <3>2. DOMAIN list = 1..Len(list) /\ Len(list) \in Nat /\ Head(list) = list[1]
      BY <2>1
    <3>3. CASE k = 1
      <4>1. Head(arr[row].inputConnections) = other
        BY <2>3, <3>1, <3>2, <3>3
      <4>2. {src1, src2} = {row, other}
        OBVIOUS
      <4> QED BY <2>1, <4>1, <4>2, Zenon DEF Combines
    <3>4. CASE k # 1
      <4>1. k \in 2..Len(list)
        BY <3>2, <3>4
      <4>2. WiredTo(arr, row, other)
        BY <2>3, <3>1, <4>1 DEF WiredTo
      <4> QED BY <4>2, Zenon DEF Combines
    <3> QED BY <3>3, <3>4
  <2> QED BY <2>1, <2>2, <2>3
<1>11. Bound(arr, FSM2, row, tMux, zeroAddr)
  <2>1. dest \notin DOMAIN arr /\ row \in DOMAIN arr /\ DOMAIN FSM2 = DOMAIN arr
    BY <1>2, <1>3, <1>4
  <2>2. dest < zeroAddr
    BY <1>2
  <2>3. \A r \in DOMAIN arr : r < zeroAddr
    BY <1>3, <1>4, Zenon
  <2> QED BY <1>1, <1>2, <1>3, <1>4, <1>5, <1>6, <1>7, <1>8, <1>9, <1>10, <2>1, <2>2, <2>3,
             Zenon DEF Bound
<1>12. LinesOK(arr, selectionSignalsList')
  <2>1. Len(arr[row].inputConnections) \in 1..3
    <3> DEFINE list == limArray[row].inputConnections
    <3>1. list \in Seq(InputLine) /\ other \in InputLine /\ Len(list) \in Nat
      BY <1>1, <1>2 DEF TypeOK, InputLine, Rows
    <3>2. Len(list) \in 1..3 /\ Len(list) < 3
      BY <1>2, <1>3, <1>6 DEF LinesOK, Rows
    <3>3. arr[row].inputConnections = list \/ arr[row].inputConnections = Append(list, other)
      BY <1>4
    <3> HIDE DEF list
    <3>4. Len(Append(list, other)) = Len(list) + 1
      BY <3>1, AppendProperties
    <3>5. CASE arr[row].inputConnections = list
      BY <3>2, <3>5
    <3>6. CASE arr[row].inputConnections = Append(list, other)
      BY <3>1, <3>2, <3>4, <3>6
    <3> QED BY <3>3, <3>5, <3>6
  <2>2. arr[row].rowType # "load"
    BY <1>4, <1>6
  <2>3. ASSUME NEW r \in DOMAIN arr, r # row
        PROVE  arr[r] = limArray[r] /\ r \in DOMAIN limArray
    BY <1>4, <2>3 DEF Rows
  <2>4. \A r : (\E k \in DOMAIN selectionSignalsList : selectionSignalsList[k].destRow = r)
          => \E k \in DOMAIN selectionSignalsList' : selectionSignalsList'[k].destRow = r
    BY <1>9, Zenon DEF SignalsKept, HasSignal
  <2> QED BY <1>3, <1>9, <2>1, <2>2, <2>3, <2>4 DEF LinesOK
<1>13. \A t \in 0..(tMux - 1) : \E p \in DOMAIN FSM2 : FSM2[p] = t
  <2> SUFFICES ASSUME NEW t \in 0..(tMux - 1)
               PROVE  \E p \in DOMAIN FSM2 : FSM2[p] = t
    OBVIOUS
  <2>1. CASE t = activeTime
    BY <2>1, StateUsed
  <2>2. CASE t # activeTime
    <3>1. t \in 0..(activeTime - 1)
      BY <1>1, <1>7, <2>2
    <3> QED BY <3>1, StatesBefore
  <2> QED BY <2>1, <2>2
<1>14. \A r \in DOMAIN arr : arr[r].rowType # "load" =>
         r = row \/ \E p \in DOMAIN FSM2 : FSM2[r] < FSM2[p]
  BY <1>3, <1>4 DEF Steady, Rows
<1>15. \A r \in DOMAIN FSM2 : \A t \in 0..FSM2[r] : \E p \in DOMAIN FSM2 : FSM2[p] = t
  BY <1>3 DEF Steady
<1>16. FSM2[row] < tMux /\ IsFiniteSet(DOMAIN arr)
  BY <1>3, <1>4, <1>8
<1>17. BindInv'
  BY <1>1, <1>2, <1>11, <1>12, <1>13, <1>14, <1>15, <1>16, BoundInv
<1>18. selectionSignalsList' # << >>
  <2>1. selectionSignalsList \in Seq([destRow : Row, activeTimeList : Seq(Nat)])
    BY <1>1 DEF TypeOK
  <2> QED BY <1>5, <2>1
<1> QED BY <1>4, <1>11, <1>17, <1>18

LEMMA CopyInv ==
  ASSUME BindInv, TypeInv', CopyRow
  PROVE  /\ BindInv'
         /\ \E arr, fsm2 :
              /\ Bound(arr, fsm2, zeroAddr, activeTime + 1, zeroAddr + 1)
              /\ DOMAIN arr = Rows \cup {zeroAddr} /\ zeroAddr \notin Rows
              /\ arr[zeroAddr].inputConnections = Append(<<src1>>, src2)
              /\ fsm2[zeroAddr] = activeTime
<1> DEFINE arr == addNewInputConnection(
                    addNewLiMRow(limArray, zeroAddr, operation, src1), zeroAddr, src2)
           fsm2 == addNewInstruction(FSM2, activeTime, zeroAddr)
<1>1. /\ TypeOK /\ InsOK /\ IsBinding /\ status = "running" /\ CanBind
      /\ src1 \in Rows /\ src2 \in Rows
      /\ activeTime \in Nat /\ FSM2[src1] < activeTime /\ FSM2[src2] < activeTime
      /\ checkIfRowIsLiM(limArray, src1) /\ checkIfRowIsLiM(limArray, src2)
  BY CanBindFacts DEF BindInv, TypeInv, CopyRow
<1>2. /\ operation \in Ops /\ zeroAddr \in Nat /\ dest = zeroAddr - 1 /\ dest \in Nat
      /\ src1 \in Row /\ src2 \in Row /\ zeroAddr \in Row /\ operation # "load"
  BY <1>1, OperandTypes, OpsAssumption DEF Row
<1>3. /\ Rows \subseteq Nat /\ DOMAIN FSM2 = Rows /\ TimesOK(FSM2)
      /\ \A r \in Rows : r < zeroAddr
      /\ dest \notin Rows /\ LinesOK(limArray, selectionSignalsList)
      /\ Steady(limArray, FSM2) /\ IsFiniteSet(Rows)
  BY <1>1, TypeParts DEF BindInv, Placed, Fresh, ArrayOK, Rows, Row
<1>4. zeroAddr \notin Rows /\ dest # zeroAddr
  BY <1>2, <1>3
<1>5. /\ ArrayOK(arr) /\ ExtendsArray(limArray, arr)
      /\ DOMAIN arr = Rows \cup {zeroAddr}
      /\ \A r \in Rows : r # zeroAddr => arr[r] = limArray[r]
      /\ arr[zeroAddr].rowType = operation
      /\ arr[zeroAddr].inputConnections = Append(<<src1>>, src2)
  <2>1. ASSUME NEW a,
               a = addNewInputConnection(
                     addNewLiMRow(limArray, zeroAddr, operation, src1), zeroAddr, src2)
        PROVE  Copied(a, zeroAddr, operation, src1, src2)
    BY <1>1, <1>2, <2>1, CopyArray
  <2>2. Copied(arr, zeroAddr, operation, src1, src2)
    BY <2>1
  <2> HIDE DEF arr
  <2> QED BY <1>4, <2>2 DEF Copied
<1>6. /\ DOMAIN fsm2 = Rows \cup {zeroAddr}
      /\ \A r \in Rows : fsm2[r] = FSM2[r]
      /\ fsm2[zeroAddr] = activeTime
      /\ TimesOK(fsm2)
  <2>1. zeroAddr \notin DOMAIN FSM2 /\ DOMAIN FSM2 = Rows
    BY <1>3, <1>4
  <2>2. /\ DOMAIN fsm2 = Rows \cup {zeroAddr}
        /\ \A r \in Rows : fsm2[r] = FSM2[r]
        /\ fsm2[zeroAddr] = activeTime
    BY <2>1 DEF addNewInstruction, Insert
  <2> HIDE DEF fsm2
  <2> QED BY <1>1, <1>2, <1>3, <2>2 DEF TimesOK
<1>7. /\ AddResult(arr, fsm2, zeroAddr, activeTime + 1) /\ NextElement(zeroAddr + 1)
      /\ selectionSignalsList' = selectionSignalsList
  BY DEF CopyRow
<1> HIDE DEF arr, fsm2
<1>8. FSM2[src1] \in Nat /\ FSM2[src2] \in Nat /\ \A r \in Rows : FSM2[r] \in Nat
  BY <1>1, <1>3 DEF TimesOK
<1>9. Bound(arr, fsm2, zeroAddr, activeTime + 1, zeroAddr + 1)
  <2>1. Combines(arr, zeroAddr, src1, src2) /\ SignalsKept
    BY <1>4, <1>5, <1>7, Zenon DEF Combines, SignalsKept, HasSignal
  <2>2. /\ activeTime + 1 \in Nat /\ FSM2[src1] < activeTime + 1
        /\ FSM2[src2] < activeTime + 1
    BY <1>1, <1>8
  <2>3. dest \notin DOMAIN arr /\ zeroAddr \in DOMAIN arr /\ DOMAIN fsm2 = DOMAIN arr
    BY <1>3, <1>4, <1>5, <1>6
  <2>4. /\ zeroAddr + 1 \in Nat /\ dest < zeroAddr + 1
        /\ \A r \in DOMAIN arr : r < zeroAddr + 1
    <3>1. ASSUME NEW r \in DOMAIN arr
          PROVE  r < zeroAddr + 1
      <4>1. r = zeroAddr \/ (r \in Rows /\ r \in Nat /\ r < zeroAddr)
        BY <1>3, <1>5
      <4> QED BY <1>2, <4>1
    <3>2. zeroAddr + 1 \in Nat /\ dest < zeroAddr + 1
      BY <1>2
    <3> HIDE DEF arr
    <3> QED BY <3>1, <3>2, Zenon
  <2> QED BY <1>1, <1>5, <1>6, <1>7, <2>1, <2>2, <2>3, <2>4 DEF Bound
<1>10. LinesOK(arr, selectionSignalsList')
  <2>1. Len(arr[zeroAddr].inputConnections) = 2
    <3>1. arr[zeroAddr].inputConnections = Append(<<src1>>, src2)
      BY <1>5
    <3>2. Len(Append(<<src1>>, src2)) = 2
      BY Pair
    <3> QED BY <3>1, <3>2
  <2>2. arr[zeroAddr].rowType # "load"
    BY <1>2, <1>5
  <2>3. ASSUME NEW r \in DOMAIN arr, r # zeroAddr
        PROVE  arr[r] = limArray[r] /\ r \in DOMAIN limArray
    BY <1>5, <2>3 DEF Rows
  <2> QED BY <1>3, <1>7, <2>1, <2>2, <2>3 DEF LinesOK
<1>11. \A t \in 0..(activeTime + 1 - 1) : \E p \in DOMAIN fsm2 : fsm2[p] = t
  <2> SUFFICES ASSUME NEW t \in 0..(activeTime + 1 - 1)
               PROVE  \E p \in DOMAIN fsm2 : fsm2[p] = t
    OBVIOUS
  <2>1. CASE t = activeTime
    BY <1>6, <2>1
  <2>2. CASE t # activeTime
    <3>1. t \in 0..(activeTime - 1)
      BY <1>1, <2>2
    <3>2. PICK p \in DOMAIN FSM2 : FSM2[p] = t
      BY <1>1, <3>1, StatesBefore
    <3> QED BY <1>3, <1>6, <3>2
  <2> QED BY <2>1, <2>2
<1>12. \A r \in DOMAIN arr : arr[r].rowType # "load" =>
         r = zeroAddr \/ \E p \in DOMAIN fsm2 : fsm2[r] < fsm2[p]
  <2> SUFFICES ASSUME NEW r \in Rows, r # zeroAddr, limArray[r].rowType # "load"
               PROVE  \E p \in DOMAIN fsm2 : fsm2[r] < fsm2[p]
    <3>1. ASSUME NEW r \in DOMAIN arr, r # zeroAddr
          PROVE  r \in Rows /\ arr[r] = limArray[r]
      BY <1>5, <3>1
    <3> QED BY <3>1
  <2>1. PICK p \in DOMAIN FSM2 : FSM2[r] < FSM2[p]
    BY <1>3 DEF Steady, Rows
  <2> QED BY <1>3, <1>6, <2>1
<1>13. \A r \in DOMAIN fsm2 : \A t \in 0..fsm2[r] : \E p \in DOMAIN fsm2 : fsm2[p] = t
  <2> SUFFICES ASSUME NEW r \in DOMAIN fsm2, NEW t \in 0..fsm2[r]
               PROVE  \E p \in DOMAIN fsm2 : fsm2[p] = t
    OBVIOUS
  <2>1. CASE r \in Rows
    <3>1. PICK p \in DOMAIN FSM2 : FSM2[p] = t
      BY <1>3, <1>6, <2>1 DEF Steady
    <3> QED BY <1>3, <1>6, <3>1
  <2>2. CASE r = zeroAddr
    <3>1. t \in 0..(activeTime + 1 - 1)
      BY <1>1, <1>6, <2>2
    <3> QED BY <1>11, <3>1
  <2> QED BY <1>6, <2>1, <2>2
<1>14. fsm2[zeroAddr] < activeTime + 1 /\ IsFiniteSet(DOMAIN arr)
  <2>1. IsFiniteSet(Rows \cup {zeroAddr})
    BY <1>3, FS_AddElement
  <2> QED BY <1>1, <1>5, <1>6, <2>1
<1>15. BindInv'
  BY <1>1, <1>2, <1>9, <1>10, <1>11, <1>12, <1>13, <1>14, BoundInv
<1> QED BY <1>4, <1>5, <1>6, <1>9, <1>15

(* Reuse gives the element a row computed for the same question: the type  *)
(* of the row that drives it was compared, and both operands made it.      *)
LEMMA ReuseInv ==
  ASSUME BindInv, TypeInv', ReuseResult
  PROVE  BindInv'
<1> DEFINE L == lastDestMap[src1]
           q == computes[L]
<1>1. /\ TypeOK /\ InsOK /\ IsBinding /\ status = "running"
      /\ src1 \in DOMAIN lastDestMap /\ src2 \in DOMAIN lastDestMap
      /\ lastDestMap[src1] = lastDestMap[src2]
      /\ limArray[effInDest].rowType = operation
      /\ NextElement(zeroAddr - 1)
      /\ answers' = answers \cup {Asked(L)}
      /\ limArray' = limArray /\ FSM2' = FSM2 /\ lastDestMap' = lastDestMap
      /\ selectionSignalsList' = selectionSignalsList
      /\ computes' = computes /\ status' = status
  BY DEF BindInv, TypeInv, ReuseResult, Binding, IsBinding, SameResult,
         isLiMRowOfThisType, tables
<1>2. /\ dest \in Nat /\ zeroAddr \in Nat /\ dest = zeroAddr - 1
  BY <1>1, OperandTypes DEF Row
<1>3. zeroAddr' = zeroAddr /\ (IsBinding' => dest' = dest)
  <2>1. zeroAddr - 1 \in Nat
    BY <1>2
  <2> QED BY <1>1, <1>2, <2>1, NextElementType
<1>4. /\ L \in DOMAIN computes
      /\ src1 = q.src1 \/ src1 = q.src2
      /\ src2 = q.src1 \/ src2 = q.src2
  BY <1>1 DEF BindInv, Remembered
<1>5. q.operation = operation
  <2>1. Fed(Driver(L), q)
    BY <1>4 DEF BindInv, Results, ResultOK
  <2>2. limArray[Driver(L)].rowType = q.operation
    BY <2>1 DEF Fed, Feeds, OperandDropped
  <2> QED BY <1>1, <2>2 DEF effInDest, Driver
<1>6. L \in Rows /\ L < zeroAddr /\ L # dest
  BY <1>1, <1>4 DEF BindInv, Results, ResultOK, Fresh
<1>7. Answered'
  <2>1. /\ Asked(L).row = L /\ Asked(L).operation = operation
        /\ Asked(L).src1 = src1 /\ Asked(L).src2 = src2
    BY DEF Asked
  <2>2. src1 # src2 => SameQuestion(q, Asked(L))
    BY <1>4, <1>5, <2>1 DEF SameQuestion
  <2>3. ASSUME NEW a \in answers'
        PROVE  /\ a.row < zeroAddr /\ (IsBinding' => a.row # dest')
               /\ a.row \in DOMAIN computes /\ a.src1 # a.src2 =>
                    SameQuestion(computes[a.row], a)
    <3>1. CASE a \in answers
      BY <1>1, <1>3, <3>1 DEF BindInv, Answered
    <3>2. CASE a = Asked(L)
      BY <1>3, <1>6, <2>1, <2>2, <3>2
    <3> QED BY <1>1, <3>1, <3>2
  <2> QED BY <1>1, <1>3, <2>3 DEF Answered
<1>8. Placed' /\ Fresh' /\ Remembered' /\ Transformed' /\ IsFiniteSet(Rows')
  BY <1>1, <1>3 DEF BindInv, Placed, Fresh, Remembered, Transformed, Rows
<1>9. Results' /\ LinesOK(limArray', selectionSignalsList') /\ Steady(limArray', FSM2')
  BY <1>1, ResultsUnchanged DEF BindInv
<1> QED BY <1>7, <1>8, <1>9 DEF BindInv

(* A dropped element is answered with a row that nothing will become.      *)
LEMMA DropInv ==
  ASSUME BindInv, TypeInv', DropOperation
  PROVE  BindInv'
<1>1. /\ TypeOK /\ InsOK /\ IsBinding /\ status = "running"
      /\ NextElement(zeroAddr)
      /\ answers' = answers \cup {Asked(dest)}
      /\ limArray' = limArray /\ FSM2' = FSM2 /\ lastDestMap' = lastDestMap
      /\ selectionSignalsList' = selectionSignalsList
      /\ computes' = computes /\ status' = status
  BY DEF BindInv, TypeInv, DropOperation, Binding, IsBinding, AnswerDest, tables
<1>2. /\ dest \in Nat /\ zeroAddr \in Nat /\ dest = zeroAddr - 1
  BY <1>1, OperandTypes DEF Row
<1>3. zeroAddr' = zeroAddr + 1 /\ (IsBinding' => dest' = zeroAddr)
  BY <1>1, <1>2, NextElementType
<1>4. Fresh'
  <2>1. ASSUME NEW r \in Rows
        PROVE  r < zeroAddr + 1 /\ r # zeroAddr
    <3>1. r \in Nat /\ r < zeroAddr
      BY <1>1, TypeParts DEF BindInv, Fresh, ArrayOK, Rows, Row
    <3> QED BY <1>2, <3>1
  <2> QED BY <1>1, <1>3, <2>1 DEF Fresh, Rows
<1>5. Answered'
  <2>1. Asked(dest).row = dest /\ dest \notin DOMAIN computes
    BY <1>1 DEF Asked, BindInv, Results, ResultOK, Fresh
  <2>2. ASSUME NEW a \in answers'
        PROVE  /\ a.row < zeroAddr + 1 /\ a.row # zeroAddr
               /\ a.row \in DOMAIN computes /\ a.src1 # a.src2 =>
                    SameQuestion(computes[a.row], a)
    <3>1. CASE a \in answers
      <4>1. a.row \in Nat /\ a.row < zeroAddr
        BY <1>1, <3>1 DEF BindInv, Answered, TypeOK, Question, Row
      <4> QED BY <1>2, <3>1, <4>1 DEF BindInv, Answered
    <3>2. CASE a = Asked(dest)
      BY <1>2, <2>1, <3>2
    <3> QED BY <1>1, <3>1, <3>2
  <2> QED BY <1>1, <1>3, <2>2 DEF Answered
<1>6. Placed' /\ Remembered' /\ Transformed' /\ IsFiniteSet(Rows')
  BY <1>1 DEF BindInv, Placed, Remembered, Transformed, Rows
<1>7. Results' /\ LinesOK(limArray', selectionSignalsList') /\ Steady(limArray', FSM2')
  BY <1>1, ResultsUnchanged DEF BindInv
<1> QED BY <1>4, <1>5, <1>6, <1>7 DEF BindInv

(* A loaded word is a new row, written in the first state.                 *)
LEMMA LoadInv ==
  ASSUME BindInv, TypeInv', BindLoad
  PROVE  BindInv'
<1> DEFINE word == [rowType |-> "load", inputConnections |-> <<NoMemoryInput>>]
<1>1. /\ limArray' = Insert(limArray, zeroAddr, word)
      /\ FSM2' = Insert(FSM2, zeroAddr, 0)
      /\ zeroAddr' = zeroAddr + 1 /\ lastDestMap' = lastDestMap
      /\ selectionSignalsList' = selectionSignalsList /\ status' = status
      /\ computes' = computes /\ answers' = answers /\ status = "running"
  BY DEF BindLoad, addNewRow, addNewInstruction, history
<1>2. ~IsBinding'
  <2>1. CASE ins.i = ins.n
    BY <2>1 DEF BindLoad, IsBinding, Busy
  <2>2. CASE ins.i # ins.n
    <3>1. ins' = [ins EXCEPT !.i = @ + 1] /\ ins \in Instruction /\ ins.operation = "load"
      BY <2>2 DEF BindLoad, Busy, BindInv, TypeInv, TypeOK
    <3> QED BY <3>1 DEF Instruction, IsBinding, operation
  <2> QED BY <2>1, <2>2
<1>3. /\ zeroAddr \in Nat /\ DOMAIN FSM2 = Rows /\ zeroAddr \notin Rows
      /\ \A r \in Rows : r \in Nat /\ r < zeroAddr
      /\ ArrayOK(limArray) /\ ArrayOK(limArray')
  <2>1. ArrayOK(limArray) /\ ArrayOK(limArray')
    BY TypeParts, TypePartsPrime DEF BindInv, TypeInv
  <2>2. zeroAddr \in Nat /\ DOMAIN FSM2 = Rows
    BY DEF BindInv, TypeInv, TypeOK, Placed
  <2>3. \A r \in Rows : r \in Nat /\ r < zeroAddr
    BY <2>1 DEF BindInv, Fresh, ArrayOK, Rows, Row
  <2> QED BY <2>1, <2>2, <2>3
<1> HIDE DEF word
<1>4. /\ DOMAIN limArray' = Rows \cup {zeroAddr}
      /\ \A r \in Rows : limArray'[r] = limArray[r]
      /\ limArray'[zeroAddr] = word
      /\ DOMAIN FSM2' = Rows \cup {zeroAddr}
      /\ \A r \in Rows : FSM2'[r] = FSM2[r]
      /\ FSM2'[zeroAddr] = 0
  <2>1. zeroAddr \notin DOMAIN limArray /\ zeroAddr \notin DOMAIN FSM2
    BY <1>3 DEF Rows
  <2>2. /\ DOMAIN limArray' = Rows \cup {zeroAddr}
        /\ \A r \in Rows : limArray'[r] = limArray[r]
        /\ limArray'[zeroAddr] = word
    BY <1>1, <2>1 DEF Insert, Rows
  <2>3. /\ DOMAIN FSM2' = DOMAIN FSM2 \cup {zeroAddr}
        /\ \A r \in DOMAIN FSM2 : FSM2'[r] = FSM2[r]
        /\ FSM2'[zeroAddr] = 0
    BY <1>1, <2>1 DEF Insert
  <2> QED BY <1>3, <2>2, <2>3
<1>5. word.rowType = "load" /\ Len(word.inputConnections) = 1
  BY DEF word
<1>6. ExtendsArray(limArray, limArray')
  <2>1. ExtendsArray(limArray, limArray)
    BY <1>3, ExtendsReflexive
  <2> QED BY <1>4, <2>1 DEF ExtendsArray, Rows
<1>7. Results'
  <2>1. SignalsKept
    BY <1>1 DEF SignalsKept, HasSignal
  <2> QED BY <1>1, <1>3, <1>4, <1>6, <2>1, ResultKept DEF Results
<1>8. Placed' /\ Fresh'
  BY <1>1, <1>2, <1>3, <1>4 DEF Placed, Fresh, Rows
<1>9. Remembered' /\ Transformed'
  BY <1>1 DEF BindInv, Remembered, Transformed
<1>10. Answered'
  <2>1. ASSUME NEW a \in answers
        PROVE  a.row < zeroAddr + 1
    <3>1. a.row \in Nat /\ a.row < zeroAddr
      BY DEF BindInv, TypeInv, TypeOK, Question, Answered, Row
    <3> QED BY <1>3, <3>1
  <2> QED BY <1>1, <1>2, <2>1 DEF BindInv, Answered
<1>11. LinesOK(limArray', selectionSignalsList')
  BY <1>1, <1>4, <1>5 DEF BindInv, LinesOK, Rows
<1>12. Steady(limArray', FSM2')
  <2>1. \A r \in DOMAIN FSM2' : \A t \in 0..FSM2'[r] : \E p \in DOMAIN FSM2' : FSM2'[p] = t
    <3> SUFFICES ASSUME NEW r \in DOMAIN FSM2', NEW t \in 0..FSM2'[r]
                 PROVE  \E p \in DOMAIN FSM2' : FSM2'[p] = t
      OBVIOUS
    <3>1. CASE r \in Rows
      <4>1. PICK p \in DOMAIN FSM2 : FSM2[p] = t
        BY <1>3, <1>4, <3>1 DEF BindInv, Steady
      <4> QED BY <1>3, <1>4, <4>1
    <3>2. CASE r = zeroAddr
      <4>1. t = 0
        BY <1>4, <3>2
      <4> QED BY <1>4, <4>1
    <3> QED BY <1>4, <3>1, <3>2
  <2>2. \A r \in DOMAIN limArray' :
          limArray'[r].rowType # "load" => \E p \in DOMAIN FSM2' : FSM2'[r] < FSM2'[p]
    <3> SUFFICES ASSUME NEW r \in Rows, limArray[r].rowType # "load"
                 PROVE  \E p \in DOMAIN FSM2' : FSM2'[r] < FSM2'[p]
      BY <1>4, <1>5
    <3>1. PICK p \in DOMAIN FSM2 : FSM2[r] < FSM2[p]
      BY DEF BindInv, Steady, Rows
    <3> QED BY <1>3, <1>4, <3>1
  <2> QED BY <2>1, <2>2 DEF Steady
<1>13. IsFiniteSet(Rows')
  <2>1. Rows' = Rows \cup {zeroAddr} /\ IsFiniteSet(Rows)
    BY <1>4 DEF Rows, BindInv
  <2> QED BY <2>1, FS_AddElement
<1> QED
  BY <1>7, <1>8, <1>9, <1>10, <1>11, <1>12, <1>13 DEF BindInv

(* Steps that leave the tables alone.                                      *)
LEMMA TablesKept ==
  ASSUME BindInv, TypeInv', UNCHANGED <<tables, history>>,
         zeroAddr' \in {zeroAddr, zeroAddr + 1},
         IsBinding' => dest' = zeroAddr \/ (IsBinding /\ dest' = dest),
         status' = "done" => FSM' = transform(FSM2)
  PROVE  BindInv'
<1>1. /\ limArray' = limArray /\ FSM2' = FSM2 /\ lastDestMap' = lastDestMap
      /\ selectionSignalsList' = selectionSignalsList
      /\ computes' = computes /\ answers' = answers
  BY DEF tables, history
<1>2. /\ zeroAddr \in Nat /\ \A r \in Rows : r \in Nat /\ r < zeroAddr
      /\ \A a \in answers : a.row \in Nat /\ a.row < zeroAddr
  BY TypeParts
  DEF BindInv, TypeInv, TypeOK, Fresh, Answered, Question, ArrayOK, Rows, Row
<1>3. Fresh'
  BY <1>1, <1>2 DEF BindInv, Fresh, Rows
<1>4. Answered'
  BY <1>1, <1>2 DEF BindInv, Answered
<1>5. Placed' /\ Remembered' /\ Transformed' /\ IsFiniteSet(Rows')
  BY <1>1 DEF BindInv, Placed, Remembered, Transformed, Rows
<1>6. Results' /\ LinesOK(limArray', selectionSignalsList') /\ Steady(limArray', FSM2')
  BY <1>1, ResultsUnchanged DEF BindInv
<1> QED BY <1>3, <1>4, <1>5, <1>6 DEF BindInv

LEMMA FetchLoadInv ==
  ASSUME BindInv, TypeInv', NEW reg \in Vars, NEW n \in 1..MaxSize, FetchLoad(reg, n)
  PROVE  BindInv'
<1>1. ins'.operation = "load" /\ status' = "running" /\ zeroAddr' = zeroAddr
      /\ UNCHANGED <<tables, history>>
  BY DEF FetchLoad
<1>2. ~IsBinding'
  BY <1>1 DEF IsBinding, operation
<1> QED BY <1>1, <1>2, TablesKept

LEMMA FetchOperationInv ==
  ASSUME BindInv, TypeInv', NEW op \in Ops, NEW reg \in Temps,
         NEW reg1 \in Named, NEW reg2 \in Named,
         NEW a1 \in Accesses, NEW a2 \in Accesses,
         FetchOperation(op, reg, reg1, a1, reg2, a2)
  PROVE  BindInv'
<1>1. /\ ins'.dest = zeroAddr /\ status' = "running" /\ zeroAddr' = zeroAddr + 1
      /\ UNCHANGED <<tables, history>>
  BY DEF FetchOperation
<1>2. dest' = zeroAddr
  BY <1>1 DEF dest
<1> QED BY <1>1, <1>2, TablesKept

LEMMA FetchConstantOperandInv ==
  ASSUME BindInv, TypeInv', FetchConstantOperand
  PROVE  BindInv'
<1>1. zeroAddr' = zeroAddr + 1 /\ status' = "name not in arrayNamesMap" /\ ~Busy
  BY Zenon DEF FetchConstantOperand
<1>2. UNCHANGED <<tables, FSM, arrayNamesMap, shiftAmount, ins, history>>
  BY Zenon DEF FetchConstantOperand
<1>3. ~IsBinding' /\ UNCHANGED <<tables, history>>
  BY <1>1, <1>2 DEF IsBinding, Busy
<1> QED BY <1>1, <1>3, TablesKept

LEMMA MissingRowInv ==
  ASSUME BindInv, TypeInv', MissingRow
  PROVE  BindInv'
<1>1. /\ zeroAddr' = zeroAddr /\ ins' = ins /\ status' = "row not in limArray"
      /\ UNCHANGED <<tables, history>>
  BY DEF MissingRow
<1>2. (IsBinding' <=> IsBinding) /\ dest' = dest
  BY <1>1 DEF IsBinding, Busy, operation, dest
<1> QED BY <1>1, <1>2, TablesKept

LEMMA FinishInv ==
  ASSUME BindInv, TypeInv', Finish
  PROVE  BindInv'
<1>1. /\ zeroAddr' = zeroAddr /\ ins' = ins /\ FSM' = transform(FSM2) /\ ~Busy
      /\ limArray' = limArray /\ FSM2' = FSM2 /\ lastDestMap' = lastDestMap
      /\ selectionSignalsList' = selectionSignalsList
      /\ computes' = computes /\ answers' = answers
  BY DEF Finish, tables, history
<1>2. UNCHANGED <<tables, history>>
  BY <1>1 DEF tables, history
<1>3. ~IsBinding'
  BY <1>1 DEF IsBinding, Busy
<1> QED BY <1>1, <1>2, <1>3, TablesKept

LEMMA StutterInv ==
  ASSUME BindInv, TypeInv', UNCHANGED vars
  PROVE  BindInv'
<1>1. /\ zeroAddr' = zeroAddr /\ ins' = ins /\ status' = status /\ FSM' = FSM
      /\ UNCHANGED <<tables, history>>
  BY DEF vars, tables, history
<1>2. (IsBinding' <=> IsBinding) /\ dest' = dest
  BY <1>1 DEF IsBinding, Busy, operation, dest
<1>3. status' = "done" => FSM' = transform(FSM2)
  BY <1>1 DEF BindInv, Transformed
<1> QED BY <1>1, <1>2, <1>3, TablesKept

LEMMA BindInvInit == Init => BindInv
<1> SUFFICES ASSUME Init
             PROVE  BindInv
  OBVIOUS
<1>1. /\ DOMAIN limArray = {} /\ DOMAIN FSM2 = {} /\ DOMAIN lastDestMap = {}
      /\ DOMAIN computes = {} /\ answers = {} /\ ~IsBinding /\ status = "running"
  BY DEF Init, EmptyMap, IsBinding, Busy
<1>2. Placed /\ Fresh /\ Results /\ Remembered /\ Answered /\ Transformed
  BY <1>1 DEF Placed, Fresh, Results, Remembered, Answered, Transformed, Rows
<1>3. LinesOK(limArray, selectionSignalsList) /\ Steady(limArray, FSM2)
  BY <1>1 DEF LinesOK, Steady
<1>4. IsFiniteSet(Rows)
  BY <1>1, FS_EmptySet DEF Rows
<1> QED BY <1>2, <1>3, <1>4, TypeInvInit DEF BindInv

LEMMA BindInvStep ==
  ASSUME NoShifts, BindInv, [Next]_vars
  PROVE  BindInv'
<1>1. TypeInv' /\ TypeOK /\ InsOK
  BY TypeInvStep DEF BindInv, TypeInv
<1>2. ASSUME NEW reg \in Vars, NEW n \in 1..MaxSize, FetchLoad(reg, n)
      PROVE  BindInv'
  BY <1>1, <1>2, FetchLoadInv
<1>3. CASE BindLoad
  BY <1>1, <1>3, LoadInv
<1>4. ASSUME NEW op \in Ops, NEW reg \in Temps, NEW reg1 \in Named, NEW reg2 \in Named,
             NEW a1 \in Accesses, NEW a2 \in Accesses,
             FetchOperation(op, reg, reg1, a1, reg2, a2)
      PROVE  BindInv'
  BY <1>1, <1>4, FetchOperationInv
<1>5. CASE FetchConstantOperand
  BY <1>1, <1>5, FetchConstantOperandInv
<1>6. CASE MissingRow
  BY <1>1, <1>6, MissingRowInv
<1>7. CASE Finish
  BY <1>1, <1>7, FinishInv
<1>8. CASE ReuseResult
  BY <1>1, <1>8, ReuseInv
<1>9. CASE DropOperation
  BY <1>1, <1>9, DropInv
<1>10. CASE ConvertSrc2
  BY <1>1, <1>10, ConvertInv DEF ConvertSrc2
<1>11. CASE ConvertSrc1
  BY <1>1, <1>11, ConvertInv DEF ConvertSrc1
<1>12. CASE ShareSrc2
  BY <1>1, <1>12, ShareInv DEF ShareSrc2
<1>13. CASE ShareSrc1
  BY <1>1, <1>13, ShareInv DEF ShareSrc1
<1>14. CASE CopyRow
  BY <1>1, <1>14, CopyInv
<1>15. CASE ShiftInPlace \/ ShiftCopy
  <2>1. IsBinding /\ operation \in ShiftOps
    BY <1>15 DEF ShiftInPlace, ShiftCopy, CanShift, Binding, IsBinding
  <2>2. operation \in Ops
    BY <1>1, <2>1, OperandTypes
  <2> QED BY <2>1, <2>2 DEF NoShifts
<1>16. CASE UNCHANGED vars
  BY <1>1, <1>16, StutterInv
<1> QED
  BY <1>2, <1>3, <1>4, <1>5, <1>6, <1>7, <1>8, <1>9, <1>10, <1>11, <1>12, <1>13,
     <1>14, <1>15, <1>16
  DEF Next, performBinding

(* The invariant of programs without shifts.                               *)
LEMMA BindInvariant == NoShifts => (Spec => []BindInv)
<1> SUFFICES ASSUME NoShifts
             PROVE  Spec => []BindInv
  OBVIOUS
<1>1. BindInv /\ [Next]_vars => BindInv'
  BY BindInvStep
<1> QED BY BindInvInit, <1>1, PTL DEF Spec

-----------------------------------------------------------------------------
(* A new row never takes the name of another, though names are taken back  *)
(* when a result is reused: insert never keeps an older row in the place   *)
(* of a new one (LiMArray.cpp:44,64,76; LiMBinder.cpp:392,950).            *)
THEOREM NamesAreFresh == NoShifts => (Spec => []FreshNames)
<1> SUFFICES ASSUME NoShifts
             PROVE  Spec => []FreshNames
  OBVIOUS
<1>1. ASSUME BindInv
      PROVE  FreshNames
  <2>1. /\ DOMAIN FSM2 = Rows /\ \A r \in Rows : r < zeroAddr
        /\ IsBinding => dest \notin Rows
    BY <1>1 DEF BindInv, Placed, Fresh
  <2>2. ASSUME Binding
        PROVE  dest < zeroAddr /\ dest \notin Rows
    <3>1. IsBinding
      BY <2>2 DEF Binding, IsBinding
    <3>2. dest = zeroAddr - 1 /\ zeroAddr \in Nat
      BY <1>1, <3>1, OperandTypes DEF BindInv, TypeInv
    <3>3. dest < zeroAddr
      BY <3>2
    <3> QED BY <2>1, <3>1, <3>3
  <2> QED BY <2>1, <2>2 DEF FreshNames
<1> QED BY <1>1, BindInvariant, PTL

(* A result is written strictly after both its operands, whatever branch   *)
(* bound it and whatever came to share its rows since                      *)
(* (LiMBinder.cpp:1076-1079,1089-1128).                                    *)
THEOREM ResultsAfterOperands == NoShifts => (Spec => []Causality)
<1> SUFFICES ASSUME NoShifts
             PROVE  Spec => []Causality
  OBVIOUS
<1>1. BindInv => Causality
  BY DEF BindInv, Results, ResultOK, Causality
<1> QED BY <1>1, BindInvariant, PTL

(* The row that feeds a result keeps its logic and goes on to combine both *)
(* operands, whatever is bound to it later; the one operand lost on the    *)
(* way is that of a shared row whose own first line it was                 *)
(* (LiMBinder.cpp:958-1070, LiMArray.cpp:83-166).                          *)
THEOREM ResultsStayDriven == NoShifts => (Spec => []ResultsDriven)
<1> SUFFICES ASSUME NoShifts
             PROVE  Spec => []ResultsDriven
  OBVIOUS
<1>1. BindInv => ResultsDriven
  BY DEF BindInv, Results, ResultOK, Fed, ResultsDriven
<1> QED BY <1>1, BindInvariant, PTL

(* A result reused for an element whose operands differ is a result of     *)
(* that operation on those two operands, although lastDestMap keeps one    *)
(* row per operand and no operation (LiMBinder.cpp:924-950).               *)
THEOREM ReuseIsSound == NoShifts => (Spec => []ReuseSound)
<1> SUFFICES ASSUME NoShifts
             PROVE  Spec => []ReuseSound
  OBVIOUS
<1>1. BindInv => ReuseSound
  BY DEF BindInv, Answered, ReuseSound
<1> QED BY <1>1, BindInvariant, PTL

(* No row is wired to more operands than a multiplexer of two selects, and *)
(* a row with two is selected in some state (LiMBinder.cpp:999-1047,1109). *)
THEOREM MuxesAreSelected == NoShifts => (Spec => []MuxSelected)
<1> SUFFICES ASSUME NoShifts
             PROVE  Spec => []MuxSelected
  OBVIOUS
<1>1. ASSUME BindInv
      PROVE  MuxSelected
  <2>1. LinesOK(limArray, selectionSignalsList)
    BY <1>1 DEF BindInv
  <2>2. ASSUME NEW r \in Rows
        PROVE  /\ Len(limArray[r].inputConnections) <= 3
               /\ Len(limArray[r].inputConnections) = 3 =>
                    \E k \in DOMAIN selectionSignalsList :
                      selectionSignalsList[k].destRow = r
    <3> DEFINE n == Len(limArray[r].inputConnections)
    <3>1. /\ n \in 1..3
          /\ n = 3 => \E k \in DOMAIN selectionSignalsList :
                        selectionSignalsList[k].destRow = r
      BY <2>1 DEF LinesOK, Rows
    <3> HIDE DEF n
    <3>2. n <= 3
      BY <3>1
    <3> QED BY <3>1, <3>2 DEF n
  <2> QED BY <2>2 DEF MuxSelected
<1> QED BY <1>1, BindInvariant, PTL

(* The machine the FSM describes writes every row of the array and nothing *)
(* else (LiMBinder.cpp:95-101, FiniteStateMachine.cpp:68-88).              *)
THEOREM RowsAreWritten == NoShifts => (Spec => []EveryRowWritten)
<1> SUFFICES ASSUME NoShifts
             PROVE  Spec => []EveryRowWritten
  OBVIOUS
<1>1. ASSUME BindInv
      PROVE  EveryRowWritten
  <2> SUFFICES ASSUME status = "done"
               PROVE  UNION {FSM[t] : t \in DOMAIN FSM} = Rows
    BY DEF EveryRowWritten
  <2>1. FSM = transform(FSM2) /\ DOMAIN FSM2 = Rows
    BY <1>1 DEF BindInv, Transformed, Placed
  <2>2. /\ DOMAIN FSM = {FSM2[r] : r \in Rows}
        /\ \A t \in DOMAIN FSM : FSM[t] = {r \in Rows : FSM2[r] = t}
    BY <2>1 DEF transform
  <2> QED BY <2>2
<1> QED BY <1>1, BindInvariant, PTL

(* A state is used only if every state before it is, so the states are     *)
(* fewer than the keys of the FSM.                                         *)
LEMMA ChainLong ==
  ASSUME BindInv, status = "done"
  PROVE  /\ getFSMSize \in Nat
         /\ \A t \in DOMAIN FSM : t < getFSMSize
         /\ \A r \in Rows : FSM2[r] \in DOMAIN FSM
         /\ \A t \in DOMAIN FSM : FSM[t] = {r \in Rows : FSM2[r] = t}
<1>1. FSM = transform(FSM2) /\ DOMAIN FSM2 = Rows
  BY DEF BindInv, Transformed, Placed
<1>2. /\ DOMAIN FSM = {FSM2[r] : r \in Rows}
      /\ \A t \in DOMAIN FSM : FSM[t] = {r \in Rows : FSM2[r] = t}
  BY <1>1 DEF transform
<1>3. IsFiniteSet(DOMAIN FSM)
  <2>1. IsFiniteSet(Rows)
    BY DEF BindInv
  <2> DEFINE f == [r \in Rows |-> FSM2[r]]
  <2>2. f \in Surjection(Rows, DOMAIN FSM)
    BY <1>2, Fun_IsSurj
  <2> HIDE DEF f
  <2> QED BY <2>1, <2>2, FS_Surjection
<1>4. getFSMSize \in Nat
  BY <1>3, FS_CardinalityType DEF getFSMSize
<1>5. ASSUME NEW t \in DOMAIN FSM
      PROVE  t < getFSMSize
  <2>1. t \in Nat
    BY <1>1, <1>2 DEF BindInv, TypeInv, TypeOK
  <2>2. 0..t \subseteq DOMAIN FSM
    BY <1>1, <1>2 DEF BindInv, Steady
  <2>3. Cardinality(0..t) = t + 1
    BY <2>1, FS_Interval
  <2>4. Cardinality(0..t) <= Cardinality(DOMAIN FSM)
    BY <1>3, <2>2, FS_Subset
  <2> QED BY <1>4, <2>1, <2>3, <2>4 DEF getFSMSize
<1> QED BY <1>2, <1>4, <1>5

(* The chain of states, as long as the FSM has keys, passes through all of *)
(* them: a state a multiplexer skips is one another result is written in   *)
(* (LiMBinder.cpp:1109-1115, PrintVhdlFile.cpp:945-964).                   *)
THEOREM StatesInChain == NoShifts => (Spec => []StatesReachable)
<1> SUFFICES ASSUME NoShifts
             PROVE  Spec => []StatesReachable
  OBVIOUS
<1>1. BindInv => StatesReachable
  BY ChainLong DEF StatesReachable
<1> QED BY <1>1, BindInvariant, PTL

(* Rows, states and multiplexers agree whatever was shared, copied or      *)
(* reused on the way (LiMBinder.cpp:1049-1128).                            *)
THEOREM RowsAndStates == NoShifts => (Spec => []RowsAndStatesAgree)
BY RowsAreWritten, StatesInChain, MuxesAreSelected, PTL DEF RowsAndStatesAgree

-----------------------------------------------------------------------------
(* What becomes of elements that no branch binds.                          *)

(* A row is known if it is in the array or was given for some element.     *)
Known(x, arr, given) == x \in DOMAIN arr \/ \E a \in given : a.row = x

NamesKnown ==
  \A reg \in Named : \A k \in DOMAIN arrayNamesMap[reg] :
    Known(arrayNamesMap[reg][k], limArray, answers)

OperandsKnown ==
  IsBinding => /\ \A k \in DOMAIN ins.src1 : Known(ins.src1[k], limArray, answers)
               /\ \A k \in DOMAIN ins.src2 : Known(ins.src2[k], limArray, answers)

LossInv ==
  /\ LostOnlyByOtherOperation
  /\ MissingRowsWereLost
  /\ NamesKnown
  /\ OperandsKnown

LEMMA PushBackElements ==
  ASSUME NEW S, NEW m, NEW key, NEW v \in S, \A x \in DOMAIN m : m[x] \in Seq(S),
         NEW x \in DOMAIN PushBack(m, key, v), NEW k \in DOMAIN PushBack(m, key, v)[x]
  PROVE  \/ PushBack(m, key, v)[x][k] = v
         \/ /\ x \in DOMAIN m /\ k \in DOMAIN m[x]
            /\ PushBack(m, key, v)[x][k] = m[x][k]
<1> DEFINE list == ListAt(m, key)
<1>1. list \in Seq(S)
  BY DEF ListAt
<1>2. /\ DOMAIN Append(list, v) = 1..(Len(list) + 1) /\ Len(list) \in Nat
      /\ DOMAIN list = 1..Len(list)
      /\ Append(list, v)[Len(list) + 1] = v
      /\ \A j \in 1..Len(list) : Append(list, v)[j] = list[j]
  BY <1>1, AppendProperties
<1>3. key \in DOMAIN m => list = m[key]
  BY DEF ListAt
<1>4. key \notin DOMAIN m => list = << >>
  BY DEF ListAt
<1>5. DOMAIN PushBack(m, key, v) = DOMAIN m \cup {key}
  BY DEF PushBack
<1>6. PushBack(m, key, v)[x] = IF x = key THEN Append(list, v) ELSE m[x]
  BY <1>5 DEF PushBack
<1> HIDE DEF list
<1>7. CASE x = key
  <2>1. CASE k = Len(list) + 1
    BY <1>2, <1>6, <1>7, <2>1
  <2>2. CASE k # Len(list) + 1
    <3>1. k \in 1..Len(list) /\ PushBack(m, key, v)[x][k] = list[k]
      BY <1>2, <1>6, <1>7, <2>2
    <3>2. key \in DOMAIN m
      BY <1>4, <3>1
    <3> QED BY <1>2, <1>3, <1>7, <3>1, <3>2
  <2> QED BY <2>1, <2>2
<1>8. CASE x # key
  BY <1>5, <1>6, <1>8
<1> QED BY <1>7, <1>8

LEMMA KnownKept ==
  ASSUME answers \subseteq answers', Rows \subseteq Rows',
         NEW x, Known(x, limArray, answers)
  PROVE  Known(x, limArray', answers')
BY DEF Known, Rows

(* The operands of the next element are those of this one, or none.        *)
LEMMA OperandsStayKnown ==
  ASSUME TypeOK, OperandsKnown, IsBinding, NEW name, NextElement(name),
         answers \subseteq answers', Rows \subseteq Rows'
  PROVE  OperandsKnown'
<1>1. CASE ins.i = ins.n
  BY <1>1 DEF NextElement, OperandsKnown, IsBinding, Busy
<1>2. CASE ins.i # ins.n
  <2>1. ins' = [ins EXCEPT !.i = @ + 1, !.dest = name] /\ ins \in Instruction
    BY <1>2 DEF NextElement, TypeOK, IsBinding, Busy
  <2>2. ins'.src1 = ins.src1 /\ ins'.src2 = ins.src2
    BY <2>1 DEF Instruction
  <2>3. /\ \A k \in DOMAIN ins.src1 : Known(ins.src1[k], limArray', answers')
        /\ \A k \in DOMAIN ins.src2 : Known(ins.src2[k], limArray', answers')
    <3>1. /\ \A k \in DOMAIN ins.src1 : Known(ins.src1[k], limArray, answers)
          /\ \A k \in DOMAIN ins.src2 : Known(ins.src2[k], limArray, answers)
      BY DEF OperandsKnown
    <3> QED BY <3>1, KnownKept
  <2> QED BY <2>2, <2>3 DEF OperandsKnown
<1> QED BY <1>1, <1>2

(* The names after an element is given the row kept for it.                *)
LEMMA NamesAnswered ==
  ASSUME TypeOK, InsOK, IsBinding, NamesKnown, AnswerDest, Rows \subseteq Rows'
  PROVE  NamesKnown'
<1>1. dest \in Row /\ \A x \in DOMAIN arrayNamesMap : arrayNamesMap[x] \in Seq(Row)
  BY OperandTypes DEF TypeOK, Named
<1>2. /\ arrayNamesMap' = PushBack(arrayNamesMap, ins.destReg, dest)
      /\ answers' = answers \cup {Asked(dest)} /\ Asked(dest).row = dest
  BY DEF AnswerDest, Asked
<1>3. ASSUME NEW x \in DOMAIN arrayNamesMap', NEW k \in DOMAIN arrayNamesMap'[x]
      PROVE  \/ arrayNamesMap'[x][k] = dest
             \/ Known(arrayNamesMap'[x][k], limArray, answers)
  <2>1. \/ arrayNamesMap'[x][k] = dest
        \/ /\ x \in DOMAIN arrayNamesMap /\ k \in DOMAIN arrayNamesMap[x]
           /\ arrayNamesMap'[x][k] = arrayNamesMap[x][k]
    BY <1>1, <1>2, PushBackElements
  <2> QED BY <2>1 DEF NamesKnown, Named
<1>4. Known(dest, limArray', answers')
  BY <1>2 DEF Known
<1>5. answers \subseteq answers'
  BY <1>2
<1> QED BY <1>3, <1>4, <1>5, KnownKept DEF NamesKnown, Named

(* What the branches that add a result keep: dest is a row from now on.    *)
LEMMA ResultLoss ==
  ASSUME BindInv, LossInv, IsBinding, status = "running",
         NEW arr, NEW fsm2, NEW row, NEW time, NEW name,
         Rows \subseteq DOMAIN arr, AddResult(arr, fsm2, row, time), NextElement(name)
  PROVE  LossInv'
<1>1. /\ TypeOK /\ InsOK
      /\ LostOnlyByOtherOperation /\ NamesKnown /\ OperandsKnown
  BY DEF BindInv, TypeInv, LossInv
<1>2. Rows \subseteq Rows'
  <2>1. limArray' = Insert(arr, dest, [rowType |-> "load", inputConnections |-> <<row>>])
    BY DEF AddResult, addNewResultRow
  <2>2. DOMAIN limArray' = DOMAIN arr \cup {dest}
    BY <2>1 DEF Insert
  <2> QED BY <2>2 DEF Rows
<1>3. /\ AnswerDest /\ answers' = answers \cup {Asked(dest)} /\ Asked(dest).row = dest
      /\ status' = "running"
  BY DEF AddResult, AnswerDest, Asked
<1>4. /\ DOMAIN computes' = DOMAIN computes \cup {dest}
      /\ \A r \in DOMAIN computes : computes'[r] = computes[r]
  <2>1. computes' = Insert(computes, dest, Asked(dest))
    BY DEF AddResult
  <2> QED BY <2>1 DEF Insert
<1>5. LostOnlyByOtherOperation'
  <2> SUFFICES ASSUME NEW a \in answers', a.row \notin DOMAIN computes'
               PROVE  \E r \in DOMAIN computes' :
                        /\ {a.src1, a.src2} \subseteq {computes'[r].src1, computes'[r].src2}
                        /\ computes'[r].operation # a.operation
    BY DEF LostOnlyByOtherOperation
  <2>1. a \in answers /\ a.row \notin DOMAIN computes
    BY <1>3, <1>4
  <2>2. PICK r \in DOMAIN computes :
          /\ {a.src1, a.src2} \subseteq {computes[r].src1, computes[r].src2}
          /\ computes[r].operation # a.operation
    BY <1>1, <2>1 DEF LostOnlyByOtherOperation
  <2> QED BY <1>4, <2>2
<1>6. NamesKnown'
  BY <1>1, <1>2, <1>3, NamesAnswered
<1>7. OperandsKnown'
  BY <1>1, <1>2, <1>3, OperandsStayKnown
<1> QED BY <1>3, <1>5, <1>6, <1>7 DEF LossInv, MissingRowsWereLost

(* Reuse names a row of the array, and drops none.                         *)
LEMMA ReuseLoss ==
  ASSUME BindInv, LossInv, ReuseResult
  PROVE  LossInv'
<1> DEFINE L == lastDestMap[src1]
           named == PushBack(arrayNamesMap, ins.destReg, dest)
<1>1. /\ TypeOK /\ InsOK /\ IsBinding /\ status' = "running"
      /\ LostOnlyByOtherOperation /\ NamesKnown /\ OperandsKnown
      /\ src1 \in DOMAIN lastDestMap
      /\ NextElement(zeroAddr - 1)
      /\ answers' = answers \cup {Asked(L)}
      /\ limArray' = limArray /\ computes' = computes
      /\ arrayNamesMap' = [named EXCEPT ![ins.destReg] = addNewItemInRefPos(@, L)]
  BY DEF BindInv, TypeInv, LossInv, ReuseResult, Binding, IsBinding, SameResult, tables
<1>2. L \in DOMAIN computes /\ L \in Rows /\ Rows' = Rows
  BY <1>1 DEF BindInv, Remembered, Results, ResultOK, Rows
<1>3. LostOnlyByOtherOperation'
  <2>1. Asked(L).row = L
    BY DEF Asked
  <2> QED BY <1>1, <1>2, <2>1 DEF LostOnlyByOtherOperation
<1>4. OperandsKnown'
  BY <1>1, <1>2, OperandsStayKnown
<1>5. answers \subseteq answers' /\ Rows \subseteq Rows'
  BY <1>1, <1>2
<1>6. ASSUME NEW x \in DOMAIN arrayNamesMap', NEW k \in DOMAIN arrayNamesMap'[x]
      PROVE  Known(arrayNamesMap'[x][k], limArray', answers')
  <2>1. dest \in Row /\ \A y \in DOMAIN arrayNamesMap : arrayNamesMap[y] \in Seq(Row)
    BY <1>1, OperandTypes DEF TypeOK, Named
  <2>2. \/ named[x][k] = dest
        \/ /\ x \in DOMAIN arrayNamesMap /\ k \in DOMAIN arrayNamesMap[x]
           /\ named[x][k] = arrayNamesMap[x][k]
    <3>1. x \in DOMAIN named
      BY <1>1
    <3>2. k \in DOMAIN named[x]
      BY <1>1, <3>1 DEF addNewItemInRefPos
    <3> QED BY <2>1, <3>1, <3>2, PushBackElements
  <2>3. arrayNamesMap'[x][k] = named[x][k] \/ arrayNamesMap'[x][k] = L
    BY <1>1 DEF addNewItemInRefPos
  <2>4. x = ins.destReg /\ named[x][k] = dest => arrayNamesMap'[x][k] = L
    BY <1>1 DEF addNewItemInRefPos
  <2>5. x # ins.destReg => named[x] = arrayNamesMap[x] /\ x \in DOMAIN arrayNamesMap
    BY <1>1 DEF PushBack
  <2> HIDE DEF L, named
  <2>6. Known(L, limArray', answers')
    BY <1>2 DEF Known, Rows
  <2>7. ASSUME NEW y \in DOMAIN arrayNamesMap, NEW j \in DOMAIN arrayNamesMap[y]
        PROVE  Known(arrayNamesMap[y][j], limArray, answers)
    BY <1>1 DEF NamesKnown, Named
  <2>8. CASE arrayNamesMap'[x][k] = L
    BY <2>6, <2>8
  <2>9. CASE arrayNamesMap'[x][k] # L
    <3>1. /\ x \in DOMAIN arrayNamesMap /\ k \in DOMAIN arrayNamesMap[x]
          /\ arrayNamesMap'[x][k] = arrayNamesMap[x][k]
      <4>1. CASE x = ins.destReg
        BY <2>2, <2>3, <2>4, <2>9, <4>1
      <4>2. CASE x # ins.destReg
        <5>1. arrayNamesMap'[x] = named[x]
          BY <1>1, <4>2 DEF named
        <5> QED BY <2>5, <4>2, <5>1
      <4> QED BY <4>1, <4>2
    <3>2. Known(arrayNamesMap[x][k], limArray, answers)
      BY <2>7, <3>1
    <3> QED BY <1>5, <3>1, <3>2, KnownKept
  <2> QED BY <2>8, <2>9
<1>7. NamesKnown'
  BY <1>6 DEF NamesKnown, Named
<1> QED BY <1>1, <1>3, <1>4, <1>7 DEF LossInv, MissingRowsWereLost

(* An element is dropped when its operands made a result together, of      *)
(* another operation.                                                      *)
LEMMA DropLoss ==
  ASSUME BindInv, LossInv, DropOperation
  PROVE  LossInv'
<1> DEFINE L == lastDestMap[src1]
           q == computes[L]
<1>1. /\ TypeOK /\ InsOK /\ IsBinding /\ status' = "running"
      /\ LostOnlyByOtherOperation /\ NamesKnown /\ OperandsKnown
      /\ src1 \in DOMAIN lastDestMap /\ src2 \in DOMAIN lastDestMap
      /\ lastDestMap[src1] = lastDestMap[src2]
      /\ limArray[effInDest].rowType # operation
      /\ NextElement(zeroAddr) /\ AnswerDest
      /\ answers' = answers \cup {Asked(dest)}
      /\ limArray' = limArray /\ computes' = computes
  BY DEF BindInv, TypeInv, LossInv, DropOperation, Binding, IsBinding, SameResult,
         isLiMRowOfThisType, AnswerDest, tables
<1>2. /\ L \in DOMAIN computes
      /\ src1 = q.src1 \/ src1 = q.src2
      /\ src2 = q.src1 \/ src2 = q.src2
  BY <1>1 DEF BindInv, Remembered
<1>3. q.operation # operation
  <2>1. Fed(Driver(L), q)
    BY <1>2 DEF BindInv, Results, ResultOK
  <2>2. limArray[Driver(L)].rowType = q.operation
    BY <2>1 DEF Fed, Feeds, OperandDropped
  <2> QED BY <1>1, <2>2 DEF effInDest, Driver
<1>4. LostOnlyByOtherOperation'
  <2> SUFFICES ASSUME NEW a \in answers', a.row \notin DOMAIN computes
               PROVE  \E r \in DOMAIN computes :
                        /\ {a.src1, a.src2} \subseteq {computes[r].src1, computes[r].src2}
                        /\ computes[r].operation # a.operation
    BY <1>1 DEF LostOnlyByOtherOperation
  <2>1. CASE a \in answers
    BY <1>1, <2>1 DEF LostOnlyByOtherOperation
  <2>2. CASE a = Asked(dest)
    <3>1. a.src1 = src1 /\ a.src2 = src2 /\ a.operation = operation
      BY <2>2 DEF Asked
    <3> QED BY <1>2, <1>3, <3>1
  <2> QED BY <1>1, <2>1, <2>2
<1>5. Rows \subseteq Rows'
  BY <1>1 DEF Rows
<1>6. NamesKnown'
  BY <1>1, <1>5, NamesAnswered
<1>7. OperandsKnown'
  BY <1>1, <1>5, OperandsStayKnown
<1> QED BY <1>1, <1>4, <1>6, <1>7 DEF LossInv, MissingRowsWereLost

(* A loaded word is named after a new row.                                 *)
LEMMA LoadLoss ==
  ASSUME BindInv, LossInv, BindLoad
  PROVE  LossInv'
<1>1. /\ DOMAIN limArray' = DOMAIN limArray \cup {zeroAddr}
      /\ arrayNamesMap' = PushBack(arrayNamesMap, ins.destReg, zeroAddr)
      /\ status' = "running" /\ computes' = computes /\ answers' = answers
  BY DEF BindLoad, addNewRow, Insert, history
<1>2. ~IsBinding'
  <2>1. CASE ins.i = ins.n
    BY <2>1 DEF BindLoad, IsBinding, Busy
  <2>2. CASE ins.i # ins.n
    <3>1. ins' = [ins EXCEPT !.i = @ + 1] /\ ins \in Instruction /\ ins.operation = "load"
      BY <2>2 DEF BindLoad, Busy, BindInv, TypeInv, TypeOK
    <3> QED BY <3>1 DEF Instruction, IsBinding, operation
  <2> QED BY <2>1, <2>2
<1>3. LostOnlyByOtherOperation'
  BY <1>1 DEF LossInv, LostOnlyByOtherOperation
<1>4. ASSUME NEW x \in DOMAIN arrayNamesMap', NEW k \in DOMAIN arrayNamesMap'[x]
      PROVE  Known(arrayNamesMap'[x][k], limArray', answers')
  <2>1. zeroAddr \in Row /\ \A y \in DOMAIN arrayNamesMap : arrayNamesMap[y] \in Seq(Row)
    BY DEF BindInv, TypeInv, TypeOK, Named, Row
  <2>2. \/ arrayNamesMap'[x][k] = zeroAddr
        \/ /\ x \in DOMAIN arrayNamesMap /\ k \in DOMAIN arrayNamesMap[x]
           /\ arrayNamesMap'[x][k] = arrayNamesMap[x][k]
    BY <1>1, <2>1, PushBackElements
  <2>3. \/ arrayNamesMap'[x][k] = zeroAddr
        \/ Known(arrayNamesMap'[x][k], limArray, answers)
    BY <2>2 DEF LossInv, NamesKnown, Named
  <2> QED BY <1>1, <2>3 DEF Known
<1>5. NamesKnown'
  BY <1>4 DEF NamesKnown, Named
<1> QED BY <1>1, <1>2, <1>3, <1>5 DEF LossInv, OperandsKnown, MissingRowsWereLost

(* The rows of the operands are names of registers.                        *)
LEMMA FetchOperationLoss ==
  ASSUME BindInv, LossInv, NEW op \in Ops, NEW reg \in Temps,
         NEW reg1 \in Named, NEW reg2 \in Named,
         NEW a1 \in Accesses, NEW a2 \in Accesses,
         FetchOperation(op, reg, reg1, a1, reg2, a2)
  PROVE  LossInv'
<1>1. /\ TypeOK /\ NamesKnown /\ status' = "running"
      /\ limArray' = limArray /\ computes' = computes /\ answers' = answers
      /\ arrayNamesMap' = arrayNamesMap
      /\ Readable(reg1, a1) /\ Readable(reg2, a2)
      /\ ins'.src1 = RowsOf(reg1, a1) /\ ins'.src2 = RowsOf(reg2, a2)
  BY DEF BindInv, TypeInv, LossInv, FetchOperation, tables, history
<1>2. ASSUME NEW r \in Named, NEW access \in Accesses, Readable(r, access),
             NEW k \in DOMAIN RowsOf(r, access)
      PROVE  Known(RowsOf(r, access)[k], limArray, answers)
  <2>1. k \in DOMAIN access /\ RowsOf(r, access)[k] = arrayNamesMap[r][access[k]]
    BY DEF RowsOf
  <2>2. access[k] \in Nat \ {0} /\ access[k] <= Len(arrayNamesMap[r])
    BY <1>2, <2>1, AccessAssumption DEF Readable
  <2>3. access[k] \in DOMAIN arrayNamesMap[r]
    <3>1. arrayNamesMap[r] \in Seq(Row)
      BY <1>1 DEF TypeOK
    <3> QED BY <2>2, <3>1
  <2> QED BY <1>1, <2>1, <2>3 DEF NamesKnown
<1>3. \A k \in DOMAIN RowsOf(reg1, a1) : Known(RowsOf(reg1, a1)[k], limArray, answers)
  BY <1>1, <1>2
<1>4. \A k \in DOMAIN RowsOf(reg2, a2) : Known(RowsOf(reg2, a2)[k], limArray, answers)
  BY <1>1, <1>2
<1>5. OperandsKnown'
  <2>1. /\ \A k \in DOMAIN ins'.src1 : Known(ins'.src1[k], limArray, answers)
        /\ \A k \in DOMAIN ins'.src2 : Known(ins'.src2[k], limArray, answers)
    BY <1>1, <1>3, <1>4
  <2> QED BY <1>1, <2>1 DEF OperandsKnown
<1>6. LostOnlyByOtherOperation' /\ NamesKnown'
  BY <1>1 DEF LossInv, LostOnlyByOtherOperation, NamesKnown, Named
<1> QED BY <1>1, <1>5, <1>6 DEF LossInv, MissingRowsWereLost

(* A row that is looked up and not found was given for an element lost.    *)
LEMMA MissingRowLoss ==
  ASSUME NoShifts, BindInv, LossInv, MissingRow
  PROVE  LossInv'
<1>1. /\ TypeOK /\ InsOK /\ IsBinding
      /\ limArray' = limArray /\ computes' = computes /\ answers' = answers
      /\ arrayNamesMap' = arrayNamesMap /\ ins' = ins
      /\ LostOnlyByOtherOperation /\ NamesKnown /\ OperandsKnown
  BY DEF BindInv, TypeInv, LossInv, MissingRow, Binding, IsBinding, tables, history
<1>2. src1 \notin Rows \/ src2 \notin Rows
  <2>1. operation \notin ShiftOps
    BY <1>1, OperandTypes DEF NoShifts
  <2> QED BY <2>1 DEF MissingRow, Present, BindInv, Placed, Rows
<1>3. Known(src1, limArray, answers) /\ Known(src2, limArray, answers)
  <2>1. /\ ins.src1 \in Seq(Row) /\ ins.src2 \in Seq(Row)
        /\ ins.i \in 1..ins.n /\ ins.n \in Nat
        /\ Len(ins.src1) \in {1, ins.n} /\ Len(ins.src2) \in {1, ins.n}
    BY <1>1, OperandTypes DEF InsOK, Instruction
  <2>2. /\ \E k \in DOMAIN ins.src1 : src1 = ins.src1[k]
        /\ \E k \in DOMAIN ins.src2 : src2 = ins.src2[k]
    BY <2>1 DEF src1, src2
  <2> QED BY <1>1, <2>2 DEF OperandsKnown
<1>4. \E a \in answers : a.row \in {src1, src2} \ DOMAIN computes
  <2>1. PICK x \in {src1, src2} : x \notin Rows
    BY <1>2
  <2>2. PICK a \in answers : a.row = x
    BY <1>3, <2>1 DEF Known, Rows
  <2>3. x \notin DOMAIN computes
    BY <2>1 DEF BindInv, Results, ResultOK
  <2> QED BY <2>1, <2>2, <2>3
<1>5. MissingRowsWereLost'
  BY <1>1, <1>4 DEF MissingRowsWereLost, src1, src2
<1>6. LostOnlyByOtherOperation' /\ NamesKnown' /\ OperandsKnown'
  BY <1>1
  DEF LostOnlyByOtherOperation, NamesKnown, OperandsKnown, Named, IsBinding, Busy,
      operation
<1> QED BY <1>5, <1>6 DEF LossInv

(* Steps that bind nothing.                                                *)
LEMMA NothingLost ==
  ASSUME BindInv, LossInv,
         limArray' = limArray, computes' = computes, answers' = answers,
         arrayNamesMap' = arrayNamesMap,
         ~IsBinding' \/ ins' = ins,
         status' # "row not in limArray" \/ (status' = status /\ ins' = ins)
  PROVE  LossInv'
<1>1. LostOnlyByOtherOperation' /\ NamesKnown'
  BY DEF LossInv, LostOnlyByOtherOperation, NamesKnown, Named
<1>2. OperandsKnown'
  BY DEF LossInv, OperandsKnown, IsBinding, Busy, operation
<1>3. MissingRowsWereLost'
  BY DEF LossInv, MissingRowsWereLost, src1, src2
<1> QED BY <1>1, <1>2, <1>3 DEF LossInv

LEMMA LossStep ==
  ASSUME NoShifts, BindInv, LossInv, [Next]_vars
  PROVE  LossInv'
<1>1. ASSUME NEW reg \in Vars, NEW n \in 1..MaxSize, FetchLoad(reg, n)
      PROVE  LossInv'
  <2>1. ins'.operation = "load" /\ status' = "running"
    BY <1>1 DEF FetchLoad
  <2>2. ~IsBinding'
    BY <2>1 DEF IsBinding, operation
  <2> QED BY <1>1, <2>1, <2>2, NothingLost DEF FetchLoad, tables, history
<1>2. CASE BindLoad
  BY <1>2, LoadLoss
<1>3. ASSUME NEW op \in Ops, NEW reg \in Temps, NEW reg1 \in Named, NEW reg2 \in Named,
             NEW a1 \in Accesses, NEW a2 \in Accesses,
             FetchOperation(op, reg, reg1, a1, reg2, a2)
      PROVE  LossInv'
  BY <1>3, FetchOperationLoss
<1>4. CASE FetchConstantOperand
  <2>1. status' = "name not in arrayNamesMap"
    BY <1>4, Zenon DEF FetchConstantOperand
  <2>2. UNCHANGED <<tables, FSM, arrayNamesMap, shiftAmount, ins, history>>
    BY <1>4, Zenon DEF FetchConstantOperand
  <2> QED BY <2>1, <2>2, NothingLost DEF tables, history
<1>5. CASE MissingRow
  BY <1>5, MissingRowLoss
<1>6. CASE Finish
  <2>1. /\ status' = "done" /\ ins' = ins /\ arrayNamesMap' = arrayNamesMap
        /\ UNCHANGED <<tables, history>>
    BY <1>6 DEF Finish, tables, history
  <2> QED BY <2>1, NothingLost DEF tables, history
<1>7. CASE ReuseResult
  BY <1>7, ReuseLoss
<1>8. CASE DropOperation
  BY <1>8, DropLoss
<1>9. ASSUME CanBind
      PROVE  IsBinding /\ status = "running"
  BY <1>9 DEF CanBind, Binding, IsBinding
<1>10. ASSUME NEW row, NEW other, CanBind, Convert(row, other)
       PROVE  LossInv'
  <2> DEFINE arr == addNewInputConnection(
                      changeLiMRowType(limArray, row, operation), row, other)
  <2>1. DOMAIN arr = Rows
    BY DEF addNewInputConnection, changeLiMRowType, Rows
  <2>2. AddResult(arr, FSM2, row, activeTime) /\ NextElement(zeroAddr)
    BY <1>10 DEF Convert
  <2> HIDE DEF arr
  <2> QED BY <1>9, <1>10, <2>1, <2>2, ResultLoss
<1>11. ASSUME NEW row, NEW other, CanBind, Share(row, other)
       PROVE  LossInv'
  <2> DEFINE arr == addNewInputConnection(limArray, row, other)
  <2>1. DOMAIN arr = Rows
    BY DEF addNewInputConnection, Rows
  <2>2. AddResult(arr, FSM2, row, tMux) /\ NextElement(zeroAddr)
    BY <1>11 DEF Share
  <2> HIDE DEF arr
  <2> QED BY <1>9, <1>11, <2>1, <2>2, ResultLoss
<1>12. CASE ConvertSrc2 \/ ConvertSrc1
  BY <1>10, <1>12 DEF ConvertSrc2, ConvertSrc1
<1>13. CASE ShareSrc2 \/ ShareSrc1
  BY <1>11, <1>13 DEF ShareSrc2, ShareSrc1
<1>14. CASE CopyRow
  <2> DEFINE arr == addNewInputConnection(
                      addNewLiMRow(limArray, zeroAddr, operation, src1), zeroAddr, src2)
             fsm2 == addNewInstruction(FSM2, activeTime, zeroAddr)
  <2>1. Rows \subseteq DOMAIN arr
    BY DEF addNewInputConnection, addNewLiMRow, Insert, Rows
  <2>2. /\ AddResult(arr, fsm2, zeroAddr, activeTime + 1)
        /\ NextElement(zeroAddr + 1) /\ CanBind
    BY <1>14 DEF CopyRow
  <2> HIDE DEF arr, fsm2
  <2> QED BY <1>9, <2>1, <2>2, ResultLoss
<1>15. CASE ShiftInPlace \/ ShiftCopy
  <2>1. IsBinding /\ operation \in ShiftOps
    BY <1>15 DEF ShiftInPlace, ShiftCopy, CanShift, Binding, IsBinding
  <2>2. operation \in Ops
    BY <2>1, OperandTypes DEF BindInv, TypeInv
  <2> QED BY <2>1, <2>2 DEF NoShifts
<1>16. CASE UNCHANGED vars
  BY <1>16, NothingLost DEF vars
<1> QED
  BY <1>1, <1>2, <1>3, <1>4, <1>5, <1>6, <1>7, <1>8, <1>12, <1>13, <1>14, <1>15, <1>16
  DEF Next, performBinding

LEMMA LossInvariant == NoShifts => (Spec => []LossInv)
<1> SUFFICES ASSUME NoShifts
             PROVE  Spec => []LossInv
  OBVIOUS
<1>1. Init => LossInv
  BY DEF Init, EmptyMap, LossInv, LostOnlyByOtherOperation, MissingRowsWereLost,
         NamesKnown, Named, OperandsKnown, IsBinding, Busy
<1>2. BindInv /\ LossInv /\ [Next]_vars => LossInv'
  BY LossStep
<1> QED BY <1>1, <1>2, BindInvariant, PTL DEF Spec

(* An element is left without a row of its own only when its two operands  *)
(* already made one result, of another operation                           *)
(* (LiMBinder.cpp:930-952).                                                *)
THEOREM LostElements == NoShifts => (Spec => []LostOnlyByOtherOperation)
BY LossInvariant, PTL DEF LossInv

(* The llvm_unreachable of findRow is reached only for the name of such an *)
(* element: every other name is that of a row (LiMArray.cpp:129-143).      *)
THEOREM UnreachableOnlyByLoss == NoShifts => (Spec => []MissingRowsWereLost)
BY LossInvariant, PTL DEF LossInv
=============================================================================
