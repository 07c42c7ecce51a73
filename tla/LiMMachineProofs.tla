-------------------------- MODULE LiMMachineProofs --------------------------
(***************************************************************************)
(* Proofs about LiMMachine, for every set of registers, operations and     *)
(* access lists and every array size: the machine that is printed computes *)
(* what the binder was asked for.  Programs with shifts are left out, as   *)
(* in LiMBinderProofs.                                                     *)
(*                                                                         *)
(* There are two invariants.  Ready is about the tables of the binder: it  *)
(* says what the machine needs of them and BindInv does not.  Computed is  *)
(* about the words: a row whose state is over holds its value for good.    *)
(***************************************************************************)
EXTENDS LiMMachine, LiMBinderProofs

(* The rows the testbench writes.                                          *)
Loads == {r \in Rows : Driver(r) = NoMemoryInput}

(* Loads come first, and take the first addresses.                         *)
LoadsFirst ==
  /\ \E n \in 0..zeroAddr : Loads = 0..(n - 1)
  /\ \A r \in Loads : FSM2[r] = 0
  /\ status = "running" /\ Named \subseteq Vars /\ ~IsBinding =>
       Rows = 0..(zeroAddr - 1) /\ Loads = Rows

(* A load names a variable before any result is named.                     *)
DestNamed ==
  Busy => IF operation = "load" THEN ins.destReg \in Vars /\ Named \subseteq Vars
          ELSE ins.destReg \in Temps

(* A variable stands for words written from outside.                       *)
VarsLoaded ==
  \A reg \in Vars \cap Named : \A k \in DOMAIN arrayNamesMap[reg] :
    arrayNamesMap[reg][k] \in Loads

(* An answer that is a row is the row of a result.                         *)
AnswersComputed == \A a \in answers : a.row \in Rows => a.row \in DOMAIN computes

(* Every other row copies one written before it.                           *)
CopiesLater ==
  \A r \in Rows \ (DOMAIN computes \cup Loads) :
    Driver(r) \in Rows /\ FSM2[Driver(r)] < FSM2[r]

(* The second line of the logic that feeds a result is the operand its own *)
(* word is not; a copy row holds the first operand by then.                *)
SecondLine(r) ==
  LET q == computes[r]
      d == Driver(r)
      wired == limArray[d].inputConnections
  IN  /\ Len(wired) >= 2
      /\ \/ d = q.src2 /\ wired[2] = q.src1
         \/ d = q.src1 /\ wired[2] = q.src2
         \/ /\ wired[1] = q.src1 /\ wired[2] = q.src2
            /\ d \notin DOMAIN computes /\ FSM2[d] < FSM2[r]

Unshared == selectionSignalsList = << >> => \A r \in DOMAIN computes : SecondLine(r)

Ready ==
  LoadsFirst /\ DestNamed /\ VarsLoaded /\ AnswersComputed /\ CopiesLater /\ Unshared

-----------------------------------------------------------------------------
(* The state that writes row r is over, and the one that reads it.         *)
Written(r) == 2 * FSM2[r] - 1 < T
ReadOut(r) == 2 * FSM2[r] < T

Asks(r) == Apply(computes[r].operation, Mem[computes[r].src1], Mem[computes[r].src2])

Computed ==
  T # Off =>
    /\ Elaborates /\ T \in Nat
    /\ \A r \in Loads : Mem[r] = Word(r)
    /\ \A r \in DOMAIN computes : Written(r) => Mem[r] = Asks(r)
    /\ \A r \in Rows \ (DOMAIN computes \cup Loads) : Written(r) => Mem[r] = Mem[Driver(r)]
    /\ \A r \in Rows : ReadOut(r) => MEM_RD[r] = Mem[r]

-----------------------------------------------------------------------------
(* What the tables are before the machine: the operands of a result and    *)
(* the row that feeds it are rows, so a result is no load.                 *)
LEMMA ResultRows ==
  ASSUME BindInv, NEW r \in DOMAIN computes
  PROVE  /\ r \in Rows /\ r \notin Loads
         /\ computes[r].src1 \in Rows /\ computes[r].src2 \in Rows
         /\ Driver(r) \in Rows
<1>1. /\ r \in Rows /\ computes[r].src1 \in Rows /\ computes[r].src2 \in Rows
      /\ Driver(r) \in Rows
  BY DEF BindInv, Results, ResultOK
<1>2. NoMemoryInput \notin Row
  BY DEF NoMemoryInput, Row
<1>3. Rows \subseteq Row
  BY DEF BindInv, TypeInv, TypeOK, Rows
<1> QED BY <1>1, <1>2, <1>3 DEF Loads

LEMMA TableTypes ==
  ASSUME BindInv
  PROVE  /\ ArrayOK(limArray) /\ DOMAIN limArray = Rows
         /\ Rows \subseteq Nat /\ DOMAIN FSM2 = Rows
         /\ \A r \in Rows : FSM2[r] \in Nat
         /\ \A r \in Rows : /\ limArray[r].inputConnections \in Seq(InputLine)
                            /\ Len(limArray[r].inputConnections) \in 1..3
                            /\ Driver(r) = limArray[r].inputConnections[1]
<1>1. /\ ArrayOK(limArray) /\ DOMAIN FSM2 = Rows /\ \A r \in Rows : FSM2[r] \in Nat
  BY TypeParts DEF BindInv, TypeInv, Placed, TimesOK
<1>2. Rows \subseteq Nat /\ DOMAIN limArray = Rows
  BY <1>1 DEF ArrayOK, Rows, Row
<1>3. ASSUME NEW r \in Rows
      PROVE  /\ limArray[r].inputConnections \in Seq(InputLine)
             /\ Len(limArray[r].inputConnections) \in 1..3
             /\ Driver(r) = limArray[r].inputConnections[1]
  <2>1. limArray[r].inputConnections \in Seq(InputLine)
    BY <1>1, <1>2 DEF ArrayOK
  <2>2. Len(limArray[r].inputConnections) \in 1..3
    BY <1>2 DEF BindInv, LinesOK
  <2>3. Head(limArray[r].inputConnections) = limArray[r].inputConnections[1]
    BY <2>1, <2>2
  <2> QED BY <2>1, <2>2, <2>3 DEF Driver
<1> QED BY <1>1, <1>2, <1>3

(* Rows that stay keep their first line; no row but a new one is a load.   *)
LEMMA DriversKept ==
  ASSUME BindInv, ArrayOK(limArray'), ExtendsArray(limArray, limArray')
  PROVE  /\ \A r \in Rows : Driver(r)' = Driver(r)
         /\ Rows \subseteq Rows'
<1>1. Rows \subseteq Rows'
  BY DEF ExtendsArray, Rows
<1>2. ASSUME NEW r \in Rows PROVE Driver(r)' = Driver(r)
  <2>1. ArrayOK(limArray) /\ Len(limArray[r].inputConnections) \in 1..3
    BY TableTypes
  <2> QED BY <2>1, FirstLineKept DEF Driver, Rows
<1> QED BY <1>1, <1>2

(* A result keeps its second line and its copy row.                        *)
LEMMA SecondLineKept ==
  ASSUME BindInv, ArrayOK(limArray'), ExtendsArray(limArray, limArray'),
         \A r \in Rows : FSM2'[r] = FSM2[r],
         NEW r \in DOMAIN computes, computes'[r] = computes[r],
         DOMAIN computes' \cap Rows \subseteq DOMAIN computes,
         SecondLine(r)
  PROVE  SecondLine(r)'
<1> DEFINE d == Driver(r)
           q == computes[r]
           old == limArray[d].inputConnections
           new == limArray'[d].inputConnections
<1>1. /\ r \in Rows /\ d \in Rows
      /\ Driver(r)' = d
  BY ResultRows, DriversKept
<1>2. /\ Len(old) \in Nat /\ Len(new) \in Nat
  BY <1>1, TableTypes, DriversKept DEF ArrayOK, Rows
<1>3. /\ Len(old) <= Len(new)
      /\ \A k \in 1..Len(old) : new[k] = old[k]
  BY <1>1 DEF ExtendsArray, Rows
<1>4. /\ Len(old) >= 2
      /\ \/ d = q.src2 /\ old[2] = q.src1
         \/ d = q.src1 /\ old[2] = q.src2
         \/ /\ old[1] = q.src1 /\ old[2] = q.src2
            /\ d \notin DOMAIN computes /\ FSM2[d] < FSM2[r]
  BY DEF SecondLine
<1>5. FSM2'[d] = FSM2[d] /\ FSM2'[r] = FSM2[r]
      /\ (d \notin DOMAIN computes => d \notin DOMAIN computes')
  BY <1>1
<1> HIDE DEF d, q, old, new
<1>6. Len(new) >= 2 /\ new[1] = old[1] /\ new[2] = old[2]
  BY <1>2, <1>3, <1>4
<1>7. /\ Len(new) >= 2
      /\ \/ d = q.src2 /\ new[2] = q.src1
         \/ d = q.src1 /\ new[2] = q.src2
         \/ /\ new[1] = q.src1 /\ new[2] = q.src2
            /\ d \notin DOMAIN computes' /\ FSM2'[d] < FSM2'[r]
  BY <1>4, <1>5, <1>6
<1> QED BY <1>1, <1>7 DEF d, q, new, SecondLine

-----------------------------------------------------------------------------
(* An element of an operation names a result, and no variable.             *)
LEMMA ElementNamed ==
  ASSUME BindInv, Ready, IsBinding, NEW name, NextElement(name),
         Named' = Named \cup {ins.destReg},
         \A reg \in Vars \cap Named : arrayNamesMap'[reg] = arrayNamesMap[reg],
         Loads' = Loads
  PROVE  DestNamed' /\ VarsLoaded' /\ ~(Named' \subseteq Vars)
<1>1. ins.destReg \in Temps /\ ins.destReg \notin Vars /\ operation # "load"
  BY RegistersAssumption DEF Ready, DestNamed, IsBinding
<1>2. VarsLoaded'
  BY <1>1 DEF Ready, VarsLoaded
<1>3. DestNamed'
  <2>1. CASE ins.i = ins.n
    BY <2>1 DEF NextElement, DestNamed, Busy
  <2>2. CASE ins.i # ins.n
    <3>1. ins' = [ins EXCEPT !.i = @ + 1, !.dest = name] /\ ins \in Instruction
      BY <2>2 DEF NextElement, BindInv, TypeInv, TypeOK, IsBinding, Busy
    <3>2. ins'.destReg = ins.destReg /\ ins'.operation = ins.operation
      BY <3>1 DEF Instruction
    <3> QED BY <1>1, <3>2 DEF DestNamed, operation
  <2> QED BY <2>1, <2>2
<1> QED BY <1>1, <1>2, <1>3

(* The element's own register is another than any variable.                *)
LEMMA DestRegNamed ==
  ASSUME BindInv, Ready, IsBinding, NEW row,
         arrayNamesMap' = PushBack(arrayNamesMap, ins.destReg, row)
  PROVE  /\ Named' = Named \cup {ins.destReg}
         /\ \A reg \in Vars \cap Named : arrayNamesMap'[reg] = arrayNamesMap[reg]
<1>1. ins.destReg \notin Vars
  BY RegistersAssumption DEF Ready, DestNamed, IsBinding
<1> QED BY <1>1 DEF PushBack, Named

(* The new row's logic has both operands in its place.                     *)
NewSecondLine(arr, fsm2, row, time) ==
  LET wired == arr[row].inputConnections IN
  /\ Len(wired) >= 2
  /\ \/ row = src2 /\ wired[2] = src1
     \/ row = src1 /\ wired[2] = src2
     \/ /\ wired[1] = src1 /\ wired[2] = src2
        /\ row \notin Rows /\ fsm2[row] < time

(* The branches that add a result keep the tables ready.                   *)
LEMMA BoundReady ==
  ASSUME BindInv, Ready, IsBinding, ArrayOK(limArray'),
         NEW arr, NEW fsm2, NEW row, NEW time, NEW name,
         Bound(arr, fsm2, row, time, name),
         \A c \in DOMAIN arr \ Rows :
           LET first == Head(arr[c].inputConnections) IN
           first \in Rows /\ FSM2[first] < fsm2[c] /\ c >= zeroAddr,
         selectionSignalsList' = << >> =>
           selectionSignalsList = << >> /\ NewSecondLine(arr, fsm2, row, time)
  PROVE  Ready'
<1>1. Tables(arr, fsm2, row, time, name)
  BY BoundTables
<1>2. /\ Rows' = DOMAIN arr \cup {dest} /\ Rows \subseteq DOMAIN arr
      /\ \A r \in DOMAIN arr : limArray'[r] = arr[r]
      /\ limArray'[dest].inputConnections = <<row>>
      /\ \A r \in DOMAIN arr : FSM2'[r] = fsm2[r]
      /\ \A r \in Rows : FSM2'[r] = FSM2[r]
      /\ FSM2'[dest] = time
      /\ DOMAIN computes' = DOMAIN computes \cup {dest}
      /\ dest \notin DOMAIN computes
      /\ \A r \in DOMAIN computes : computes'[r] = computes[r]
      /\ computes'[dest] = Asked(dest)
      /\ answers' = answers \cup {Asked(dest)}
      /\ dest \in Nat /\ zeroAddr' = name + 1
  BY <1>1 DEF Tables, Rows, Row
<1>3. /\ dest \notin DOMAIN arr /\ dest \notin Rows
      /\ row \in DOMAIN arr /\ name \in Nat /\ dest < name
      /\ AddResult(arr, fsm2, row, time) /\ NextElement(name)
      /\ ExtendsArray(limArray, arr) /\ ArrayOK(arr)
      /\ dest = zeroAddr - 1 /\ zeroAddr \in Nat
  <2>1. dest = zeroAddr - 1 /\ zeroAddr \in Nat
    <3>1. TypeOK /\ InsOK
      BY Zenon DEF BindInv, TypeInv
    <3> QED BY <3>1, OperandTypes, Zenon
  <2>2. /\ dest \notin DOMAIN arr
        /\ row \in DOMAIN arr /\ name \in Nat /\ dest < name
        /\ AddResult(arr, fsm2, row, time) /\ NextElement(name)
        /\ ExtendsArray(limArray, arr) /\ ArrayOK(arr)
    BY Zenon DEF Bound
  <2>3. dest \notin Rows
    BY <1>2, <2>2, Zenon
  <2> QED BY <2>1, <2>2, <2>3, Zenon
<1>4. ExtendsArray(limArray, limArray')
  <2>1. \A r \in Rows : limArray'[r] = arr[r]
    BY <1>2
  <2> QED BY <1>2, <1>3, <2>1 DEF ExtendsArray, Rows
<1>5. /\ \A r \in Rows : Driver(r)' = Driver(r)
      /\ Rows \subseteq Rows'
  BY <1>4, DriversKept
<1>6. \A r \in Rows' \ Rows : r # dest =>
        Driver(r)' \in Rows /\ FSM2'[Driver(r)'] < FSM2'[r]
  <2> SUFFICES ASSUME NEW c \in DOMAIN arr \ Rows
               PROVE  Driver(c)' \in Rows /\ FSM2'[Driver(c)'] < FSM2'[c]
    BY <1>2
  <2>1. Driver(c)' = Head(arr[c].inputConnections)
    BY <1>2 DEF Driver
  <2>2. Head(arr[c].inputConnections) \in Rows
    OBVIOUS
  <2> QED BY <1>2, <2>1, <2>2
<1>7. \A r : r = dest => Driver(r)' = row
  BY <1>2 DEF Driver
<1>8. Loads' = Loads
  <2>1. NoMemoryInput \notin Rows /\ NoMemoryInput \notin DOMAIN arr
    BY <1>3 DEF NoMemoryInput, ArrayOK, Row, Bound, Rows, ExtendsArray
  <2>2. \A r \in Rows' \ Rows : Driver(r)' # NoMemoryInput
    BY <1>3, <1>6, <1>7, <2>1
  <2> QED BY <1>5, <2>2 DEF Loads
<1>9. arrayNamesMap' = PushBack(arrayNamesMap, ins.destReg, dest)
  BY <1>3 DEF AddResult, AnswerDest
<1>10. DestNamed' /\ VarsLoaded' /\ ~(Named' \subseteq Vars)
  BY <1>3, <1>8, <1>9, ElementNamed, DestRegNamed
<1>11. LoadsFirst'
  <2>1. PICK n \in 0..zeroAddr : Loads = 0..(n - 1)
    BY DEF Ready, LoadsFirst
  <2>2. n \in 0..zeroAddr'
    BY <1>2, <1>3
  <2>3. \A r \in Loads' : FSM2'[r] = 0
    BY <1>2, <1>8 DEF Loads, Ready, LoadsFirst
  <2> QED BY <1>8, <1>10, <2>1, <2>2, <2>3 DEF LoadsFirst
<1>12. AnswersComputed'
  <2> SUFFICES ASSUME NEW a \in answers, a.row \in Rows'
               PROVE  a.row \in DOMAIN computes'
    BY <1>2 DEF AnswersComputed, Asked
  <2>1. a.row < zeroAddr /\ a.row \in Nat
    BY DEF BindInv, Answered, TypeInv, TypeOK, Question, Row
  <2>2. a.row \in Rows \cup {dest}
    BY <1>2, <1>3, <2>1
  <2> QED BY <1>2, <2>2 DEF Ready, AnswersComputed
<1>13. CopiesLater'
  <2> SUFFICES ASSUME NEW r \in Rows', r \notin DOMAIN computes', r \notin Loads'
               PROVE  Driver(r)' \in Rows' /\ FSM2'[Driver(r)'] < FSM2'[r]
    BY DEF CopiesLater
  <2>1. CASE r \in Rows
    <3>1. Driver(r) \in Rows /\ FSM2[Driver(r)] < FSM2[r]
      BY <1>2, <1>8, <2>1 DEF Ready, CopiesLater
    <3> QED BY <1>2, <1>5, <2>1, <3>1
  <2>2. CASE r \notin Rows
    <3>1. r # dest
      BY <1>2
    <3> QED BY <1>5, <1>6, <2>2, <3>1
  <2> QED BY <2>1, <2>2
<1>14. Unshared'
  <2> SUFFICES ASSUME selectionSignalsList' = << >>, NEW r \in DOMAIN computes'
               PROVE  SecondLine(r)'
    BY DEF Unshared
  <2>1. selectionSignalsList = << >> /\ NewSecondLine(arr, fsm2, row, time)
    OBVIOUS
  <2>2. CASE r \in DOMAIN computes
    <3>1. SecondLine(r)
      BY <2>1, <2>2 DEF Ready, Unshared
    <3>2. DOMAIN computes' \cap Rows \subseteq DOMAIN computes
      BY <1>2, <1>3
    <3> QED BY <1>2, <1>4, <2>2, <3>1, <3>2, SecondLineKept
  <2>3. CASE r = dest
    <3>1. /\ computes'[r].src1 = src1 /\ computes'[r].src2 = src2
          /\ Driver(r)' = row /\ limArray'[row].inputConnections = arr[row].inputConnections
          /\ FSM2'[row] = fsm2[row] /\ FSM2'[r] = time
      BY <1>2, <1>3, <1>7, <2>3 DEF Asked
    <3>2. row \notin Rows => row \notin DOMAIN computes'
      <4>1. DOMAIN computes \subseteq Rows
        BY ResultRows
      <4> QED BY <1>2, <1>3, <4>1
    <3> QED BY <2>1, <3>1, <3>2 DEF SecondLine, NewSecondLine
  <2> QED BY <1>2, <2>2, <2>3
<1> QED BY <1>10, <1>11, <1>12, <1>13, <1>14 DEF Ready

LEMMA ArrayAfter ==
  ASSUME TypeInv' PROVE ArrayOK(limArray')
BY TypePartsPrime DEF TypeInv

LEMMA ConvertReady ==
  ASSUME BindInv, TypeInv', Ready, CanBind, NEW row, NEW other,
         (row = src1 /\ other = src2) \/ (row = src2 /\ other = src1),
         ~checkIfRowIsLiM(limArray, row), Convert(row, other)
  PROVE  Ready'
<1>1. PICK arr : /\ Bound(arr, FSM2, row, activeTime, zeroAddr) /\ DOMAIN arr = Rows
                 /\ SecondIs(arr, row, other)
  BY ConvertInv
<1>2. IsBinding
  BY CanBindFacts DEF BindInv, TypeInv
<1>3. selectionSignalsList' = selectionSignalsList
  BY DEF Convert
<1>4. NewSecondLine(arr, FSM2, row, activeTime)
  BY <1>1 DEF NewSecondLine, SecondIs
<1>5. \A c \in DOMAIN arr \ Rows :
        LET first == Head(arr[c].inputConnections) IN
        first \in Rows /\ FSM2[first] < FSM2[c] /\ c >= zeroAddr
  BY <1>1
<1> QED BY <1>1, <1>2, <1>3, <1>4, <1>5, ArrayAfter, BoundReady

LEMMA ShareReady ==
  ASSUME BindInv, TypeInv', Ready, CanBind, NEW row, NEW other,
         (row = src1 /\ other = src2) \/ (row = src2 /\ other = src1),
         checkIfRowIsLiM(limArray, src1), checkIfRowIsLiM(limArray, src2),
         HasRoom(row), Share(row, other)
  PROVE  Ready'
<1>1. PICK arr : Bound(arr, FSM2, row, tMux, zeroAddr) /\ DOMAIN arr = Rows
  BY ShareInv
<1>2. IsBinding
  BY CanBindFacts DEF BindInv, TypeInv
<1>3. selectionSignalsList' # << >>
  BY ShareInv
<1>4. \A c \in DOMAIN arr \ Rows :
        LET first == Head(arr[c].inputConnections) IN
        first \in Rows /\ FSM2[first] < FSM2[c] /\ c >= zeroAddr
  BY <1>1
<1> QED BY <1>1, <1>2, <1>3, <1>4, ArrayAfter, BoundReady

LEMMA CopyReady ==
  ASSUME BindInv, TypeInv', Ready, CopyRow
  PROVE  Ready'
<1>1. PICK arr, fsm2 :
        /\ Bound(arr, fsm2, zeroAddr, activeTime + 1, zeroAddr + 1)
        /\ DOMAIN arr = Rows \cup {zeroAddr} /\ zeroAddr \notin Rows
        /\ arr[zeroAddr].inputConnections = Append(<<src1>>, src2)
        /\ fsm2[zeroAddr] = activeTime
  BY CopyInv
<1>2. /\ IsBinding /\ src1 \in Rows /\ FSM2[src1] < activeTime
      /\ activeTime \in Nat
  BY CanBindFacts DEF BindInv, TypeInv, CopyRow
<1>3. selectionSignalsList' = selectionSignalsList
  BY DEF CopyRow
<1>4. /\ Len(arr[zeroAddr].inputConnections) = 2
      /\ arr[zeroAddr].inputConnections[1] = src1
      /\ arr[zeroAddr].inputConnections[2] = src2
      /\ Head(arr[zeroAddr].inputConnections) = src1
  <2>1. Head(Append(<<src1>>, src2)) = Append(<<src1>>, src2)[1]
    OBVIOUS
  <2> QED BY <1>1, <2>1, Pair
<1>5. NewSecondLine(arr, fsm2, zeroAddr, activeTime + 1)
  <2>1. fsm2[zeroAddr] < activeTime + 1
    BY <1>1, <1>2
  <2> QED BY <1>1, <1>4, <2>1 DEF NewSecondLine
<1>6. \A c \in DOMAIN arr \ Rows :
        LET first == Head(arr[c].inputConnections) IN
        first \in Rows /\ FSM2[first] < fsm2[c] /\ c >= zeroAddr
  <2>1. zeroAddr \in Nat
    BY DEF BindInv, TypeInv, TypeOK
  <2> QED BY <1>1, <1>2, <1>4, <2>1
<1> QED BY <1>1, <1>2, <1>3, <1>5, <1>6, ArrayAfter, BoundReady

(* Steps that leave the array, the states and the results alone.           *)
LEMMA SameTables ==
  ASSUME BindInv, Ready, UNCHANGED <<tables, computes>>,
         \A a \in answers' \ answers : a.row \in Rows => a.row \in DOMAIN computes,
         zeroAddr' \in Nat, zeroAddr <= zeroAddr',
         DestNamed', VarsLoaded',
         status' = "running" /\ Named' \subseteq Vars /\ ~IsBinding' =>
           /\ status = "running" /\ Named \subseteq Vars /\ ~IsBinding
           /\ zeroAddr' = zeroAddr
  PROVE  Ready'
<1>1. /\ limArray' = limArray /\ FSM2' = FSM2 /\ computes' = computes
      /\ selectionSignalsList' = selectionSignalsList
  BY DEF tables
<1>2. /\ Rows' = Rows /\ Loads' = Loads
  BY <1>1 DEF Rows, Loads, Driver
<1>3. LoadsFirst'
  <2>1. PICK n \in 0..zeroAddr : Loads = 0..(n - 1)
    BY DEF Ready, LoadsFirst
  <2>2. zeroAddr \in Nat
    BY DEF BindInv, TypeInv, TypeOK
  <2>3. n \in 0..zeroAddr'
    BY <2>1, <2>2
  <2> QED BY <1>1, <1>2, <2>1, <2>3 DEF Ready, LoadsFirst
<1>4. AnswersComputed'
  BY <1>1, <1>2 DEF Ready, AnswersComputed
<1>5. CopiesLater' /\ Unshared'
  BY <1>1, <1>2 DEF Ready, CopiesLater, Unshared, SecondLine, Driver
<1> QED BY <1>3, <1>4, <1>5 DEF Ready

LEMMA DropReady ==
  ASSUME BindInv, Ready, DropOperation
  PROVE  Ready'
<1>1. /\ IsBinding /\ NextElement(zeroAddr)
      /\ answers' = answers \cup {Asked(dest)}
      /\ arrayNamesMap' = PushBack(arrayNamesMap, ins.destReg, dest)
      /\ UNCHANGED <<tables, computes>>
  BY DEF DropOperation, Binding, IsBinding, AnswerDest
<1>2. Asked(dest).row = dest /\ dest \notin Rows
  BY <1>1 DEF Asked, BindInv, Fresh
<1>3. zeroAddr \in Nat /\ zeroAddr' = zeroAddr + 1
  BY <1>1 DEF BindInv, TypeInv, TypeOK, NextElement
<1>4. Loads' = Loads
  BY <1>1 DEF tables, Loads, Rows, Driver
<1>5. DestNamed' /\ VarsLoaded' /\ ~(Named' \subseteq Vars)
  BY <1>1, <1>4, DestRegNamed, ElementNamed
<1> QED BY <1>1, <1>2, <1>3, <1>5, SameTables

LEMMA ReuseReady ==
  ASSUME BindInv, Ready, ReuseResult
  PROVE  Ready'
<1> DEFINE L == lastDestMap[src1]
           named == PushBack(arrayNamesMap, ins.destReg, dest)
<1>1. /\ IsBinding /\ NextElement(zeroAddr - 1)
      /\ answers' = answers \cup {Asked(L)}
      /\ arrayNamesMap' = [named EXCEPT ![ins.destReg] = addNewItemInRefPos(@, L)]
      /\ UNCHANGED <<tables, computes>>
      /\ src1 \in DOMAIN lastDestMap
  BY DEF ReuseResult, Binding, IsBinding, SameResult
<1>2. Asked(L).row = L /\ L \in DOMAIN computes
  BY <1>1 DEF Asked, BindInv, Remembered
<1>3. zeroAddr \in Nat /\ zeroAddr' = zeroAddr
  <2>1. zeroAddr \in Nat
    BY DEF BindInv, TypeInv, TypeOK
  <2>2. zeroAddr' = (zeroAddr - 1) + 1
    BY <1>1 DEF NextElement
  <2> QED BY <2>1, <2>2
<1>4. Loads' = Loads
  BY <1>1 DEF tables, Loads, Rows, Driver
<1>5. /\ Named' = Named \cup {ins.destReg}
      /\ \A reg \in Vars \cap Named : arrayNamesMap'[reg] = arrayNamesMap[reg]
  <2>1. ins.destReg \notin Vars
    BY <1>1, RegistersAssumption DEF Ready, DestNamed, IsBinding
  <2>2. /\ DOMAIN named = Named \cup {ins.destReg}
        /\ \A reg \in Vars \cap Named : named[reg] = arrayNamesMap[reg]
    BY <2>1 DEF PushBack, Named
  <2> HIDE DEF named
  <2> QED BY <1>1, <2>1, <2>2 DEF Named
<1>6. DestNamed' /\ VarsLoaded' /\ ~(Named' \subseteq Vars)
  BY <1>1, <1>4, <1>5, ElementNamed
<1> QED BY <1>1, <1>2, <1>3, <1>6, SameTables

(* A load is a row of its own: nothing but loads has a row yet.            *)
LEMMA LoadReady ==
  ASSUME BindInv, TypeInv', Ready, BindLoad
  PROVE  Ready'
<1> DEFINE word == [rowType |-> "load", inputConnections |-> <<NoMemoryInput>>]
<1>1. /\ limArray' = Insert(limArray, zeroAddr, word)
      /\ FSM2' = Insert(FSM2, zeroAddr, 0)
      /\ zeroAddr' = zeroAddr + 1 /\ status = "running"
      /\ computes' = computes /\ answers' = answers
      /\ arrayNamesMap' = PushBack(arrayNamesMap, ins.destReg, zeroAddr)
      /\ Busy /\ operation = "load"
  BY DEF BindLoad, addNewRow, addNewInstruction, history, operation
<1>2. /\ ~IsBinding /\ ins.destReg \in Vars /\ Named \subseteq Vars
  BY <1>1 DEF IsBinding, Ready, DestNamed
<1>3. /\ zeroAddr \in Nat /\ Rows = 0..(zeroAddr - 1) /\ Loads = Rows
      /\ DOMAIN FSM2 = Rows
  BY <1>1, <1>2 DEF Ready, LoadsFirst, BindInv, TypeInv, TypeOK, Placed
<1>4. DOMAIN computes = {}
  BY <1>3, ResultRows
<1>5. Head(word.inputConnections) = NoMemoryInput
  BY DEF word
<1> HIDE DEF word
<1>6. /\ Rows' = 0..zeroAddr
      /\ \A r \in Rows : limArray'[r] = limArray[r]
      /\ limArray'[zeroAddr] = word
      /\ \A r \in Rows : FSM2'[r] = FSM2[r]
      /\ FSM2'[zeroAddr] = 0
  <2>1. zeroAddr \notin Rows /\ Rows \cup {zeroAddr} = 0..zeroAddr
    BY <1>3
  <2>2. /\ Rows' = Rows \cup {zeroAddr}
        /\ \A r \in Rows : limArray'[r] = limArray[r]
        /\ limArray'[zeroAddr] = word
    BY <1>1, <2>1 DEF Insert, Rows
  <2>3. /\ \A r \in Rows : FSM2'[r] = FSM2[r]
        /\ FSM2'[zeroAddr] = 0
    BY <1>1, <1>3, <2>1 DEF Insert
  <2> QED BY <2>1, <2>2, <2>3
<1>7. \A r \in Rows' : Driver(r)' = NoMemoryInput /\ FSM2'[r] = 0
  <2>1. \A r \in Rows : Driver(r) = NoMemoryInput /\ FSM2[r] = 0
    BY <1>3 DEF Loads, Ready, LoadsFirst
  <2>2. \A r \in Rows : Driver(r)' = NoMemoryInput /\ FSM2'[r] = 0
    BY <1>6, <2>1 DEF Driver
  <2>3. \A r : r = zeroAddr => Driver(r)' = NoMemoryInput /\ FSM2'[r] = 0
    BY <1>5, <1>6 DEF Driver
  <2> QED BY <1>3, <1>6, <2>2, <2>3
<1>8. Loads' = Rows'
  BY <1>7 DEF Loads
<1>9. Rows' = 0..(zeroAddr' - 1) /\ zeroAddr' \in 0..zeroAddr'
  BY <1>1, <1>3, <1>6
<1>10. LoadsFirst'
  BY <1>7, <1>8, <1>9 DEF LoadsFirst
<1>11. Named' \subseteq Vars
  BY <1>1, <1>2 DEF PushBack, Named
<1>12. DestNamed'
  <2>1. CASE ins.i = ins.n
    BY <2>1 DEF BindLoad, DestNamed, Busy
  <2>2. CASE ins.i # ins.n
    <3>1. ins' = [ins EXCEPT !.i = @ + 1] /\ ins \in Instruction
      BY <2>2 DEF BindLoad, Busy, BindInv, TypeInv, TypeOK
    <3>2. ins'.destReg = ins.destReg /\ ins'.operation = ins.operation
      BY <3>1 DEF Instruction
    <3> QED BY <1>1, <1>2, <1>11, <3>2 DEF DestNamed, operation
  <2> QED BY <2>1, <2>2
<1>13. VarsLoaded'
  <2> SUFFICES ASSUME NEW x \in DOMAIN arrayNamesMap', NEW k \in DOMAIN arrayNamesMap'[x]
               PROVE  arrayNamesMap'[x][k] \in Rows'
    BY <1>8 DEF VarsLoaded, Named
  <2>1. zeroAddr \in Row /\ \A y \in DOMAIN arrayNamesMap : arrayNamesMap[y] \in Seq(Row)
    BY DEF BindInv, TypeInv, TypeOK, Named, Row
  <2>2. \/ arrayNamesMap'[x][k] = zeroAddr
        \/ /\ x \in DOMAIN arrayNamesMap /\ k \in DOMAIN arrayNamesMap[x]
           /\ arrayNamesMap'[x][k] = arrayNamesMap[x][k]
    BY <1>1, <2>1, PushBackElements
  <2>3. arrayNamesMap'[x][k] = zeroAddr \/ arrayNamesMap'[x][k] \in Rows
    BY <1>2, <1>3, <2>2 DEF Ready, VarsLoaded, Named
  <2> QED BY <1>3, <1>6, <2>3
<1>14. AnswersComputed'
  <2> SUFFICES ASSUME NEW a \in answers, a.row \in Rows'
               PROVE  a.row \in DOMAIN computes'
    BY <1>1 DEF AnswersComputed
  <2>1. a.row < zeroAddr
    BY DEF BindInv, Answered
  <2>2. a.row \in Rows
    BY <1>3, <1>6, <2>1
  <2> QED BY <1>1, <2>2 DEF Ready, AnswersComputed
<1>15. CopiesLater' /\ Unshared'
  BY <1>1, <1>4, <1>8 DEF CopiesLater, Unshared
<1> QED BY <1>10, <1>12, <1>13, <1>14, <1>15 DEF Ready

LEMMA FetchLoadReady ==
  ASSUME BindInv, Ready, NEW reg \in Vars, NEW n \in 1..MaxSize, FetchLoad(reg, n)
  PROVE  Ready'
<1>1. /\ ins'.operation = "load" /\ ins'.destReg = reg
      /\ status = "running" /\ Named \subseteq Vars /\ ~Busy
      /\ zeroAddr' = zeroAddr /\ arrayNamesMap' = arrayNamesMap
      /\ answers' = answers /\ UNCHANGED <<tables, computes>>
  BY DEF FetchLoad, history
<1>2. DestNamed'
  BY <1>1 DEF DestNamed, operation, Named
<1>3. Named' = Named /\ Loads' = Loads /\ ~IsBinding
  BY <1>1 DEF Named, Loads, Rows, Driver, tables, IsBinding
<1>4. VarsLoaded'
  BY <1>1, <1>3 DEF Ready, VarsLoaded
<1>5. zeroAddr' \in Nat /\ zeroAddr <= zeroAddr'
  BY <1>1 DEF BindInv, TypeInv, TypeOK
<1> QED BY <1>1, <1>2, <1>3, <1>4, <1>5, SameTables

(* From here on there is an operation to bind, so no load comes any more.  *)
LEMMA FetchOperationReady ==
  ASSUME BindInv, Ready, NEW op \in Ops, NEW reg \in Temps,
         NEW reg1 \in Named, NEW reg2 \in Named,
         NEW a1 \in Accesses, NEW a2 \in Accesses,
         FetchOperation(op, reg, reg1, a1, reg2, a2)
  PROVE  Ready'
<1>1. /\ ins'.operation = op /\ ins'.destReg = reg
      /\ zeroAddr' = zeroAddr + 1 /\ arrayNamesMap' = arrayNamesMap
      /\ answers' = answers /\ UNCHANGED <<tables, computes>>
  BY DEF FetchOperation, history
<1>2. op # "load" /\ ins' # Idle
  <2>1. op # "load"
    BY OpsAssumption
  <2>2. ins' = [operation |-> op, destReg |-> reg,
                src1 |-> RowsOf(reg1, a1), src2 |-> RowsOf(reg2, a2),
                n |-> Maximum(Len(a1), Len(a2)), i |-> 1, dest |-> zeroAddr]
    BY DEF FetchOperation
  <2>3. "dest" \in DOMAIN ins' /\ "dest" \notin DOMAIN Idle
    BY <2>2 DEF Idle
  <2> QED BY <2>1, <2>3
<1>3. DestNamed' /\ IsBinding'
  BY <1>1, <1>2 DEF DestNamed, operation, IsBinding, Busy
<1>4. Loads' = Loads
  BY <1>1 DEF Loads, Rows, Driver, tables
<1>5. VarsLoaded'
  BY <1>1, <1>4 DEF Ready, VarsLoaded, Named
<1>6. zeroAddr' \in Nat /\ zeroAddr <= zeroAddr'
  <2>1. zeroAddr \in Nat
    BY DEF BindInv, TypeInv, TypeOK
  <2> QED BY <1>1, <2>1
<1> QED BY <1>1, <1>3, <1>5, <1>6, SameTables

(* The phase ends, by its last step or in an llvm_unreachable.             *)
LEMMA EndReady ==
  ASSUME BindInv, Ready, UNCHANGED <<tables, history>>,
         ins' = ins, arrayNamesMap' = arrayNamesMap,
         zeroAddr' \in {zeroAddr, zeroAddr + 1}, status' # "running"
  PROVE  Ready'
<1>1. computes' = computes /\ answers' = answers
  BY DEF history
<1>2. Named' = Named /\ Loads' = Loads
  BY DEF Named, Loads, Rows, Driver, tables
<1>3. DestNamed' /\ VarsLoaded'
  BY <1>2 DEF Ready, DestNamed, VarsLoaded, Busy, operation
<1>4. zeroAddr' \in Nat /\ zeroAddr <= zeroAddr'
  <2>1. zeroAddr \in Nat
    BY DEF BindInv, TypeInv, TypeOK
  <2> QED BY <2>1
<1> QED BY <1>1, <1>3, <1>4, SameTables

LEMMA StutterReady ==
  ASSUME BindInv, Ready, UNCHANGED vars
  PROVE  Ready'
<1>1. /\ zeroAddr' = zeroAddr /\ ins' = ins /\ status' = status
      /\ arrayNamesMap' = arrayNamesMap
      /\ computes' = computes /\ answers' = answers /\ UNCHANGED tables
  BY DEF vars, tables
<1>2. Named' = Named /\ Loads' = Loads /\ (IsBinding' <=> IsBinding)
  BY <1>1 DEF Named, Loads, Rows, Driver, tables, IsBinding, Busy, operation
<1>3. DestNamed' /\ VarsLoaded'
  BY <1>1, <1>2 DEF Ready, DestNamed, VarsLoaded, Busy, operation
<1>4. zeroAddr' \in Nat /\ zeroAddr <= zeroAddr'
  <2>1. zeroAddr \in Nat
    BY DEF BindInv, TypeInv, TypeOK
  <2> QED BY <1>1, <2>1
<1> QED BY <1>1, <1>2, <1>3, <1>4, SameTables

LEMMA ReadyInit == Init => Ready
<1> SUFFICES ASSUME Init
             PROVE  Ready
  OBVIOUS
<1>1. /\ Rows = {} /\ DOMAIN computes = {} /\ answers = {} /\ ~Busy
      /\ Named = {} /\ zeroAddr = 0
  BY DEF Init, EmptyMap, Busy, Named, Rows
<1>2. Loads = {}
  BY <1>1 DEF Loads
<1>3. LoadsFirst
  <2>1. 0 \in 0..zeroAddr /\ 0..(0 - 1) = {} /\ 0..(zeroAddr - 1) = {}
    BY <1>1
  <2> QED BY <1>1, <1>2, <2>1 DEF LoadsFirst
<1> QED
  BY <1>1, <1>2, <1>3
  DEF Ready, DestNamed, VarsLoaded, AnswersComputed, CopiesLater, Unshared

LEMMA ReadyStep ==
  ASSUME NoShifts, BindInv, Ready, [Next]_vars
  PROVE  Ready'
<1>1. BindInv' /\ TypeInv' /\ TypeOK /\ InsOK
  BY BindInvStep DEF BindInv, TypeInv
<1>2. ASSUME NEW reg \in Vars, NEW n \in 1..MaxSize, FetchLoad(reg, n)
      PROVE  Ready'
  BY <1>2, FetchLoadReady
<1>3. CASE BindLoad
  BY <1>1, <1>3, LoadReady
<1>4. ASSUME NEW op \in Ops, NEW reg \in Temps, NEW reg1 \in Named, NEW reg2 \in Named,
             NEW a1 \in Accesses, NEW a2 \in Accesses,
             FetchOperation(op, reg, reg1, a1, reg2, a2)
      PROVE  Ready'
  BY <1>4, FetchOperationReady
<1>5. CASE FetchConstantOperand
  <2>1. zeroAddr' = zeroAddr + 1 /\ status' = "name not in arrayNamesMap"
    BY <1>5, Zenon DEF FetchConstantOperand
  <2>2. UNCHANGED <<tables, FSM, arrayNamesMap, shiftAmount, ins, history>>
    BY <1>5, Zenon DEF FetchConstantOperand
  <2> QED BY <2>1, <2>2, EndReady
<1>6. CASE MissingRow
  <2>1. /\ status' = "row not in limArray" /\ ins' = ins /\ zeroAddr' = zeroAddr
        /\ arrayNamesMap' = arrayNamesMap /\ UNCHANGED <<tables, history>>
    BY <1>6 DEF MissingRow
  <2> QED BY <2>1, EndReady
<1>7. CASE Finish
  <2>1. /\ status' = "done" /\ ins' = ins /\ zeroAddr' = zeroAddr
        /\ arrayNamesMap' = arrayNamesMap /\ UNCHANGED <<tables, history>>
    BY <1>7 DEF Finish
  <2> QED BY <2>1, EndReady
<1>8. CASE ReuseResult
  BY <1>8, ReuseReady
<1>9. CASE DropOperation
  BY <1>9, DropReady
<1>10. CASE ConvertSrc2
  BY <1>1, <1>10, ConvertReady DEF ConvertSrc2
<1>11. CASE ConvertSrc1
  BY <1>1, <1>11, ConvertReady DEF ConvertSrc1
<1>12. CASE ShareSrc2
  BY <1>1, <1>12, ShareReady DEF ShareSrc2
<1>13. CASE ShareSrc1
  BY <1>1, <1>13, ShareReady DEF ShareSrc1
<1>14. CASE CopyRow
  BY <1>1, <1>14, CopyReady
<1>15. CASE ShiftInPlace \/ ShiftCopy
  <2>1. IsBinding /\ operation \in ShiftOps
    BY <1>15 DEF ShiftInPlace, ShiftCopy, CanShift, Binding, IsBinding
  <2>2. operation \in Ops
    BY <1>1, <2>1, OperandTypes
  <2> QED BY <2>1, <2>2 DEF NoShifts
<1>16. CASE UNCHANGED vars
  BY <1>16, StutterReady
<1> QED
  BY <1>2, <1>3, <1>4, <1>5, <1>6, <1>7, <1>8, <1>9, <1>10, <1>11, <1>12, <1>13,
     <1>14, <1>15, <1>16
  DEF Next, performBinding

-----------------------------------------------------------------------------
(* What an executed machine may rely on: a result has a state after those  *)
(* of its operands and of the row that feeds it, and that row computes it. *)
LEMMA ResultFed ==
  ASSUME BindInv, Ready, Elaborates, NEW r \in DOMAIN computes
  PROVE  LET q == computes[r]
             d == Driver(r)
             second == limArray[d].inputConnections[2]
         IN  /\ limArray[d].rowType = q.operation
             /\ FSM2[q.src1] < FSM2[r] /\ FSM2[q.src2] < FSM2[r]
             /\ FSM2[d] < FSM2[r]
             /\ \/ d = q.src2 /\ second = q.src1
                \/ d = q.src1 /\ second = q.src2
                \/ /\ Driver(d) = q.src1 /\ second = q.src2
                   /\ d \notin DOMAIN computes /\ d \notin Loads
<1> DEFINE q == computes[r]
           d == Driver(r)
           wired == limArray[d].inputConnections
<1>1. /\ limArray[d].rowType = q.operation
      /\ FSM2[q.src1] < FSM2[r] /\ FSM2[q.src2] < FSM2[r]
  BY DEF BindInv, Results, ResultOK, Fed, Feeds, OperandDropped
<1>2. SecondLine(r)
  BY DEF Ready, Unshared, Elaborates
<1>3. d \in Rows /\ q.src1 \in Rows /\ Driver(d) = wired[1]
  <2>1. d \in Rows /\ q.src1 \in Rows
    BY ResultRows
  <2> QED BY <2>1, TableTypes
<1>4. NoMemoryInput \notin Rows
  <2>1. Rows \subseteq Nat
    BY TableTypes
  <2> QED BY <2>1 DEF NoMemoryInput
<1>5. wired[1] = q.src1 => d \notin Loads
  BY <1>3, <1>4 DEF Loads
<1>6. \/ d = q.src2 /\ wired[2] = q.src1
      \/ d = q.src1 /\ wired[2] = q.src2
      \/ /\ wired[1] = q.src1 /\ wired[2] = q.src2
         /\ d \notin DOMAIN computes /\ FSM2[d] < FSM2[r]
  BY <1>2 DEF SecondLine
<1>7. FSM2[d] < FSM2[r]
  BY <1>1, <1>6
<1> QED BY <1>1, <1>3, <1>5, <1>6, <1>7

(* The rows of a state, in the machine.                                    *)
LEMMA RowsOfState ==
  ASSUME BindInv, Elaborates
  PROVE  \A t : RowsAt(t) = {r \in Rows : FSM2[r] = t}
<1>1. /\ \A r \in Rows : FSM2[r] \in DOMAIN FSM
      /\ \A t \in DOMAIN FSM : FSM[t] = {r \in Rows : FSM2[r] = t}
  BY ChainLong DEF Elaborates
<1> QED BY <1>1 DEF RowsAt

(* The tables of a finished binding do not change under the machine.       *)
LEMMA TablesStay ==
  ASSUME UNCHANGED vars
  PROVE  /\ Rows' = Rows /\ Loads' = Loads /\ FSM2' = FSM2 /\ computes' = computes
         /\ Elaborates' = Elaborates
         /\ \A r : Driver(r)' = Driver(r)
BY DEF vars, Rows, Loads, Driver, Elaborates, HasLogic

(* The testbench writes the loads, and all of them: they are the first     *)
(* addresses, as many as it has inputs.                                    *)
LEMMA WriteComputed ==
  ASSUME BindInv, Ready, WriteInputs
  PROVE  Computed'
<1>1. /\ Elaborates /\ T' = 0 /\ UNCHANGED vars
      /\ Mem' = [r \in Rows |-> IF r < getNumberInputs THEN Word(r) ELSE Zero]
  BY DEF WriteInputs, GO
<1>2. getNumberInputs = Cardinality(Loads)
  BY DEF getNumberInputs, Loads
<1>3. PICK n \in 0..zeroAddr : Loads = 0..(n - 1)
  BY DEF Ready, LoadsFirst
<1>4. n \in Nat
  BY <1>3
<1>5. Cardinality(0..(n - 1)) = n
  <2>1. CASE n = 0
    <3>1. 0..(n - 1) = {}
      BY <2>1
    <3> QED BY <2>1, <3>1, FS_EmptySet
  <2>2. CASE n # 0
    <3>1. n - 1 \in Int /\ 0 \in Int
      BY <1>4
    <3>2. Cardinality(0..(n - 1)) = IF 0 > n - 1 THEN 0 ELSE (n - 1) - 0 + 1
      BY <3>1, FS_Interval
    <3> QED BY <1>4, <2>2, <3>2
  <2> QED BY <2>1, <2>2
<1>6. \A r \in Loads : Mem'[r] = Word(r)
  <2> SUFFICES ASSUME NEW r \in Loads
               PROVE  Mem'[r] = Word(r)
    OBVIOUS
  <2>1. r < n /\ r \in Rows
    BY <1>3, <1>4 DEF Loads
  <2> QED BY <1>1, <1>2, <1>3, <1>5, <2>1
<1>7. \A r \in Rows : FSM2[r] \in Nat
  BY TableTypes
<1>8. \A r \in Rows \ Loads : FSM2[r] >= 1
  <2> SUFFICES ASSUME NEW r \in Rows \ Loads
               PROVE  FSM2[r] >= 1
    OBVIOUS
  <2>1. CASE r \in DOMAIN computes
    <3>1. computes[r].src1 \in Rows
      BY <2>1, ResultRows
    <3>2. FSM2[computes[r].src1] < FSM2[r]
      BY <1>1, <2>1, ResultFed
    <3> QED BY <1>7, <3>1, <3>2
  <2>2. CASE r \notin DOMAIN computes
    <3>1. Driver(r) \in Rows /\ FSM2[Driver(r)] < FSM2[r]
      BY <2>2 DEF Ready, CopiesLater
    <3> QED BY <1>7, <3>1
  <2> QED BY <2>1, <2>2
<1>9. \A r \in Rows : (Written(r)' => r \in Loads) /\ ~ReadOut(r)'
  <2> SUFFICES ASSUME NEW r \in Rows
               PROVE  (Written(r)' => r \in Loads) /\ ~ReadOut(r)'
    OBVIOUS
  <2>1. /\ Written(r)' <=> 2 * FSM2[r] - 1 < 0
        /\ ReadOut(r)' <=> 2 * FSM2[r] < 0
    BY <1>1, TablesStay DEF Written, ReadOut
  <2> QED BY <1>7, <1>8, <2>1
<1>10. \A r \in DOMAIN computes : r \in Rows /\ r \notin Loads
  BY ResultRows
<1>11. /\ Elaborates' /\ T' \in Nat
       /\ \A r \in Loads' : Mem'[r] = Word(r)'
  BY <1>1, <1>6, TablesStay DEF Word
<1> QED BY <1>1, <1>9, <1>10, <1>11, TablesStay DEF Computed

(* A read changes no word, and gives the rows of its state to their logic. *)
LEMMA ReadComputed ==
  ASSUME BindInv, Ready, Computed, go_rd_proc
  PROVE  Computed'
<1> DEFINE t == T \div 2
<1>1. /\ Elaborates /\ T \in Nat /\ T % 2 = 0 /\ T' = T + 1
      /\ UNCHANGED vars /\ Mem' = Mem
      /\ MEM_RD' = [r \in Rows |-> IF r \in RowsAt(t) THEN Mem[r] ELSE MEM_RD[r]]
  BY DEF go_rd_proc, Running, Computed
<1>2. T = 2 * t /\ t \in Nat
  BY <1>1
<1>3. \A r \in Rows : MEM_RD'[r] = IF FSM2[r] = t THEN Mem[r] ELSE MEM_RD[r]
  BY <1>1, RowsOfState
<1>4. \A r \in Rows : FSM2[r] \in Nat
  BY TableTypes
<1> HIDE DEF t
<1>5. ASSUME NEW r \in Rows
      PROVE  /\ Written(r)' <=> Written(r)
             /\ ReadOut(r)' <=> FSM2[r] <= t
             /\ ReadOut(r) <=> FSM2[r] < t
  BY <1>1, <1>2, <1>4, TablesStay DEF Written, ReadOut
<1>6. T' # Off /\ T' \in Nat /\ T # Off
  BY <1>1 DEF Off
<1>7. ASSUME NEW r \in Rows, ReadOut(r)'
      PROVE  MEM_RD'[r] = Mem'[r]
  <2>1. CASE FSM2[r] = t
    BY <1>1, <1>3, <2>1
  <2>2. CASE FSM2[r] < t
    <3>1. ReadOut(r) /\ MEM_RD'[r] = MEM_RD[r]
      BY <1>3, <1>4, <1>2, <1>5, <2>2
    <3> QED BY <1>1, <1>6, <3>1 DEF Computed
  <2> QED BY <1>2, <1>4, <1>5, <1>7, <2>1, <2>2
<1>8. \A r \in DOMAIN computes : r \in Rows
  BY ResultRows
<1>9. \A r \in DOMAIN computes : Written(r)' => Mem'[r] = Asks(r)'
  BY <1>1, <1>5, <1>6, <1>8, TablesStay DEF Computed, Asks
<1>10. \A r \in Loads : Mem'[r] = Word(r)'
  BY <1>1, <1>6 DEF Computed, Word
<1>11. \A r \in Rows \ (DOMAIN computes \cup Loads) :
         Written(r)' => Mem'[r] = Mem'[Driver(r)]
  BY <1>1, <1>5, <1>6 DEF Computed
<1> QED BY <1>1, <1>6, <1>7, <1>9, <1>10, <1>11, TablesStay DEF Computed

(* A write stores what the operands' words call for: they are from earlier *)
(* states, so they were read and stay.                                     *)
LEMMA WrittenComputed ==
  ASSUME BindInv, Ready, Computed, wrt_proc
  PROVE  Computed'
<1> DEFINE t == (T + 1) \div 2
<1>1. /\ Elaborates /\ T \in Nat /\ T % 2 = 1 /\ T' = T + 1 /\ T # Off
      /\ UNCHANGED vars /\ MEM_RD' = MEM_RD
      /\ Mem' = [r \in Rows |-> IF r \in RowsAt(t) THEN Enters(r) ELSE Mem[r]]
  BY DEF wrt_proc, Running, Computed
<1>2. T = 2 * t - 1 /\ t \in Nat /\ t >= 1
  BY <1>1
<1>3. \A r \in Rows : Mem'[r] = IF FSM2[r] = t THEN Enters(r) ELSE Mem[r]
  BY <1>1, RowsOfState
<1>4. \A r \in Rows : FSM2[r] \in Nat
  BY TableTypes
<1> HIDE DEF t
<1>5. ASSUME NEW r \in Rows
      PROVE  /\ Written(r)' <=> FSM2[r] <= t
             /\ Written(r) <=> FSM2[r] < t
             /\ ReadOut(r)' <=> FSM2[r] < t
             /\ ReadOut(r) <=> FSM2[r] < t
  BY <1>1, <1>2, <1>4, TablesStay DEF Written, ReadOut
<1>6. ASSUME NEW r \in Rows, FSM2[r] < t
      PROVE  Mem'[r] = Mem[r] /\ MEM_RD[r] = Mem[r]
  BY <1>1, <1>3, <1>4, <1>2, <1>5, <1>6 DEF Computed
<1>7. \A r \in Loads : Mem'[r] = Word(r)'
  <2>1. \A r \in Loads : r \in Rows /\ FSM2[r] < t
    BY <1>2 DEF Loads, Ready, LoadsFirst
  <2> QED BY <1>1, <1>6, <2>1 DEF Computed, Word
<1>8. ASSUME NEW r \in DOMAIN computes, FSM2[r] <= t
      PROVE  Mem'[r] = Asks(r)'
  <2> DEFINE q == computes[r]
             d == Driver(r)
             second == limArray[d].inputConnections[2]
  <2>1. r \in Rows /\ q.src1 \in Rows /\ q.src2 \in Rows /\ d \in Rows
    BY ResultRows
  <2>2. /\ limArray[d].rowType = q.operation
        /\ FSM2[q.src1] < FSM2[r] /\ FSM2[q.src2] < FSM2[r]
        /\ FSM2[d] < FSM2[r]
        /\ \/ d = q.src2 /\ second = q.src1
           \/ d = q.src1 /\ second = q.src2
           \/ /\ Driver(d) = q.src1 /\ second = q.src2
              /\ d \notin DOMAIN computes /\ d \notin Loads
    BY <1>1, ResultFed
  <2>3. FSM2[q.src1] < t /\ FSM2[q.src2] < t /\ FSM2[d] < t
    BY <1>2, <1>4, <1>8, <2>1, <2>2
  <2>4. Asks(r)' = Apply(q.operation, Mem[q.src1], Mem[q.src2])
    BY <1>6, <2>1, <2>3, TablesStay, <1>1 DEF Asks
  <2>5. CASE FSM2[r] < t
    <3>1. Mem'[r] = Mem[r] /\ Mem[r] = Asks(r)
      BY <1>1, <1>5, <1>6, <2>1, <2>5 DEF Computed
    <3> QED BY <2>4, <3>1 DEF Asks
  <2>6. CASE FSM2[r] = t
    <3>1. Mem'[r] = Apply(q.operation, MEM_RD[d], MEM_RD[second])
      BY <1>3, <2>1, <2>2, <2>6 DEF Enters, ROW_OUT
    <3>2. CASE d = q.src2 /\ second = q.src1
      <4>1. MEM_RD[d] = Mem[q.src2] /\ MEM_RD[second] = Mem[q.src1]
        BY <1>6, <2>1, <2>3, <3>2
      <4> QED BY <2>4, <3>1, <4>1 DEF Apply
    <3>3. CASE d = q.src1 /\ second = q.src2
      <4>1. MEM_RD[d] = Mem[q.src1] /\ MEM_RD[second] = Mem[q.src2]
        BY <1>6, <2>1, <2>3, <3>3
      <4> QED BY <2>4, <3>1, <4>1 DEF Apply
    <3>4. CASE /\ Driver(d) = q.src1 /\ second = q.src2
               /\ d \notin DOMAIN computes /\ d \notin Loads
      <4>1. Written(d)
        BY <1>5, <2>1, <2>3
      <4>2. Mem[d] = Mem[q.src1]
        BY <1>1, <2>1, <3>4, <4>1 DEF Computed
      <4>3. MEM_RD[d] = Mem[q.src1] /\ MEM_RD[second] = Mem[q.src2]
        BY <1>6, <2>1, <2>3, <3>4, <4>2
      <4> QED BY <2>4, <3>1, <4>3 DEF Apply
    <3> QED BY <2>2, <3>2, <3>3, <3>4
  <2> QED BY <1>2, <1>4, <1>8, <2>1, <2>5, <2>6
<1>9. ASSUME NEW r \in Rows \ (DOMAIN computes \cup Loads), FSM2[r] <= t
      PROVE  Mem'[r] = Mem'[Driver(r)]
  <2>1. Driver(r) \in Rows /\ FSM2[Driver(r)] < FSM2[r]
    BY DEF Ready, CopiesLater
  <2>2. FSM2[Driver(r)] < t
    BY <1>2, <1>4, <1>9, <2>1
  <2>3. Mem'[Driver(r)] = Mem[Driver(r)] /\ MEM_RD[Driver(r)] = Mem[Driver(r)]
    BY <1>6, <2>1, <2>2
  <2>4. CASE FSM2[r] < t
    <3>1. Mem'[r] = Mem[r] /\ Mem[r] = Mem[Driver(r)]
      BY <1>1, <1>5, <1>6, <2>4 DEF Computed
    <3> QED BY <2>3, <3>1
  <2>5. CASE FSM2[r] = t
    BY <1>3, <2>3, <2>5 DEF Enters
  <2> QED BY <1>2, <1>4, <1>9, <2>4, <2>5
<1>10. \A r \in Rows : ReadOut(r)' => MEM_RD'[r] = Mem'[r]
  BY <1>1, <1>5, <1>6
<1>11. \A r \in DOMAIN computes : r \in Rows
  BY ResultRows
<1>12. \A r \in DOMAIN computes : Written(r)' => Mem'[r] = Asks(r)'
  BY <1>5, <1>8, <1>11
<1>13. \A r \in Rows \ (DOMAIN computes \cup Loads) :
         Written(r)' => Mem'[r] = Mem'[Driver(r)]
  BY <1>5, <1>9
<1> QED BY <1>1, <1>7, <1>10, <1>12, <1>13, TablesStay DEF Computed

-----------------------------------------------------------------------------
MachineInv == BindInv /\ Ready /\ Computed

(* Nothing is bound any more once there is a machine.                      *)
LEMMA SynthesiseComputed ==
  ASSUME Computed, Synthesise
  PROVE  Computed'
<1>1. T' = T
  BY DEF Synthesise, machine
<1>2. T = Off
  <2> SUFFICES ASSUME status = "done"
               PROVE  FALSE
    BY DEF Computed, Elaborates
  <2>1. status # "running"
    OBVIOUS
  <2>2. ~FetchConstantOperand
    BY <2>1, Zenon DEF FetchConstantOperand
  <2> QED
    BY <2>1, <2>2
    DEF Synthesise, Next, FetchLoad, BindLoad, FetchOperation, performBinding,
        ReuseResult, DropOperation, ConvertSrc2, ConvertSrc1, ShareSrc2, ShareSrc1,
        CopyRow, ShiftInPlace, ShiftCopy, MissingRow, CanBind, CanShift, Binding, Finish
<1> QED BY <1>1, <1>2 DEF Computed

LEMMA MachineStep ==
  ASSUME NoShifts, MachineInv, [NextMachine]_machineVars
  PROVE  MachineInv'
<1>1. [Next]_vars
  BY DEF NextMachine, machineVars, Synthesise, WriteInputs, go_rd_proc, wrt_proc
<1>2. BindInv' /\ Ready'
  BY <1>1, BindInvStep, ReadyStep DEF MachineInv
<1>3. CASE Synthesise
  BY <1>2, <1>3, SynthesiseComputed DEF MachineInv
<1>4. CASE WriteInputs
  BY <1>2, <1>4, WriteComputed DEF MachineInv
<1>5. CASE go_rd_proc
  BY <1>2, <1>5, ReadComputed DEF MachineInv
<1>6. CASE wrt_proc
  BY <1>2, <1>6, WrittenComputed DEF MachineInv
<1>7. CASE UNCHANGED machineVars
  <2>1. UNCHANGED vars /\ T' = T /\ Mem' = Mem /\ MEM_RD' = MEM_RD
    BY <1>7 DEF machineVars, machine
  <2>2. Computed'
    BY <2>1, TablesStay DEF MachineInv, Computed, Written, ReadOut, Asks, Word
  <2> QED BY <1>2, <2>2 DEF MachineInv
<1> QED BY <1>3, <1>4, <1>5, <1>6, <1>7 DEF NextMachine

(* When the last state is over, so is every row's.                         *)
LEMMA ComputedAtDone ==
  ASSUME MachineInv
  PROVE  MachineComputes
<1> SUFFICES ASSUME T # Off, T = DONE
             PROVE  MachineComputes
  BY DEF MachineComputes
<1>1. /\ BindInv /\ Ready /\ Elaborates
      /\ \A r \in Loads : Mem[r] = Word(r)
      /\ \A r \in DOMAIN computes : Written(r) => Mem[r] = Asks(r)
  BY DEF MachineInv, Computed
<1>2. ASSUME NEW reg \in Vars \cap Named, NEW k \in DOMAIN arrayNamesMap[reg]
      PROVE  Mem[arrayNamesMap[reg][k]] = Word(arrayNamesMap[reg][k])
  BY <1>1 DEF Ready, VarsLoaded
<1>3. ASSUME NEW r \in DOMAIN computes
      PROVE  Mem[r] = Asks(r)
  <2>1. r \in Rows /\ FSM2[r] \in Nat
    BY <1>1, ResultRows, TableTypes
  <2>2. FSM2[r] < getFSMSize /\ getFSMSize \in Nat
    BY <1>1, <2>1, ChainLong DEF Elaborates
  <2>3. Written(r)
    BY <2>1, <2>2 DEF Written, DONE
  <2> QED BY <1>1, <2>3
<1>4. ASSUME NEW a \in answers, a.row \in Rows, a.src1 # a.src2
      PROVE  Mem[a.row] = Apply(a.operation, Mem[a.src1], Mem[a.src2])
  <2> DEFINE q == computes[a.row]
  <2>1. a.row \in DOMAIN computes
    BY <1>1, <1>4 DEF Ready, AnswersComputed
  <2>2. SameQuestion(q, a)
    BY <1>1, <1>4, <2>1 DEF BindInv, Answered
  <2>3. Mem[a.row] = Apply(q.operation, Mem[q.src1], Mem[q.src2])
    BY <1>3, <2>1 DEF Asks
  <2> HIDE DEF q
  <2>4. /\ q.operation = a.operation
        /\ \/ q.src1 = a.src1 /\ q.src2 = a.src2
           \/ q.src1 = a.src2 /\ q.src2 = a.src1
    <3>1. q.operation = a.operation /\ {q.src1, q.src2} = {a.src1, a.src2}
      BY <2>2 DEF SameQuestion
    <3> QED BY <3>1
  <2> QED BY <2>3, <2>4 DEF Apply
<1> QED BY <1>2, <1>4 DEF MachineComputes

LEMMA MachineInvariant == NoShifts => (MachineSpec => []MachineInv)
<1> SUFFICES ASSUME NoShifts
             PROVE  MachineSpec => []MachineInv
  OBVIOUS
<1>1. InitMachine => MachineInv
  BY BindInvInit, ReadyInit DEF InitMachine, MachineInv, Computed
<1>2. MachineInv /\ [NextMachine]_machineVars => MachineInv'
  BY MachineStep
<1> QED BY <1>1, <1>2, PTL DEF MachineSpec

(* The machine that is printed computes what the source program asked:     *)
(* when DONE is given, every variable has its word still, and every row an *)
(* element is answered with holds its operation on its operands' words     *)
(* (PrintVhdlFile.cpp:782-968 on the tables of LiMBinder.cpp:884-1160).   *)
THEOREM MachineIsRight == NoShifts => (MachineSpec => []MachineComputes)
BY MachineInvariant, ComputedAtDone, PTL
=============================================================================
