------------------------------ MODULE LiMArray ------------------------------
(***************************************************************************)
(* The Logic-in-Memory array (Binding/LiMArray.cpp) as a data structure: a *)
(* map from row names to rows.  The module has no variable; an operator    *)
(* takes the array and returns the array after the call.                   *)
(*                                                                         *)
(* A row is a memory word, with the type of the logic added to it ("load"  *)
(* for a word without logic) and the list of rows wired to it: the first   *)
(* one writes the word, the others are operands of its logic.  A row added *)
(* for a copy has both operands in the list.  Row names are the addresses  *)
(* 0, 4, 8... counted in words.  The parallel list of connection types and *)
(* the extra logic, which only the printers read, are left out.            *)
(***************************************************************************)
EXTENDS Integers, Sequences, StdContainers

NoMemoryInput == -1         \* 0xdef: a word written from outside the array

Row == Nat
InputLine == Row \cup {NoMemoryInput}

Listed(list, x) == \E k \in DOMAIN list : list[k] = x

-----------------------------------------------------------------------------
addNewRow(arr, row) ==
  Insert(arr, row, [rowType |-> "load", inputConnections |-> <<NoMemoryInput>>])

addNewLiMRow(arr, row, type, src) ==
  Insert(arr, row, [rowType |-> type, inputConnections |-> <<src>>])

addNewResultRow(arr, row, src) ==
  Insert(arr, row, [rowType |-> "load", inputConnections |-> <<src>>])

(* checkIfRowIsLiM: the word already carries logic.                        *)
checkIfRowIsLiM(arr, row) == arr[row].rowType # "load"

isLiMRowOfThisType(arr, row, type) == arr[row].rowType = type

(* The body of changeLiMRowType, for a row that is not LiM yet.            *)
changeLiMRowType(arr, row, type) == [arr EXCEPT ![row].rowType = type]

(* Seeded fault: a row that has an operand is left as it is.               *)
addOnlyOneConnection(arr, row, src) ==
  IF Len(arr[row].inputConnections) = 1
  THEN [arr EXCEPT ![row].inputConnections = Append(@, src)]
  ELSE arr

(* Seeded fault: a row listed already is not added, whatever it is there   *)
(* for.                                                                    *)
addUnlistedConnection(arr, row, src) ==
  LET list == arr[row].inputConnections IN
  IF ~Listed(list, src)
  THEN [arr EXCEPT ![row].inputConnections = Append(list, src)]
  ELSE arr

(* The search covers the whole list, the line that writes the word too.    *)
addNewInputConnection(arr, row, src) ==
  LET list == arr[row].inputConnections IN
  IF Len(list) = 1 \/ ~Listed(list, src)
  THEN [arr EXCEPT ![row].inputConnections = Append(list, src)]
  ELSE arr
=============================================================================
