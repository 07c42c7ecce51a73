---------------------------- MODULE Accumulation ----------------------------
(***************************************************************************)
(* Accumulations in the binding phase (Binding/LiMBinder.cpp), beside the  *)
(* loads and fully parallel operations of LiMBinder.                       *)
(*                                                                         *)
(* handleAccumulationBindingProcess cuts the rows of the set to accumulate *)
(* into lists, performAccBinding sums each list by a tree of two operand   *)
(* additions.  With the optimisation "Accumulation" it first replaces      *)
(* pairs of rows by a result addMap already has for them.                  *)
(*                                                                         *)
(* The geometry that cuts the set is that of the destination, or, when the *)
(* destination is a single variable, whatever the previous instruction     *)
(* left in srcReg2PointerInfo: any of Shapes.                              *)
(***************************************************************************)
EXTENDS LiMBinder, AddressList, Bags

CONSTANTS
  AccOps,         \* operations marked as accumulations
  AccAccesses,    \* position lists of the sets to accumulate
  Shapes,         \* [triangle, count, cols]: how the set is cut into lists
  Optimisations   \* whether optTarget is "Accumulation": a set of Booleans

ASSUME AccOpsAssumption == AccOps \subseteq Ops \ ShiftOps
ASSUME ShapesAssumption ==
  \A s \in Shapes : s.triangle \in BOOLEAN /\ s.count \in Nat /\ s.cols \in Nat \ {0}
ASSUME AccAccessAssumption == \A a \in AccAccesses : a \in Seq(Nat \ {0})
ASSUME OptimisationsAssumption == Optimisations \subseteq BOOLEAN
ASSUME EndAssumption == Sentinel \in Row    \* the size kept in the end node

VARIABLES
  optimise,     \* optTarget = "Accumulation"
  addMap,       \* partial result -> the two rows added for it
  acc,          \* the accumulation being cut into lists, or Idle
  tree,         \* the list being summed (locals of performAccBinding), or Idle
  summands,     \* history: partial result -> bag of the rows summed in it
  sums          \* history: what was asked for each list, and the row answered

accVars == <<optimise, addMap, acc, tree, summands, sums>>
allVars == <<vars, accVars>>

Accumulating == acc # Idle
Summing == tree # Idle

InitAcc ==
  /\ Init
  /\ optimise \in Optimisations
  /\ addMap = EmptyMap
  /\ acc = Idle
  /\ tree = Idle
  /\ summands = EmptyMap
  /\ sums = {}

-----------------------------------------------------------------------------
(* handleAccumulationBindingProcess up to its loops.  When findInANM fails *)
(* for one of the operands, the step is FetchConstantOperand of LiMBinder. *)
FetchAccumulation(op, reg, reg1, access, shape) ==
  /\ status = "running" /\ ~Busy /\ ~Accumulating
  /\ reg \in Temps \ Named
  /\ reg1 \in Named /\ Readable(reg1, access)
  /\ acc' = [operation |-> op, destReg |-> reg, set |-> RowsOf(reg1, access),
             shape |-> shape, i |-> 0, skipElements |-> 0, tmpAccList |-> << >>]
  /\ UNCHANGED <<vars, optimise, addMap, tree, summands, sums>>

(* Elements of the i-th list of a triangle, one operation per element.     *)
Width(i) == (i \div acc.shape.cols + 1) * ((i % acc.shape.cols) + 1)

(* ceil(log2(n)): how often n is halved, rounded up, to come to 1.         *)
Steps(n) ==
  LET halvings[m \in 1..n] == IF m = 1 THEN 0 ELSE halvings[(m + 1) \div 2] + 1
  IN  halvings[n]

(* The initial order of a list none of whose pairs is available: the       *)
(* elements 0, 2, 4, ... of the list as it stands go to its end in turn.   *)
MovedToEnd(s, n) == SubSeq(s, 1, n - 1) \o SubSeq(s, n + 1, Len(s)) \o <<s[n]>>

Reorganise(list) ==
  LET moved[n \in 0..Len(list)] ==
        IF n = 0 THEN list
        ELSE IF n % 2 = 1 THEN MovedToEnd(moved[n - 1], n) ELSE moved[n - 1]
  IN  moved[Len(list)]

(* The second half of performAccBinding begins: byTime[t] are the rows     *)
(* that join the tree at step t.                                           *)
Allocate(t, byTime) ==
  [t EXCEPT !.phase = "merge",
            !.byTime = IF Len(ListAt(byTime, 0)) = Len(t.list)
                       THEN [byTime EXCEPT ![0] = Reorganise(@)] ELSE byTime]

NewTree(list) ==
  LET t == [phase |-> "reuse", list |-> list, steps |-> Steps(Len(list)),
            currList |-> list, nextList |-> << >>, remainList |-> << >>,
            k |-> 1, isReduceable |-> FALSE, time |-> 0, byTime |-> EmptyMap,
            step |-> 0, currTimeAccList |-> << >>, p |-> 1, pairs |-> 0]
  IN  IF optimise /\ t.steps > 0 THEN t
      ELSE Allocate(t, [time \in {0} |-> list])

(* One iteration of the handler's loop.  The list of the else branch is    *)
(* never emptied: it is accumulationList that is cleared.                  *)
TakeList ==
  /\ status = "running" /\ Accumulating /\ ~Summing
  /\ acc.i < acc.shape.count
  /\ LET subset == IF acc.shape.triangle
                   THEN getSubset(acc.set, acc.i, Width(acc.i), acc.skipElements)
                   ELSE acc.tmpAccList
         list == Append(subset, ElementAt(acc.set, acc.i))
     IN  /\ acc' = [acc EXCEPT !.i = @ + 1, !.tmpAccList = list,
                               !.skipElements = @ + Width(acc.i)]
         /\ tree' = NewTree(list)
  /\ UNCHANGED <<vars, optimise, addMap, summands, sums>>

EndAccumulation ==
  /\ status = "running" /\ Accumulating /\ ~Summing
  /\ acc.i = acc.shape.count
  /\ acc' = Idle
  /\ UNCHANGED <<vars, optimise, addMap, tree, summands, sums>>

-----------------------------------------------------------------------------
(* Reduction by results that exist: one iteration over k of one pass.      *)
Reducing == status = "running" /\ Summing /\ tree.phase = "reuse"

(* searchForResult: the lowest row addMap has for the two operands.        *)
Available(row1, row2) ==
  {m \in DOMAIN addMap : Listed(addMap[m], row1) /\ Listed(addMap[m], row2)}

searchForResult(row1, row2) ==
  CHOOSE m \in Available(row1, row2) :
    \A other \in Available(row1, row2) : m <= other

Partners(k) ==
  {l \in (k + 1)..Len(tree.currList) :
     Available(tree.currList[k], tree.currList[l]) # {}}

(* The elements of a list that are in a set, in their order.               *)
Among(list, set) ==
  LET among[n \in 0..Len(list)] ==
        IF n = 0 THEN << >>
        ELSE IF list[n] \in set THEN Append(among[n - 1], list[n]) ELSE among[n - 1]
  IN  among[Len(list)]

(* std::list::remove: every occurrence.                                    *)
Without(list, x) == Among(list, Row \ {x})

(* Seeded fault: the second row of the pair stays in the list.             *)
ReplacePairKeeping ==
  /\ Reducing /\ tree.k <= Len(tree.currList)
  /\ Partners(tree.k) # {}
  /\ \E l \in Partners(tree.k) :
       tree' = [tree EXCEPT
                  !.nextList = Append(@, searchForResult(tree.currList[tree.k],
                                                         tree.currList[l])),
                  !.k = @ + 1, !.isReduceable = TRUE]
  /\ UNCHANGED <<vars, optimise, addMap, acc, summands, sums>>

(* Seeded fault: the pass is not marked as having reduced anything.        *)
ReplacePairUnmarked ==
  /\ Reducing /\ tree.k <= Len(tree.currList)
  /\ Partners(tree.k) # {}
  /\ \E l \in Partners(tree.k) :
       tree' = [tree EXCEPT
                  !.nextList = Append(@, searchForResult(tree.currList[tree.k],
                                                         tree.currList[l])),
                  !.currList = Without(@, tree.currList[l]), !.k = @ + 1]
  /\ UNCHANGED <<vars, optimise, addMap, acc, summands, sums>>

ReplacePair ==
  /\ Reducing /\ tree.k <= Len(tree.currList)
  /\ Partners(tree.k) # {}
  /\ LET l == CHOOSE l \in Partners(tree.k) : \A m \in Partners(tree.k) : l <= m
         row1 == tree.currList[tree.k]
         row2 == tree.currList[l]
     IN tree' = [tree EXCEPT !.nextList = Append(@, searchForResult(row1, row2)),
                             !.currList = Without(@, row2),
                             !.k = @ + 1, !.isReduceable = TRUE]
  /\ UNCHANGED <<vars, optimise, addMap, acc, summands, sums>>

KeepRow ==
  /\ Reducing /\ tree.k <= Len(tree.currList)
  /\ Partners(tree.k) = {}
  /\ tree' = [tree EXCEPT !.remainList = Append(@, tree.currList[tree.k]),
                          !.k = @ + 1]
  /\ UNCHANGED <<vars, optimise, addMap, acc, summands, sums>>

(* The end of a pass.  What the last pass reduced is entered for a step    *)
(* after the last one.                                                     *)
EndPass ==
  /\ Reducing /\ tree.k > Len(tree.currList)
  /\ LET byTime == Insert(tree.byTime, tree.time, tree.remainList)
         time == tree.time + 1
     IN tree' = IF tree.isReduceable /\ time < tree.steps
                THEN [tree EXCEPT !.byTime = byTime, !.time = time, !.k = 1,
                        !.currList = tree.nextList, !.nextList = << >>,
                        !.remainList = << >>, !.isReduceable = FALSE]
                ELSE Allocate(tree, IF tree.isReduceable
                                    THEN Insert(byTime, time, tree.nextList)
                                    ELSE byTime)
  /\ UNCHANGED <<vars, optimise, addMap, acc, summands, sums>>

-----------------------------------------------------------------------------
(* std::list::merge: the second list is spliced in, row by row, in front   *)
(* of the first row of the other that is higher.                           *)
Merge(list1, list2) ==
  LET merged[p \in (1..(Len(list1) + 1)) \X (1..(Len(list2) + 1))] ==
        LET i == p[1]
            j == p[2]
        IN  IF i > Len(list1) THEN SubSeq(list2, j, Len(list2))
            ELSE IF j > Len(list2) THEN SubSeq(list1, i, Len(list1))
            ELSE IF list2[j] < list1[i] THEN <<list2[j]>> \o merged[<<i, j + 1>>]
            ELSE <<list1[i]>> \o merged[<<i + 1, j>>]
  IN  merged[<<1, 1>>]

(* Rows that are no adders and adders in turn, as long as there are both.  *)
Nth(list, n) == IF n <= Len(list) THEN <<list[n]>> ELSE << >>

Alternate(rows) ==
  LET adders == {r \in DOMAIN limArray : isLiMRowOfThisType(limArray, r, "add")}
      addRowsList == Among(rows, adders)
      loadRowsList == Among(rows, Row \ adders)
      alternated[n \in 0..Len(rows)] ==
        IF n = 0 THEN << >>
        ELSE alternated[n - 1] \o Nth(loadRowsList, n) \o Nth(addRowsList, n)
  IN  alternated[Len(rows)]

(* The rows of step tree.step, ready to be added two by two.               *)
Merging == status = "running" /\ Summing /\ tree.phase = "merge"

JoiningRows == Merge(tree.currTimeAccList, ListAt(tree.byTime, tree.step))

BeginStep ==
  /\ Merging /\ tree.step < tree.steps
  /\ \A k \in DOMAIN JoiningRows : JoiningRows[k] \in DOMAIN limArray
  /\ tree' = [tree EXCEPT !.phase = "bind", !.p = 1,
                          !.pairs = Len(JoiningRows) \div 2,
                          !.currTimeAccList = Alternate(JoiningRows)]
  /\ UNCHANGED <<vars, optimise, addMap, acc, summands, sums>>

(* Seeded fault: a step without a pair does not count as one.              *)
EndStepOfPairs ==
  /\ status = "running" /\ Summing /\ tree.phase = "bind" /\ tree.p > tree.pairs
  /\ tree' = [tree EXCEPT !.phase = "merge",
                          !.step = IF tree.pairs > 0 THEN @ + 1 ELSE @]
  /\ UNCHANGED <<vars, optimise, addMap, acc, summands, sums>>

EndStep ==
  /\ status = "running" /\ Summing /\ tree.phase = "bind" /\ tree.p > tree.pairs
  /\ tree' = [tree EXCEPT !.phase = "merge", !.step = @ + 1]
  /\ UNCHANGED <<vars, optimise, addMap, acc, summands, sums>>

(* The tree is built: destReg gets the front of the list, or what the      *)
(* front of an empty list reads.                                           *)
Answer(row, lost) ==
  /\ arrayNamesMap' = PushBack(arrayNamesMap, acc.destReg, row)
  /\ sums' = sums \cup {[destReg |-> acc.destReg, i |-> acc.i, list |-> tree.list,
                         row |-> row, lost |-> lost]}
  /\ tree' = Idle
  /\ UNCHANGED <<tables, FSM, zeroAddr, shiftAmount, ins, status, history,
                 optimise, addMap, acc, summands>>

AnswerFront ==
  /\ Merging /\ tree.step >= tree.steps
  /\ \/ /\ tree.currTimeAccList # << >>
        /\ Answer(Head(tree.currTimeAccList), FALSE)
     \/ /\ tree.currTimeAccList = << >>
        /\ \E row \in GarbageRows : Answer(row, TRUE)

-----------------------------------------------------------------------------
(* The pair under aListIT1 and aListIT2.                                   *)
row1 == tree.currTimeAccList[tree.p]
row2 == tree.currTimeAccList[tree.p + 1]

Pairing == status = "running" /\ Summing /\ tree.phase = "bind" /\ tree.p <= tree.pairs
CanPair == Pairing /\ row1 \in DOMAIN FSM2 /\ row2 \in DOMAIN FSM2

(* Seeded fault: the two rows are written one after the other.             *)
pairTimeSum == getTime(FSM2, row1) + getTime(FSM2, row2) + 1

pairTime == Maximum(getTime(FSM2, row1), getTime(FSM2, row2)) + 1

(* What a row stands for: the rows summed in it, or itself.                *)
Summands(row) == IF row \in DOMAIN summands THEN summands[row] ELSE SetToBag({row})

(* The partial result name, driven by row, takes the place of its operands.*)
AddPartial(arr, fsm2, row, name, time) ==
  /\ limArray' = addNewResultRow(arr, name, row)
  /\ FSM2' = addNewInstruction(fsm2, time, name)
  /\ zeroAddr' = name + 1
  /\ computes' = Insert(computes, name, [operation |-> acc.operation, row |-> name,
                                         src1 |-> row1, src2 |-> row2])
  /\ summands' = Insert(summands, name, Summands(row1) (+) Summands(row2))
  /\ tree' = [tree EXCEPT !.p = @ + 1,
                 !.currTimeAccList =
                    SubSeq(@, 1, tree.p - 1) \o <<name>>
                      \o SubSeq(@, tree.p + 2, Len(@))]
  /\ UNCHANGED <<FSM, selectionSignalsList, lastDestMap, arrayNamesMap,
                 shiftAmount, ins, status, answers, optimise, acc, sums>>

(* Seeded fault: the row is wired to itself.                               *)
ConvertInTreeLoop(row, other) ==
  /\ AddPartial(addNewInputConnection(
                  changeLiMRowType(limArray, row, acc.operation), row, row),
                FSM2, row, zeroAddr, pairTime)
  /\ addMap' = Insert(addMap, zeroAddr, <<row1, row2>>)

(* row is a plain word: it becomes an adder and other is wired to it.      *)
ConvertInTree(row, other) ==
  /\ AddPartial(addNewInputConnection(
                  changeLiMRowType(limArray, row, acc.operation), row, other),
                FSM2, row, zeroAddr, pairTime)
  /\ addMap' = Insert(addMap, zeroAddr, <<row1, row2>>)

ConvertRow2 ==
  /\ CanPair
  /\ ~checkIfRowIsLiM(limArray, row2)
  /\ ConvertInTree(row2, row1)

ConvertRow1 ==
  /\ CanPair
  /\ checkIfRowIsLiM(limArray, row2) /\ ~checkIfRowIsLiM(limArray, row1)
  /\ ConvertInTree(row1, row2)

(* Both are LiM: a row is added for the pair, which addMap does not learn. *)
CopyInTree ==
  /\ CanPair
  /\ checkIfRowIsLiM(limArray, row2) /\ checkIfRowIsLiM(limArray, row1)
  /\ LET copyRow == zeroAddr IN
     AddPartial(addNewInputConnection(
                  addNewLiMRow(limArray, copyRow, acc.operation, row1), copyRow, row2),
                addNewInstruction(FSM2, pairTime, copyRow),
                copyRow, copyRow + 1, pairTime + 1)
  /\ UNCHANGED addMap

(* findRow or getTime of a row that is not there.                          *)
MissingAccRow ==
  /\ \/ /\ Merging /\ tree.step < tree.steps
        /\ \E k \in DOMAIN JoiningRows : JoiningRows[k] \notin DOMAIN limArray
     \/ Pairing /\ ~CanPair
  /\ status' = "row not in limArray"
  /\ UNCHANGED <<tables, FSM, zeroAddr, arrayNamesMap, shiftAmount, ins, history, accVars>>

performAccBinding ==
  \/ ReplacePair \/ KeepRow \/ EndPass
  \/ BeginStep \/ EndStep \/ AnswerFront
  \/ ConvertRow2 \/ ConvertRow1 \/ CopyInTree
  \/ MissingAccRow

NextAcc ==
  \/ ~Accumulating /\ Next /\ UNCHANGED accVars
  \/ \E op \in AccOps, reg \in Temps, reg1 \in Named, a \in AccAccesses, shape \in Shapes :
       FetchAccumulation(op, reg, reg1, a, shape)
  \/ TakeList \/ performAccBinding \/ EndAccumulation

SpecAcc == InitAcc /\ [][NextAcc]_allVars

(* What the code does by itself once an instruction is fetched.            *)
Work ==
  \/ ~Accumulating /\ (BindLoad \/ performBinding) /\ UNCHANGED accVars
  \/ TakeList \/ performAccBinding \/ EndAccumulation

(* The pass is one thread that nothing suspends: it takes a step while it  *)
(* can.  Nothing obliges the program to have another instruction.          *)
LiveSpec == SpecAcc /\ WF_allVars(Work)

-----------------------------------------------------------------------------
Tree ==
  [phase : {"reuse", "merge", "bind"}, list : Seq(Row), steps : Nat,
   currList : Seq(Row), nextList : Seq(Row), remainList : Seq(Row),
   k : Nat, isReduceable : BOOLEAN, time : Nat, step : Nat,
   currTimeAccList : Seq(Row), p : Nat, pairs : Nat, byTime : {EmptyMap}]

(* Every variable has the type of the member or local it stands for.       *)
TypeOKAcc ==
  /\ TypeOK
  /\ \A m \in DOMAIN addMap : m \in Row /\ addMap[m] \in Row \X Row
  /\ Accumulating =>
       acc \in [operation : AccOps, destReg : Temps, set : Seq(Row), shape : Shapes,
               i : Nat, skipElements : Nat, tmpAccList : Seq(Row)]
  /\ Summing =>
       /\ Accumulating
       /\ \A t \in DOMAIN tree.byTime : t \in Nat /\ tree.byTime[t] \in Seq(Row)
       /\ [tree EXCEPT !.byTime = EmptyMap] \in Tree
  /\ \A s \in sums : s.list \in Seq(Row) /\ s.row \in Row

SumOf(list) ==
  LET sum[n \in 0..Len(list)] ==
        IF n = 0 THEN EmptyBag ELSE sum[n - 1] (+) Summands(list[n])
  IN  sum[Len(list)]

Distinct(list) == \A i, j \in DOMAIN list : list[i] = list[j] => i = j

(* searchForResult takes a row twice in a list for the operand of any      *)
(* result, so lists with repetitions are out of reach of the optimisation. *)
Sound(list) == optimise => Distinct(list)

(* Cutting a list into pairs, merging it with leftovers of other steps and *)
(* replacing pairs by older results loses no row of the list and counts    *)
(* none twice: the row answered stands for the whole list                  *)
(* (LiMBinder.cpp:514-593,633-888).                                        *)
SumsExact ==
  \A s \in sums : ~s.lost /\ Sound(s.list) => Summands(s.row) = SumOf(s.list)

(* The front of an empty list is read (LiMBinder.cpp:885,898) for a list   *)
(* of one row, and for a list whose whole sum some result already is.      *)
LostOnlyWhole ==
  \A s \in sums :
    s.lost /\ Sound(s.list) =>
      \/ Len(s.list) = 1
      \/ \E r \in DOMAIN addMap : Summands(r) = SumOf(s.list)

(* A tree of two operand additions is as deep as the logarithm of its      *)
(* list, whatever was reused or copied on the way: every level costs at    *)
(* most the state of a copy row and the state of its result.               *)
LogarithmicDelay ==
  \A s \in sums :
    ~s.lost /\ Sound(s.list) =>
      \E k \in DOMAIN s.list : FSM2[s.row] <= FSM2[s.list[k]] + 2 * Steps(Len(s.list))

(* The rows of a list but the last, which is the next element of the set.  *)
(* The lists of a triangle are consecutive pieces of the set, none left    *)
(* out and none taken twice, though getSubset skips a different count for  *)
(* the first, the second and the other ones.  The other lists are the      *)
(* prefixes of the set: only an unrelated list is cleared between two of   *)
(* them (LiMBinder.cpp:265).  A set as long as its triangle is assumed.    *)
ListsTaken ==
  Summing /\ (acc.shape.triangle => acc.skipElements <= Len(acc.set)) =>
    LET first == IF acc.shape.triangle THEN acc.skipElements - Width(acc.i - 1) ELSE 0
        taken == IF acc.shape.triangle THEN Width(acc.i - 1) ELSE acc.i - 1
    IN  /\ Len(tree.list) = taken + 1
        /\ \A n \in 1..taken : tree.list[n] = ElementAt(acc.set, first + n - 1)

(* Every instruction that is fetched is bound, or the run ends at one of   *)
(* the places marked unreachable: the loops over elements, lists, passes,  *)
(* steps and pairs all end.                                                *)
EveryInstructionBound ==
  Busy \/ Accumulating ~> (~Busy /\ ~Accumulating) \/ status # "running"
=============================================================================
