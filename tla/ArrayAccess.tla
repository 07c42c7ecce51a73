---------------------------- MODULE ArrayAccess ----------------------------
(***************************************************************************)
(* The rows that the binder gives to an array access: the tables of        *)
(* CollectInfo read by AddressList, as LiMBinder does at the beginning of  *)
(* bindParallel for each operand that is an array.                         *)
(***************************************************************************)
EXTENDS CollectInfo, AddressList

LOCAL INSTANCE SequencesExt

(* The rows of an array in the order in which they were made, as their     *)
(* numbers: element [e / c][e % c] of A[r][c], element [e] of a vector.    *)
RowsOf(p) == [e \in 1..(pointerInfoMap[p].arrayRows * pointerInfoMap[p].arrayCols) |-> e - 1]

(* The list of addresses of a source operand.                              *)
AddressesOf(p) ==
  LET pis == pointerInfoMap[p]
      loops == getIterationVector(pis.loopIterator)
  IN expandAddressList(shapeAddressList(RowsOf(p), pis), pis,
                       [n \in DOMAIN loops |-> loopInfoMap[loops[n]].iterations])

-----------------------------------------------------------------------------
(* The reference: the element that each execution of the access reads.     *)
Nest(p) == Reverse(<<prog.access[p].loop>> \o Parents(prog.access[p].loop))

(* The t-th execution: each loop of the nest with its own count, the       *)
(* innermost the fastest.                                                  *)
Executions(p) == Product([m \in DOMAIN Nest(p) |-> TripCount(Nest(p)[m])])

ValueAt(p, t, v) ==
  LET nest == Nest(p)
      m == CHOOSE k \in DOMAIN nest : IteratorOf(nest[k]) = v
      inner == Product([k \in 1..(Len(nest) - m) |-> TripCount(nest[m + k])])
  IN IteratorValue(nest[m], (t \div inner) % TripCount(nest[m]))

IndexAt(p, t, idx) ==
  LET its == idx.iterators
      sum[n \in 0..Len(its)] ==
        IF n = 0 THEN idx.constant ELSE sum[n - 1] + ValueAt(p, t, its[n])
  IN sum[Len(its)]

ElementRead(p, t) ==
  LET a == prog.access[p]
      dims == prog.dims[a.array]
  IN IF Len(dims) = 1 THEN IndexAt(p, t, a.indexes[1])
     ELSE IndexAt(p, t, a.indexes[1]) * dims[2] + IndexAt(p, t, a.indexes[2])

ElementsRead(p) == [t \in 1..Executions(p) |-> ElementRead(p, t - 1)]

InBounds(p) ==
  \A t \in 0..(Executions(p) - 1), n \in DOMAIN prog.access[p].indexes :
    IndexAt(p, t, prog.access[p].indexes[n]) \in 0..(prog.dims[prog.access[p].array][n] - 1)

-----------------------------------------------------------------------------
Ascending(n) == prog.loops[n].inc > 0 /\ Runs(n)

(* An access inside loops with constant bounds that ascend and run, with   *)
(* one iterator in each index, that of a loop around it: any other one     *)
(* holds what its own loop left in it.                                     *)
Simple(p) ==
  /\ Handled(p)
  /\ (\A n \in Loops : PlainLoop(n)) /\ (\A n \in Range(Nest(p)) : Ascending(n))
  /\ \A idx \in Range(prog.access[p].indexes) :
       /\ Len(idx.iterators) = 1
       /\ \E n \in Loops : n \in Range(Nest(p)) /\ IteratorOf(n) = idx.iterators[1]
  /\ InBounds(p)

Iterator(p, n) == prog.access[p].indexes[n].iterators[1]

(* The nests in which shapeAddressList has the whole sequence: a vector    *)
(* under any loop but the third, and a square matrix under exactly two     *)
(* loops, by the outer and the inner iterator in this order.               *)
VectorAccess(p) ==
  /\ Simple(p) /\ Len(prog.access[p].indexes) = 1
  /\ \A k \in DOMAIN Nest(p) : IteratorOf(Nest(p)[k]) = Iterator(p, 1) => k # 3

Square(p) ==
  LET dims == prog.dims[prog.access[p].array] IN Len(dims) = 2 /\ dims[1] = dims[2]

ByRows(p) ==
  /\ Simple(p) /\ Square(p) /\ Len(Nest(p)) = 2
  /\ \A k \in {1, 2} : Iterator(p, k) = IteratorOf(Nest(p)[k])

(* The transposed access: by columns, both loops and both constants alike. *)
ByColumns(p) ==
  /\ Simple(p) /\ Square(p) /\ Len(Nest(p)) = 2
  /\ \A k \in {1, 2} : Iterator(p, k) = IteratorOf(Nest(p)[3 - k])
  /\ \A t \in 0..MaxTrips : IteratorValue(Nest(p)[1], t) = IteratorValue(Nest(p)[2], t)
  /\ TripCount(Nest(p)[1]) = TripCount(Nest(p)[2])
  /\ prog.access[p].indexes[1].constant = prog.access[p].indexes[2].constant

Exact(p) == ~RunsAway(pointerInfoMap[p]) /\ AddressesOf(p) = ElementsRead(p)

(* shapeAddressList, expandAddressList: the operands of an array operation *)
(* are bound to the elements that the loops read, in that order, for the   *)
(* accesses above; a transposed access whenever it was recognised as one.  *)
AddressesExact ==
  Parsed => \A p \in DOMAIN pointerInfoMap :
    (VectorAccess(p) \/ ByRows(p)
       \/ (ByColumns(p) /\ pointerInfoMap[p].type = "colMajor")) => Exact(p)

(* detectAccessPatternType ("simple column major"), Tests/test_programs/   *)
(* Xor_Images.c: an array read by columns is bound by columns.             *)
TransposeExact ==
  Parsed => \A p \in DOMAIN pointerInfoMap : ByColumns(p) => Exact(p)

(* shapeAddressList: it returns for every pointer with one iterator in     *)
(* each index of ascending loops, whatever pattern was detected.  The      *)
(* spacing that setPointerInfo leaves at -1 where it sees no set is the    *)
(* step of a loop, and only a set or a triangle brings it into play.       *)
ReturnsWithoutSets ==
  Parsed => \A p \in DOMAIN pointerInfoMap :
    LET pis == pointerInfoMap[p]
    IN (pis.measured /\ Simple(p) /\ pis.initZeros # 2) => ~RunsAway(pis)

-----------------------------------------------------------------------------
(* What the code does where the properties above have a precondition.      *)

(* No header before loop n reads variable v.                               *)
NewTo(n, v) == \A m \in 1..(n - 1) : \A J \in Range(prog.loops[m].loads) : J.src1 # v

(* A loop whose iterator starts at a constant and is read by no header     *)
(* before, whatever comes after.                                           *)
FirstUse(n) ==
  LET stores(m) == {J \in Range(prog.code[prog.loops[m].preheader]) :
                      J.op = "store" /\ J.src2 = IteratorOf(n)}
  IN /\ NewTo(n, IteratorOf(n)) /\ stores(n) # {}
     /\ \A m \in 1..n : \A J \in stores(m) :
          J.src1 = NoPtr /\ J.const = prog.loops[n].init

(* The first loop to read an iterator keeps its entry, its bounds, its     *)
(* body and the loops around it, when later loops use the iterator again   *)
(* with other bounds: these leave no entry of their own and only append to *)
(* a nest (LoopInfoTable.cpp:48, CollectInfo.cpp:405-425).                 *)
FirstUseKept ==
  Parsed => \A n \in DOMAIN loopIteratorMap :
    (/\ \A m \in Range(<<n>> \o Parents(n)) : FirstUse(m) /\ prog.loops[m].final = NoPtr
     /\ prog.loops[n].pred # "ult" /\ Runs(n)) =>
      LET v == IteratorOf(n)
      IN /\ loopInfoMap[v].init = prog.loops[n].init /\ loopInfoMap[v].inc = prog.loops[n].inc
         /\ loopInfoMap[v].iterations = TripCount(n)
         /\ loopInfoMap[v].body = prog.loops[n].body
         /\ SubSeq(nestedLoopMap[v], 1, Len(Parents(n))) =
              [m \in DOMAIN Parents(n) |-> IteratorOf(Parents(n)[m])]

(* A loop with a variable for bound has the entry of its iterator, with    *)
(* that bound, exactly if a header has read the bound before.  Otherwise   *)
(* the bound is taken for the iterator and the iterator has no entry       *)
(* (CollectInfo.cpp:405-450,522-541).                                      *)
BoundsTold ==
  Parsed => \A n \in DOMAIN loopIteratorMap :
    (FirstUse(n) /\ prog.loops[n].final # NoPtr) =>
      LET v == IteratorOf(n)
          bound == prog.loops[n].loads[2].src1
      IN IF NewTo(n, bound) THEN v \notin DOMAIN loopInfoMap
         ELSE ~loopInfoMap[v].isFinal /\ loopInfoMap[v].variableFinal = bound

(* A loop that steps towards its bound and never runs is recorded with no  *)
(* iterations, unless it starts past the bound by less than a step: then   *)
(* the truncated division makes it one (CollectInfo.cpp:495-515).          *)
IdleLoops ==
  Parsed => \A n \in DOMAIN loopIteratorMap :
    LET lp == prog.loops[n]
    IN (/\ FirstUse(n) /\ lp.final = NoPtr /\ TripCount(n) = 0
        /\ lp.pred \in IF lp.inc > 0 THEN {"slt", "sle"} ELSE {"sgt", "sge"}) =>
         (loopInfoMap[IteratorOf(n)].iterations > 0
            <=> Absolute(lp.const - lp.init) \in 1..(Absolute(lp.inc) - 1))

(* What the tables hold of the loops that are left out of LoopsRecorded:   *)
(* iterators used again, bounds that are variables, loops that do not run  *)
(* (LoopInfoTable.cpp:40-60, CollectInfo.cpp:395-541).                     *)
UnsupportedLoops == FirstUseKept /\ BoundsTold /\ IdleLoops

-----------------------------------------------------------------------------
(* An index without a case in parseLoopBody is never made up: it is the    *)
(* index that another access has in the same place, or none at all         *)
(* (CollectInfo.cpp:637,740-842).                                          *)
StaleIndexFromOther ==
  Parsed /\ (\A n \in Loops : PlainLoop(n)) => \A p \in DOMAIN pointerInfoMap :
    \A n \in DOMAIN pointerInfoMap[p].indexes :
      prog.access[p].forms[n] \notin HandledForms =>
        LET r == pointerInfoMap[p].indexes[n]
        IN Index(r.iterators, r.constant) \in
             {Index(<< >>, 0)} \cup {prog.access[q].indexes[n] :
                q \in {o \in DOMAIN prog.access \ {p} :
                         /\ n \in DOMAIN prog.access[o].indexes
                         /\ prog.access[o].forms[n] \in HandledForms}}

(* The detector loses values that are data only where the program reads a  *)
(* variable of a loop header, or the element of an access with an index    *)
(* that parseLoopBody did not find (CollectInfo.cpp:1479-1511).            *)
OnlyIndexesLost ==
  pc = "done" => \A J \in Survivors, K \in Emitted \ Survivors :
    K.dst \in {J.src1, J.src2} \ ({NoPtr} \cup DOMAIN pointerInfoMap) =>
      \/ K.op = "load" /\ K.src1 \in {H.src1 : H \in HeaderLoadsOf(prog)}
      \/ /\ K.op = "ptr" /\ K.dst \in DOMAIN prog.access
         /\ \/ ~Handled(K.dst)
            \/ \E idx \in Range(prog.access[K.dst].indexes) :
                 ~(Range(idx.iterators) \subseteq DOMAIN iteratorsAliasMap)

(* What becomes of the indexes that are left out of IndexesRecorded, and   *)
(* of the registers that are left out of SurvivorsClosed                   *)
(* (CollectInfo.cpp:637-842,1479-1511).                                    *)
UnsupportedIndexes == StaleIndexFromOther /\ OnlyIndexesLost

-----------------------------------------------------------------------------
(* Of the pointers that are no triangle, in ascending loops, those that    *)
(* never come out of shapeAddressList are the vectors with a sum of two    *)
(* iterators for index, and the matrices found to be sets of which one     *)
(* index is such a sum and the other is not: the spacings of -1 that       *)
(* setPointerInfo leaves (CollectInfo.cpp:1305-1430).                      *)
RunsAwayForSums ==
  (Parsed /\ \A n \in Loops : PlainLoop(n) /\ Ascending(n)) =>
    \A p \in DOMAIN pointerInfoMap :
      LET pis == pointerInfoMap[p]
          size == [n \in DOMAIN pis.indexes |-> Len(pis.indexes[n].iterators)]
      IN (pis.measured /\ ~IsTriangular(pis)) =>
           (RunsAway(pis) <=>
              /\ pis.type # "undefined"
              /\ size = <<2>> \/ (~IsPlain(pis) /\ size \in {<<1, 2>>, <<2, 1>>}))

(* A vector read by the third loop of a nest is taken for a triangle, the  *)
(* bounds of which it does not have: the operand is bound to no row, never *)
(* to a wrong one (AddressList.cpp:107-113).                               *)
ThirdLoopUnbound ==
  Parsed => \A p \in DOMAIN pointerInfoMap :
    (/\ Simple(p) /\ Len(prog.access[p].indexes) = 1 /\ Len(Nest(p)) >= 3
     /\ Iterator(p, 1) = IteratorOf(Nest(p)[3])) =>
       ~RunsAway(pointerInfoMap[p]) /\ AddressesOf(p) = << >>

(* A matrix read by rows is bound to the elements that the loops read      *)
(* exactly if it is square or only its first row is read: what is          *)
(* multiplied with the row is the number of rows (CollectInfo.cpp:175-184, *)
(* AddressList.cpp:31-33,135).                                             *)
WideByRows ==
  Parsed => \A p \in DOMAIN pointerInfoMap :
    (/\ Simple(p) /\ Len(prog.access[p].indexes) = 2 /\ Len(Nest(p)) = 2
     /\ \A k \in {1, 2} : Iterator(p, k) = IteratorOf(Nest(p)[k])) =>
       (Exact(p) <=>
          \/ Square(p)
          \/ \A t \in 0..(Executions(p) - 1) :
               IndexAt(p, t, prog.access[p].indexes[1]) = 0)

(* Which elements are bound where AddressesExact does not say it: none for *)
(* a sum, none for the third loop, and the right ones for a matrix that is *)
(* not square in its first row only (AddressList.cpp:31-33,107-135).       *)
UnsupportedAddresses == RunsAwayForSums /\ ThirdLoopUnbound /\ WideByRows
=============================================================================
