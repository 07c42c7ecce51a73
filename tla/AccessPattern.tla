--------------------------- MODULE AccessPattern ---------------------------
(***************************************************************************)
(* The access pattern of a pointer (Utils/AccessPattern.cpp): a matrix     *)
(* with one row per index of the array and one column per loop around the  *)
(* pointer, outermost first.  An entry is the increment of the loop when   *)
(* its iterator occurs in the index, and zero otherwise.                   *)
(*                                                                         *)
(* The class keeps the matrix in one std::vector and checks no bound.  Two *)
(* kinds of reads leave it: the cumulative advance of the pruning, and the *)
(* neighbours that the detection looks at.  What they find is a parameter  *)
(* of the operators, so that a caller can range over all of it.            *)
(***************************************************************************)
EXTENDS Integers, Sequences, FiniteSets

LOCAL INSTANCE SequencesExt

(* What memory may hold beyond the vectors when a matrix is analysed: the  *)
(* element that the pruning reads past the end of each row, which happens  *)
(* from three loops on, and the elements that follow the vector of the     *)
(* pruned matrix, by their distance from its end.  Only whether an element *)
(* is zero matters.                                                        *)
HeapContents(ap) ==
  [row    : [1..ap.rows -> IF ap.cols > 2 THEN {0, 1} ELSE {0}],
   beyond : [0..(2 * ap.cols - 2) -> IF ap.rows = 2 THEN {0, 1} ELSE {0}]]

(* incrementVector[i * colsM + j].  The vector of a pruned matrix lives in *)
(* the storage of the unpruned one and may be followed by its elements.    *)
Element(ap, heap, i, j) ==
  LET n == i * ap.cols + j
  IN IF n < Len(ap.vec) THEN ap.vec[n + 1] ELSE heap.beyond[n - Len(ap.vec)]

(* The column read for loop i: advance(it, i) starts from where the last   *)
(* advance ended, so that the position is 0, 1, 3, 6.                      *)
ColumnRead(ap, heap, i) ==
  LET n == (i * (i + 1)) \div 2
  IN [r \in 1..ap.rows |->
        IF n < ap.cols THEN ap.vec[(r - 1) * ap.cols + n + 1] ELSE heap.row[r]]

(* The n-th of a set of numbers, counted from the least.                   *)
Nth(S, n) == CHOOSE m \in S : Cardinality({k \in S : k <= m}) = n

(* Columns without a nonzero entry are dropped.  With one row the new      *)
(* number of columns goes to a local variable of the same name, and colsM  *)
(* stays what it was.                                                      *)
pruneIncrementVector(ap, heap) ==
  LET read(n) == ColumnRead(ap, heap, n - 1)
      kept == {n \in 1..ap.cols : \E r \in 1..ap.rows : read(n)[r] # 0}
      new == FlattenSeq([r \in 1..ap.rows |->
                           [n \in 1..Cardinality(kept) |-> read(Nth(kept, n))[r]]])
  IN [rows |-> ap.rows,
      cols |-> IF ap.rows = 2 THEN Cardinality(kept) ELSE ap.cols,
      vec  |-> new \o SubSeq(ap.vec, Len(new) + 1, Len(ap.vec))]

(* The shapes that the detection knows, in the order it tries them: for a  *)
(* nonzero entry (i, j), the offsets of the others.                        *)
Shapes ==
  << [cols |-> 4, others |-> {<<1, -1>>, <<1, 1>>, <<0, 2>>}, type |-> "colMajorSet2ColMajor"],
     [cols |-> 4, others |-> {<<0, 2>>, <<1, 1>>, <<1, 3>>},  type |-> "rowMajorSet2RowMajor"],
     [cols |-> 4, others |-> {<<0, 1>>, <<1, -1>>, <<1, 2>>}, type |-> "rowMajorSet2ColMajor"],
     [cols |-> 4, others |-> {<<0, 3>>, <<1, 1>>, <<1, 2>>},  type |-> "colMajorSet2RowMajor"],
     [cols |-> 3, others |-> {<<0, 2>>, <<1, 1>>},            type |-> "colMajorSet1RowMajor"],
     [cols |-> 3, others |-> {<<1, -1>>, <<1, 1>>},           type |-> "rowMajorSet1ColMajor"],
     [cols |-> 2, others |-> {<<1, 1>>},                      type |-> "rowMajor"],
     [cols |-> 2, others |-> {<<1, -1>>},                     type |-> "colMajor"] >>

PatternTypes == {Shapes[n].type : n \in DOMAIN Shapes} \cup {"undefined"}

Fits(ap, heap, shape, n) ==
  LET i == n \div ap.cols
      j == n % ap.cols
  IN /\ shape.cols = ap.cols
     /\ Element(ap, heap, i, j) # 0
     /\ \A d \in shape.others : Element(ap, heap, i + d[1], j + d[2]) # 0

(* The first entry, row by row, at which a shape fits, and the first shape *)
(* that fits there.  A vector is row-major wherever it has an entry.       *)
detectAccessPatternType(matrix, heap) ==
  LET ap == pruneIncrementVector(matrix, heap)
      Tried == {t \in (0..(ap.rows * ap.cols - 1)) \X DOMAIN Shapes :
                  Fits(ap, heap, Shapes[t[2]], t[1])}
      First == CHOOSE t \in Tried : \A u \in Tried :
                 t[1] < u[1] \/ (t[1] = u[1] /\ t[2] <= u[2])
  IN IF ap.rows = 1
     THEN IF \E i \in 0..(ap.cols - 1) : Element(ap, heap, 0, i) # 0
          THEN "rowMajor" ELSE "undefined"
     ELSE IF Tried = {} THEN "undefined" ELSE Shapes[First[2]].type

(* Columns of zeros before the first column that has an entry, and all of  *)
(* them after it.  detectZeroCols overwrites what the detection found.     *)
IsZeroColumn(ap, c) == \A r \in 0..(ap.rows - 1) : ap.vec[r * ap.cols + c] = 0

detectZeroCols(ap) ==
  LET zero == {c \in 1..ap.cols : IsZeroColumn(ap, c)}
      initial == {c \in zero : 1..c \subseteq zero}
  IN [initZeros |-> Cardinality(initial),
      finalZeros |-> Cardinality(zero \ initial)]
=============================================================================
