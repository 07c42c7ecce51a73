---------------------------- MODULE AddressList ----------------------------
(***************************************************************************)
(* The list of the rows that an access reads (Utils/AddressList.cpp).  The *)
(* list starts as the rows of the array; shapeAddressList picks from it    *)
(* what the geometry of the pointer asks for, and expandAddressList        *)
(* repeats what the loops that do not occur in the index repeat.           *)
(*                                                                         *)
(* The geometry has two axes, Y and X (the fields of pointerInfoStruct     *)
(* that end in Y and X, with setRows and setCols): where it starts, the    *)
(* start of its last set, the spacing, and size and spacing of a set.      *)
(***************************************************************************)
EXTENDS Integers, Sequences

LOCAL INSTANCE SequencesExt

CONSTANT Sentinel     \* what dereferencing end() of a list reads

(* for(v = from; v < below; v = v + step)                                  *)
Bounds(from, below, step) == [from |-> from, below |-> below, step |-> step]

Enters(b) == b.from < b.below

(* The loop is entered and never comes closer to its end.                  *)
Endless(b) == Enters(b) /\ b.step <= 0

Values(b) ==
  [n \in 1..(IF Enters(b) THEN (b.below - b.from + b.step - 1) \div b.step ELSE 0) |->
     b.from + (n - 1) * b.step]

(* The bodies of a loop one after the other.                               *)
ForEach(values, Body(_)) == FlattenSeq([n \in DOMAIN values |-> Body(values[n])])

(* *advance(begin(), n): the nodes of a std::list form a ring that passes  *)
(* through the end node.                                                   *)
ElementAt(list, n) ==
  LET k == n % (Len(list) + 1)
  IN IF k < Len(list) THEN list[k + 1] ELSE Sentinel

extractIteratorAdvancement(type, i, j, k, l, cols) ==
  CASE type = "rowMajor" -> i * cols + j
    [] type = "colMajor" -> j * cols + i
    [] type = "colMajorSet1RowMajor" -> i * cols + j + k
    [] type = "rowMajorSet1ColMajor" -> i + (j + k) * cols
    [] type = "rowMajorSet2RowMajor" -> i * cols + j + cols * k + l
    [] type = "rowMajorSet2ColMajor" -> i * cols + j + cols * l + k
    [] type = "colMajorSet2ColMajor" -> j * cols + i + cols * l + k
    [] type = "colMajorSet2RowMajor" -> j * cols + i + cols * k + l

IsPlain(pis) == pis.type \in {"rowMajor", "colMajor"}

(* Seeded fault: the columns of zeros are not looked at.                   *)
IsTriangularNever(pis) == FALSE

(* Two columns of zeros in front are taken for a triangular access.        *)
IsTriangular(pis) == IsPlain(pis) /\ pis.initZeros = 2

(* The loops over i, j, k and l of shapeAddressList; a plain access has    *)
(* only two.                                                               *)
LoopI(pis) ==
  IF IsTriangular(pis) THEN Bounds(pis.Y.offset, pis.X.stop, pis.X.spacing)
  ELSE Bounds(pis.Y.offset, pis.Y.stop + 1, pis.Y.spacing)

(* Seeded fault: the last column is left out.                              *)
LoopJBelowStop(pis) ==
  IF IsTriangular(pis) THEN Bounds(pis.X.offset, pis.Y.stop, pis.Y.spacing)
  ELSE IF IsPlain(pis) THEN Bounds(pis.X.offset, pis.X.stop, pis.X.spacing)
  ELSE Bounds(pis.X.offset, pis.arrayRows - pis.Y.set + 1, pis.X.spacing)

LoopJ(pis) ==
  IF IsTriangular(pis) THEN Bounds(pis.X.offset, pis.Y.stop, pis.Y.spacing)
  ELSE IF IsPlain(pis) THEN Bounds(pis.X.offset, pis.X.stop + 1, pis.X.spacing)
  ELSE Bounds(pis.X.offset, pis.arrayRows - pis.Y.set + 1, pis.X.spacing)

LoopK(pis, i) ==
  IF IsTriangular(pis) THEN Bounds(0, i + 1, pis.X.subset)
  ELSE IF IsPlain(pis) THEN Bounds(0, 1, 1)
  ELSE Bounds(0, pis.Y.set, pis.Y.subset)

LoopL(pis, j) ==
  IF IsTriangular(pis) THEN Bounds(0, j + 1, pis.Y.subset)
  ELSE IF IsPlain(pis) THEN Bounds(0, 1, 1)
  ELSE Bounds(0, pis.X.set, pis.X.subset)

(* shapeAddressList does not return.                                       *)
RunsAway(pis) ==
  /\ pis.type # "undefined"
  /\ \/ Endless(LoopI(pis))
     \/ Enters(LoopI(pis)) /\ Endless(LoopJ(pis))
     \/ /\ ~Endless(LoopI(pis)) /\ ~Endless(LoopJ(pis))
        /\ \E n \in DOMAIN Values(LoopI(pis)), m \in DOMAIN Values(LoopJ(pis)) :
             LET i == Values(LoopI(pis))[n]
                 j == Values(LoopJ(pis))[m]
             IN \/ Endless(LoopK(pis, i))
                \/ Enters(LoopK(pis, i)) /\ Endless(LoopL(pis, j))

(* The list after shapeAddressList, when it returns.                       *)
shapeAddressList(list, pis) ==
  IF pis.type = "undefined" THEN << >>
  ELSE ForEach(Values(LoopI(pis)), LAMBDA i :
         ForEach(Values(LoopJ(pis)), LAMBDA j :
           ForEach(Values(LoopK(pis, i)), LAMBDA k :
             ForEach(Values(LoopL(pis, j)), LAMBDA l :
               << ElementAt(list,
                    IF IsTriangular(pis) THEN pis.arrayCols * k + l
                    ELSE extractIteratorAdvancement(pis.type, i, j, k, l,
                                                    pis.arrayCols)) >>))))

Product(s) ==
  LET upTo[n \in 0..Len(s)] == IF n = 0 THEN 1 ELSE upTo[n - 1] * s[n] IN upTo[Len(s)]

(* Each element as often as the loops of the final columns of zeros run,   *)
(* the list as often as those of the initial ones.  The final columns are  *)
(* counted back from the innermost loop, wherever the zeros are.           *)
expandAddressList(list, pis, iterations) ==
  LET nRepeatList == Product(SubSeq(iterations, 1, pis.initZeros))
      nRepeatEachElement ==
        Product(SubSeq(iterations, Len(iterations) - pis.finalZeros + 1, Len(iterations)))
      Times(n, s) == ForEach([m \in 1..n |-> m], LAMBDA m : s)
  IN IF pis.initZeros = 0 /\ pis.finalZeros = 0 THEN list
     ELSE Times(nRepeatList,
                ForEach(list, LAMBDA e : Times(nRepeatEachElement, <<e>>)))

(* Seeded fault: the elements to skip are not skipped.                     *)
getSubsetFromStart(list, subsetNumber, nSubsetElements, skipElements) ==
  [n \in 1..nSubsetElements |-> ElementAt(list, n - 1)]

(* nSubsetElements elements after skipElements others.  The loop needs a   *)
(* second round for any subset but the first, which it only has when the   *)
(* list is longer than the subset.                                         *)
getSubset(list, subsetNumber, nSubsetElements, skipElements) ==
  LET skipped == CASE subsetNumber = 0 -> 0
                   [] subsetNumber = 1 -> 1
                   [] OTHER -> skipElements
      rounds == IF subsetNumber = 0 THEN 0 ELSE nSubsetElements
  IN  [n \in 1..(IF rounds < Len(list) THEN nSubsetElements ELSE 0) |->
         ElementAt(list, skipped + n - 1)]
=============================================================================
