--------------------------- MODULE MC_ArrayAccess ---------------------------
(***************************************************************************)
(* Programs for ArrayAccess, as clang lays them out: the blocks of a loop  *)
(* nest, the registers of an index.  A program is written as nests of      *)
(* loops and a sequence of accesses, each in a loop of a nest.             *)
(***************************************************************************)
EXTENDS ArrayAccess, TLC

LOCAL INSTANCE SequencesExt

(* The allocas: iterators, a vector, two matrices, and a scalar.           *)
i == 1  j == 2  k == 3  l == 4
x == 5  A == 6  B == 7
n == 8

Instr(op, dst, src1, src2, c) ==
  [op |-> op, dst |-> dst, src1 |-> src1, src2 |-> src2, const |-> c]
SetTo(v, c) == <<Instr("store", NoPtr, NoPtr, v, c)>>

(* for(v = init; v pred const; v += inc); bound is NoPtr or the iterator   *)
(* or scalar it is compared with, from NoPtr or the variable it starts at. *)
For(v, init, pred, const, inc) ==
  [it |-> v, init |-> init, pred |-> pred, const |-> const, inc |-> inc,
   bound |-> NoPtr, from |-> NoPtr]
Up(v, trips) == For(v, 0, "slt", trips, 1)
UpTo(v, w) == [For(v, 0, "sle", 0, 1) EXCEPT !.bound = w]
From(v, w, const) == [Up(v, const) EXCEPT !.from = w]

(* The blocks of level d of nest q, and the registers of access a.         *)
Header(q, d) == 100 * q + 10 * d + 1
Body(q, d) == 100 * q + 10 * d + 2
Latch(q, d) == 100 * q + 10 * d + 3
Exit(q, d) == 100 * q + 10 * d + 4
Reg(a, m) == 1000 * a + m

Start(lp, r) ==
  IF lp.from = NoPtr THEN SetTo(lp.it, lp.init)
  ELSE <<Instr("load", r, lp.from, NoPtr, 0), Instr("store", NoPtr, r, lp.it, 0)>>

(* An index, its registers from r on: its last register is r + 3, and a    *)
(* constant index has none.                                                *)
IndexCode(e, r) ==
  LET load(m) == Instr("load", r + m, e.its[m], NoPtr, 0)
      ext(m) == Instr("sext", r + 3, r + m, NoPtr, 0)
  IN CASE e.form = "constant" -> << >>
       [] e.form \in {"iterator", "other"} -> <<load(1), ext(1)>>
       [] e.form = "plus constant" -> <<load(1), Instr("add", r + 4, r + 1, NoPtr, e.c), ext(4)>>
       [] e.form = "constant plus" -> <<load(1), Instr("add", r + 4, NoPtr, r + 1, e.c), ext(4)>>
       [] e.form = "minus constant" -> <<load(1), Instr("sub", r + 4, r + 1, NoPtr, -e.c), ext(4)>>
       [] e.form = "two iterators" ->
            <<load(1), load(2), Instr("add", r + 4, r + 1, r + 2, 0), ext(4)>>

Value(e, r) == IF e.form = "constant" THEN NoPtr ELSE r + 3

(* The pointers of access a, and what is done with the element.            *)
LastPointer(acc, a) == Reg(a, 10 * Len(acc.idx) + 9)

AccessCode(acc, a) ==
  LET gep(m) == Instr("ptr", Reg(a, 10 * m + 9),
                      IF m = 1 THEN acc.array ELSE Reg(a, 19),
                      Value(acc.idx[m], Reg(a, 10 * m)), acc.idx[m].c)
      ptr == LastPointer(acc, a)
  IN FlattenSeq([m \in DOMAIN acc.idx |-> IndexCode(acc.idx[m], Reg(a, 10 * m)) \o <<gep(m)>>])
     \o IF acc.asData
        THEN <<Instr("load", Reg(a, 50), acc.idx[1].its[1], NoPtr, 0),
               Instr("add", Reg(a, 51), Reg(a, 50), NoPtr, 1),
               Instr("store", NoPtr, Reg(a, 51), ptr, 0)>>
        ELSE <<Instr("load", Reg(a, 50), ptr, NoPtr, 0),
               Instr("xor", Reg(a, 51), Reg(a, 50), Reg(a, 50), 0),
               Instr("store", NoPtr, Reg(a, 51), ptr, 0)>>

(* before: what is stored before the first nest.                           *)
Program(before, nests, accs, dims) ==
  LET Depth(q) == Len(nests[q])
      Q == DOMAIN nests
      First(q) == FoldLeft(LAMBDA s, m : s + Depth(m), 0, [m \in 1..(q - 1) |-> m])
      Number(q, d) == First(q) + d
      Accesses(q, d, after) ==
        FlattenSeq([a \in DOMAIN accs |->
          IF <<accs[a].nest, accs[a].level, accs[a].after>> = <<q, d, after>>
          THEN AccessCode(accs[a], a) ELSE << >>])
      StartOf(q, d) ==
        IF q \in Q /\ d \in DOMAIN nests[q] THEN Start(nests[q][d], Reg(0, 300 + Number(q, d)))
        ELSE << >>
      LoopOf(q, d) ==
        LET lp == nests[q][d]
        IN [it |-> lp.it, init |-> lp.init, const |-> lp.const, pred |-> lp.pred, inc |-> lp.inc,
            parent |-> IF d = 1 THEN 0 ELSE Number(q, d - 1),
            preheader |-> IF d > 1 THEN Body(q, d - 1) ELSE IF q = 1 THEN 1 ELSE Exit(q - 1, 1),
            header |-> Header(q, d), latch |-> Latch(q, d),
            body |-> <<Body(q, d), IF d = Depth(q) THEN Body(q, d) ELSE Exit(q, d + 1)>>,
            final |-> IF lp.bound = NoPtr THEN NoPtr ELSE Reg(0, 200 + Number(q, d)),
            loads |-> <<Instr("load", Reg(0, 100 + Number(q, d)), lp.it, NoPtr, 0)>>
                      \o IF lp.bound = NoPtr THEN << >>
                         ELSE <<Instr("load", Reg(0, 200 + Number(q, d)), lp.bound, NoPtr, 0)>>]
      Levels(q, Make(_)) == FlattenSeq([d \in DOMAIN nests[q] |-> Make(d)])
      InNests(Make(_)) == FlattenSeq([q \in Q |-> Make(q)])
      CodeOf(b) ==
        LET q == b \div 100
            d == (b % 100) \div 10
        IN CASE b = 1 -> before \o StartOf(1, 1)
             [] b % 10 = 2 -> Accesses(q, d, FALSE) \o StartOf(q, d + 1)
             [] b % 10 = 4 /\ d = 1 -> Accesses(q, 0, TRUE) \o StartOf(q + 1, 1)
             [] b % 10 = 4 /\ d > 1 -> Accesses(q, d - 1, TRUE)
             [] OTHER -> << >>
      blocks == <<1>> \o InNests(LAMBDA q :
                  Levels(q, LAMBDA d : <<Header(q, d), Body(q, d)>>)
                  \o Reverse(Levels(q, LAMBDA d : <<Exit(q, d), Latch(q, d)>>)))
  IN [dims |-> dims, scalars |-> {i, j, k, l, n},
      loops |-> InNests(LAMBDA q : Levels(q, LAMBDA d : <<LoopOf(q, d)>>)),
      blocks |-> blocks,
      code |-> [b \in Range(blocks) |-> CodeOf(b)],
      access |-> [r \in {LastPointer(accs[a], a) : a \in DOMAIN accs} |->
                    LET acc == accs[r \div 1000]
                    IN [array |-> acc.array,
                        loop |-> IF acc.level = 0 THEN 0 ELSE Number(acc.nest, acc.level),
                        forms |-> [m \in DOMAIN acc.idx |-> acc.idx[m].form],
                        indexes |-> [m \in DOMAIN acc.idx |-> Index(acc.idx[m].its, acc.idx[m].c)]]]]

-----------------------------------------------------------------------------
Idx(form, its, c) == [form |-> form, its |-> its, c |-> c]
It(v) == Idx("iterator", <<v>>, 0)
Plus(v, c) == Idx("plus constant", <<v>>, c)
Sum(v, w) == Idx("two iterators", <<v, w>>, 0)
Fixed(c) == Idx("constant", << >>, c)
Odd(v) == {Idx("constant plus", <<v>>, 1), Idx("minus constant", <<v>>, -1),
           Idx("other", <<n>>, 0)}

At(q, d, array, idx) ==
  [nest |-> q, level |-> d, after |-> FALSE, array |-> array, idx |-> idx, asData |-> FALSE]
After(acc) == [acc EXCEPT !.after = TRUE]
AsData(acc) == [acc EXCEPT !.asData = TRUE]

Vector(size) == (x :> <<size>>)
Matrix(r, c) == (A :> <<r, c>>) @@ (B :> <<r, c>>)
One(nest, accs, dims) == Program(<< >>, <<nest>>, accs, dims)

(* A single loop with all bounds around the boundaries.                    *)
SingleLoops ==
  {One(<<For(i, a, p, c, s)>>, <<At(1, 1, x, <<Plus(i, 1)>>)>>, Vector(5)) :
     a \in 0..3, c \in 0..3, p \in {"slt", "sle", "sgt", "sge", "ult"},
     s \in {1, 2, 3, -1, -2}}

(* Two accesses of a vector in a nest of one to three loops: every form of *)
(* index after every other, in the innermost body or around it.            *)
Of(nest) == {nest[d].it : d \in DOMAIN nest}
VectorNests == {<<Up(i, 2)>>, <<Up(i, 2), For(j, 1, "slt", 4, 2)>>, <<Up(i, 3), Up(j, 2)>>,
                <<Up(i, 2), Up(j, 2), Up(k, 3)>>}
VectorIndexes(nest) ==
  {It(v) : v \in Of(nest)} \cup {Plus(v, 1) : v \in Of(nest)} \cup {Fixed(1)}
    \cup {Sum(nest[1].it, v) : v \in Of(nest) \ {nest[1].it}} \cup Odd(nest[1].it)
VectorAccesses ==
  UNION {{One(nest, <<At(1, Len(nest), x, <<a>>), At(1, Len(nest), x, <<b>>)>>, Vector(6)) :
            a, b \in VectorIndexes(nest)} : nest \in VectorNests}

(* An access before, inside and after the inner loop, outside all, and one *)
(* that is to no array.                                                    *)
Places ==
  {One(<<Up(i, 3), Up(j, 2)>>,
       <<At(1, 1, x, <<It(i)>>), At(1, 2, x, <<Sum(i, j)>>), last>>, Vector(6)) :
     last \in {After(At(1, 1, x, <<Plus(i, 1)>>)), After(At(1, 0, x, <<Fixed(2)>>)),
               AsData(At(1, 2, x, <<It(j)>>)),
               At(1, 2, n, <<Fixed(1)>>)}}

(* Matrices of both orientations, with every pair of indexes.              *)
MatrixNests == {<<Up(i, 2), Up(j, 2)>>, <<Up(i, 2), Up(j, 3)>>,
                <<For(i, 2, "sge", 0, -2), Up(j, 2)>>}
MatrixIndexes(nest) ==
  {It(v) : v \in Of(nest)} \cup {Plus(nest[1].it, 1), Sum(nest[1].it, nest[2].it), Fixed(0)}
    \cup Odd(nest[1].it)
MatrixAccesses ==
  UNION {{One(nest, <<At(1, 2, A, <<a, b>>), At(1, 2, B, <<It(j), Plus(i, 1)>>)>>,
              Matrix(d[1], d[2])) :
            a, b \in MatrixIndexes(nest), d \in {<<3, 3>>, <<2, 3>>}} : nest \in MatrixNests}
  \cup {One(<<Up(i, 2), Up(j, 2), Up(k, 2)>>, <<At(1, 3, A, <<a, b>>)>>, Matrix(3, 3)) :
          a, b \in {It(i), It(k), Sum(i, k)}}

(* Loops that share an iterator, start where another value was stored, end *)
(* at a variable, or start or end at an iterator; a nest after a loop that *)
(* has read an iterator of it, or none.                                    *)
OddLoops ==
  {Program(before, << <<Up(i, 2)>>, <<second>> >>,
           <<At(1, 1, x, <<It(i)>>), At(2, 1, x, <<It(second.it)>>)>>, Vector(6)) :
     before \in {<< >>, SetTo(i, 3), SetTo(n, 2)},
     second \in {Up(i, 4), Up(j, 4), UpTo(j, n), From(j, n, 3)}}
  \cup {Program(SetTo(n, 2), << <<UpTo(j, n)>> >>,
                 <<AsData(At(1, 1, x, <<Idx("other", <<n>>, 0)>>))>>, Vector(3))}
  \cup {One(<<Up(i, 2), inner>>, <<At(1, 2, A, <<It(i), It(j)>>), At(1, 2, x, <<It(j)>>)>>,
            Matrix(3, 3) @@ Vector(3)) : inner \in {UpTo(j, i), From(j, i, 3)}}
  \cup {Program(SetTo(i, 0) \o SetTo(j, 0), << <<first>>, <<Up(j, 2), Up(i, 3)>> >>,
                 <<At(2, 2, x, <<It(j)>>)>>, Vector(3)) :
          first \in {Up(i, 2), Up(l, 2), UpTo(k, i), UpTo(i, j)}}

(* Sets of a matrix, and the triangle of Tests/test_programs/sat.c.        *)
Sets ==
  {One(<<Up(i, 2), Up(j, 2), Up(k, 2), Up(l, 2)>>, <<At(1, 4, A, <<a, b>>)>>, Matrix(3, 3)) :
     a \in {Sum(i, k), It(i)}, b \in {Sum(j, l), Plus(l, 1)}}
  \cup {One(<<Up(i, 2), Up(j, 2), UpTo(k, i), UpTo(l, j)>>, <<At(1, 4, A, <<It(k), It(l)>>)>>,
            Matrix(2, 2))}

AllPrograms ==
  SingleLoops \cup VectorAccesses \cup Places \cup MatrixAccesses \cup OddLoops \cup Sets

(* Tests/test_programs/Xor_Images.c with two rows instead of 256.          *)
XorImages ==
  {One(<<Up(i, 2), Up(j, 2)>>,
       <<At(1, 2, A, <<It(i), It(j)>>), At(1, 2, B, <<It(j), It(i)>>)>>, Matrix(2, 2))}
=============================================================================
