---------------------------- MODULE CollectInfo ----------------------------
(***************************************************************************)
(* The collection of loop and array information (Analysis/CollectInfo.cpp, *)
(* LoopInfoTable.cpp, PointerInfoTable.cpp).                               *)
(*                                                                         *)
(* parseFunction reads the first block for its allocas, then every loop in *)
(* preorder (preheader, latch, header), then the other blocks one          *)
(* instruction after the other.  Nothing links an array access to its      *)
(* iterators but the last register each iterator was loaded or extended    *)
(* into (iteratorsAliasMap), and the two indexes of a matrix arrive with   *)
(* two instructions, so that an access is put together across several      *)
(* steps from members that no step resets.                                 *)
(*                                                                         *)
(* A program is a record of LLVM objects: dims, the dimensions of the      *)
(* array allocas, and scalars, the other ones; loops, in preorder; blocks, *)
(* in the order of the function, and their code.  Addresses are natural    *)
(* numbers; NoPtr is nullptr, and stands for an operand that is a          *)
(* constant.  The latch adds a constant to the iterator, which is an       *)
(* assumption that CollectInfo.cpp states.                                 *)
(***************************************************************************)
EXTENDS Integers, Sequences, Functions, StdContainers, AccessPattern

LOCAL INSTANCE SequencesExt

CONSTANTS
  Programs,     \* the functions that may be parsed
  Garbage,      \* what an int that was never assigned may hold
  MaxTrips      \* bound: iterations of a loop, for the reference definitions

NoPtr == 0

Instructions == [op : STRING, dst : Nat, src1 : Nat, src2 : Nat, const : Int]

(* What clang makes of a function.  The loops are in preorder; the header  *)
(* of one loads its iterator, and then a bound that is variable.  A        *)
(* pointer to an element of a vector, or of a row of a matrix, is an       *)
(* access; a matrix has more than a column, since parseAllocaInstructions  *)
(* takes one of one column for a vector.                                   *)
ASSUME ProgramsAssumption ==
  \A p \in Programs :
    /\ p.blocks \in Seq(DOMAIN p.code) /\ p.blocks # << >>
    /\ \A b \in DOMAIN p.code : p.code[b] \in Seq(Instructions)
    /\ p.loops \in Seq({p.loops[n] : n \in DOMAIN p.loops})
    /\ \A n \in DOMAIN p.loops :
         LET l == p.loops[n]
         IN /\ l.preheader \in DOMAIN p.code /\ l.parent \in 0..(n - 1)
            /\ l.loads \in Seq(Instructions) /\ l.loads # << >> /\ l.loads[1].src1 = l.it
            /\ l.final = NoPtr => Len(l.loads) = 1
            /\ {l.init, l.const, l.inc} \subseteq Int
    /\ DOMAIN p.dims \cup p.scalars \subseteq Nat
    /\ \A a \in DOMAIN p.dims : Len(p.dims[a]) # 1 => p.dims[a][2] # 1
    /\ LET Pointers == {J \in UNION {{p.code[b][n] : n \in DOMAIN p.code[b]} :
                                       b \in DOMAIN p.code} : J.op = "ptr"}
       IN \A J \in Pointers :
            (J.src1 \in DOMAIN p.dims /\ Len(p.dims[J.src1]) = 1)
              \/ J.src1 \in {K.dst : K \in Pointers}
            => J.dst \in DOMAIN p.access

ASSUME MaxTripsAssumption == MaxTrips \in Nat

(* An index of an array: the sum of its iterators and its constant.        *)
Index(its, c) == [iterators |-> its, constant |-> c]

-----------------------------------------------------------------------------
(* What clang writes for an access to an array.  An iterator is loaded     *)
(* into a register of its own, the one register after the other is added   *)
(* to and sign-extended, and a pointer reads the result.                   *)
InstructionsOf(p) == UNION {Range(p.code[b]) : b \in DOMAIN p.code}
HeaderLoadsOf(p) == UNION {Range(p.loops[n].loads) : n \in DOMAIN p.loops}
IteratorsOf(p) == {p.loops[n].it : n \in DOMAIN p.loops}

(* Before instruction q of code c, the last load of variable v was into    *)
(* register r; or the register it was loaded into was extended to r.       *)
Untouched(c, m, q, v, r) ==
  \A k \in (m + 1)..(q - 1) : /\ ~(c[k].op = "load" /\ c[k].src1 = v)
                              /\ ~(c[k].op = "sext" /\ c[k].src1 = r)
Holds(c, q, v, r) ==
  \E m \in 1..(q - 1) :
    c[m].op = "load" /\ c[m].src1 = v /\ c[m].dst = r /\ Untouched(c, m, q, v, r)
Extended(c, q, v, r) ==
  \E m \in 1..(q - 1) : /\ c[m].op = "sext" /\ c[m].dst = r
                        /\ Holds(c, m, v, c[m].src1) /\ Untouched(c, m, q, v, r)

(* Instruction a adds a constant to an iterator, or two iterators.         *)
AddsUp(p, c, a, x) ==
  /\ c[a].op = "add"
  /\ \/ \E v \in IteratorsOf(p) : /\ Holds(c, a, v, c[a].src1) /\ c[a].src2 = NoPtr
                                   /\ x = Index(<<v>>, c[a].const)
     \/ \E v, w \in IteratorsOf(p) : /\ v # w /\ Holds(c, a, v, c[a].src1)
                                      /\ Holds(c, a, w, c[a].src2) /\ x = Index(<<v, w>>, 0)

(* Pointer q reads index x: a constant, an iterator, or a sum.             *)
ReadsIndex(p, c, q, x) ==
  \/ c[q].src2 = NoPtr /\ x = Index(<< >>, c[q].const)
  \/ \E v \in IteratorsOf(p) : Extended(c, q, v, c[q].src2) /\ x = Index(<<v>>, 0)
  \/ \E a, e \in 1..(q - 1) : /\ a < e /\ AddsUp(p, c, a, x)
                              /\ c[e].op = "sext" /\ c[e].src1 = c[a].dst /\ c[e].dst = c[q].src2

(* Pointer q is to an element of a vector, or of the row that the last     *)
(* pointer before it is to.                                                *)
ReadsElement(p, c, q, acc) ==
  \/ /\ Len(p.dims[acc.array]) = 1 /\ Len(acc.indexes) = 1
     /\ c[q].src1 = acc.array /\ ReadsIndex(p, c, q, acc.indexes[1])
  \/ /\ Len(p.dims[acc.array]) = 2 /\ Len(acc.indexes) = 2
     /\ \E g \in 1..(q - 1) :
          /\ c[g].op = "ptr" /\ c[g].src1 = acc.array /\ c[q].src1 = c[g].dst
          /\ \A k \in (g + 1)..(q - 1) : c[k].op # "ptr"
          /\ ReadsIndex(p, c, g, acc.indexes[1]) /\ ReadsIndex(p, c, q, acc.indexes[2])

(* The index forms that parseLoopBody has a case for: an iterator, an      *)
(* iterator plus a constant in this order, two iterators, a constant.      *)
HandledForms == {"iterator", "plus constant", "two iterators", "constant"}
HandledIn(p, r) ==
  /\ Range(p.access[r].forms) \subseteq HandledForms
  /\ p.access[r].array \in DOMAIN p.dims

(* A register is written by one instruction, and is no variable.           *)
RegistersAssumption(p) ==
  /\ \A b, d \in DOMAIN p.code : \A m \in DOMAIN p.code[b], n \in DOMAIN p.code[d] :
       p.code[b][m].dst = p.code[d][n].dst /\ p.code[b][m].dst # NoPtr => b = d /\ m = n
  /\ \A J \in HeaderLoadsOf(p) :
       /\ J.op = "load" /\ J.dst # NoPtr
       /\ \A K \in InstructionsOf(p) \cup HeaderLoadsOf(p) : K.dst = J.dst => K = J
  /\ \A J \in InstructionsOf(p) :
       /\ J.op = "store" => J.dst = NoPtr
       /\ J.op \in {"load", "add", "sext", "ptr"} =>
            J.dst \notin {NoPtr} \cup DOMAIN p.dims \cup p.scalars
  /\ IteratorsOf(p) \cap DOMAIN p.dims = {}

(* A register is extended once, that of an index no further; an element    *)
(* of an array of one or two dimensions is no array; and an access of one  *)
(* of the forms above is in no body but that of its loop.                  *)
ASSUME AccessesAssumption ==
  \A p \in Programs :
    /\ RegistersAssumption(p)
    /\ \A a \in DOMAIN p.dims :
         p.dims[a] \in Seq(Nat \ {0}) /\ Len(p.dims[a]) \in {1, 2}
    /\ \A r \in DOMAIN p.access :
         p.access[r].indexes \in Seq([iterators : Seq(Nat), constant : Int])
    /\ \A J, K \in {M \in InstructionsOf(p) : M.op = "sext"} :
         /\ J.src1 = K.src1 => J = K
         /\ J.src1 = K.dst =>
              \A M \in InstructionsOf(p) \cup HeaderLoadsOf(p) :
                M.op = "add" \/ (M.op = "load" /\ M.src1 \in IteratorsOf(p)) => K.src1 # M.dst
    /\ \A J, K, M \in {N \in InstructionsOf(p) : N.op = "ptr"} :
         J.src1 = K.dst => K.src1 # M.dst
    /\ \A b \in DOMAIN p.code : \A q \in DOMAIN p.code[b] :
         LET r == p.code[b][q].dst
         IN (p.code[b][q].op = "ptr" /\ r \in DOMAIN p.access /\ HandledIn(p, r)) =>
              /\ ReadsElement(p, p.code[b], q, p.access[r])
              /\ \A n \in DOMAIN p.loops : b \in Range(p.loops[n].body) => n = p.access[r].loop

VARIABLES
  prog,                   \* the function and its LoopInfo
  pc,                     \* "alloca", "loops", "header", "blocks", "done", "undefined"
  loop, block, pos,       \* the loop, block and instruction being read
  it, loopInfo,           \* locals of parseLoopHeaderAndLatch
  initValuesMap, iteratorsAliasMap, aliasInfoMap, arraysInfoMap,
  loopInfoMap, nestedLoopMap, loopIteratorMap,
  combinedIteratorsMap, combinedIterators,
  tmpPointerStruct, ptrValid,
  pointerInfoMap,         \* PIT
  validBBs

place == <<prog, pc, loop, block, pos>>
locals == <<it, loopInfo>>
LIT == <<loopInfoMap, nestedLoopMap, loopIteratorMap>>
combined == <<combinedIteratorsMap, combinedIterators>>
pointers == <<tmpPointerStruct, ptrValid, pointerInfoMap>>
vars == <<place, locals, initValuesMap, iteratorsAliasMap, aliasInfoMap,
          arraysInfoMap, LIT, combined, pointers, validBBs>>

IndexOp(its, c, op) == [iterators |-> its, constant |-> c, operation |-> op]

NoLoopInfo(g) ==
  [init |-> g, final |-> g, inc |-> g, iterations |-> g, isInit |-> FALSE,
   isFinal |-> FALSE, variableFinal |-> NoPtr, body |-> << >>]

Init ==
  /\ prog \in Programs
  /\ pc = "alloca" /\ loop = 1 /\ block = 1 /\ pos = 1
  /\ it = NoPtr /\ loopInfo = NoLoopInfo(0)
  /\ initValuesMap = EmptyMap /\ iteratorsAliasMap = EmptyMap
  /\ aliasInfoMap = EmptyMap /\ arraysInfoMap = EmptyMap
  /\ loopInfoMap = EmptyMap /\ nestedLoopMap = EmptyMap
  /\ loopIteratorMap = << >>
  /\ combinedIteratorsMap = EmptyMap /\ combinedIterators = {}
  /\ tmpPointerStruct = [first |-> IndexOp(<< >>, 0, "none"), second |-> IndexOp(<< >>, 0, "none")]
  /\ ptrValid = FALSE
  /\ pointerInfoMap = EmptyMap /\ validBBs = << >>

Erase(m, k) == [x \in DOMAIN m \ {k} |-> m[x]]
Assign(m, k, v) == [m EXCEPT ![k] = v]

(* The key of *m.end() for the two maps that the code dereferences there:  *)
(* the word behind the header of the tree, its number of nodes.  It is no  *)
(* address of the program.                                                 *)
EndKey(m) == -1 - Cardinality(DOMAIN m)

-----------------------------------------------------------------------------
(* Seeded fault: every array is a vector.                                  *)
DimensionsOfVector(d) == <<1, d[1]>>

(* Seeded fault: rows and columns are not exchanged.                       *)
DimensionsInOrder(d) == IF Len(d) = 1 THEN <<1, d[1]>> ELSE d

(* parseAllocaInstructions.  The outer dimension of A[r][c] is called cols *)
(* and comes last, the inner one rows.                                     *)
Dimensions(d) == IF Len(d) = 1 THEN <<1, d[1]>> ELSE <<d[2], d[1]>>

ParseAllocas ==
  /\ pc = "alloca"
  /\ arraysInfoMap' = [a \in DOMAIN prog.dims |-> Dimensions(prog.dims[a])]
  /\ aliasInfoMap' = [a \in DOMAIN prog.dims \cup prog.scalars |-> << >>]
  /\ validBBs' = <<prog.blocks[1]>>
  /\ pc' = "loops" /\ block' = 2
  /\ UNCHANGED <<prog, loop, pos, locals, initValuesMap, iteratorsAliasMap, LIT,
                 combined, pointers>>

-----------------------------------------------------------------------------
(* collectLoopInfo: the loops in preorder.                                 *)
L == prog.loops[loop]

Earliest(S) == CHOOSE n \in S : \A m \in S : n <= m
Latest(S) == CHOOSE n \in S : \A m \in S : m <= n

(* Constants stored before the loop may be initial values of an iterator;  *)
(* the first one stays.                                                    *)
StoredConstants(m, code) ==
  LET stores == {n \in DOMAIN code : code[n].op = "store" /\ code[n].src1 = NoPtr}
      of(v) == {n \in stores : code[n].src2 = v}
  IN [v \in DOMAIN m \cup {code[n].src2 : n \in stores} |->
        IF v \in DOMAIN m THEN m[v] ELSE code[Earliest(of(v))].const]

(* An iterator is where it was loaded last.                                *)
LoadedIterators(m, code) ==
  LET loads(v) == {n \in DOMAIN code : code[n].op = "load" /\ code[n].src1 = v}
  IN [v \in DOMAIN m |-> IF loads(v) = {} THEN m[v] ELSE code[Latest(loads(v))].dst]

(* parseLoopPreheader, and the beginning of parseLoopHeaderAndLatch: a     *)
(* record of indeterminate integers, the increment from the latch, and a   *)
(* pointer to the iterator that is not assigned: nothing, or what the last *)
(* call left in its place.                                                 *)
ParseLoopPreheader ==
  /\ pc = "loops" /\ loop <= Len(prog.loops)
  /\ initValuesMap' = StoredConstants(initValuesMap, prog.code[L.preheader])
  /\ iteratorsAliasMap' = LoadedIterators(iteratorsAliasMap, prog.code[L.preheader])
  /\ \E g \in Garbage : loopInfo' = [NoLoopInfo(g) EXCEPT !.inc = L.inc]
  /\ it' \in {NoPtr, it}
  /\ pc' = "header" /\ pos' = 1
  /\ UNCHANGED <<prog, loop, block, aliasInfoMap, arraysInfoMap, LIT, combined,
                 pointers, validBBs>>

(* A load of the header.  A variable that it meets for the first time is   *)
(* taken for the iterator: the one of the loop, and the one that holds its *)
(* bound.  When the initial value is unknown, the key comes from end().    *)
HeaderLoad ==
  /\ pc = "header" /\ pos <= Len(L.loads)
  /\ LET I == L.loads[pos]
         known == I.src1 \in DOMAIN initValuesMap
         key == IF known THEN I.src1 ELSE EndKey(initValuesMap)
     IN IF I.src1 \in DOMAIN iteratorsAliasMap
        THEN /\ iteratorsAliasMap' = Assign(iteratorsAliasMap, I.src1, I.dst)
             /\ pos' = pos + 1
             /\ UNCHANGED <<pc, it, loopInfo, aliasInfoMap>>
        ELSE /\ iteratorsAliasMap' = Insert(iteratorsAliasMap, key, I.dst)
             /\ aliasInfoMap' = Erase(aliasInfoMap, I.src1)
             /\ loopInfo' = IF known
                            THEN [loopInfo EXCEPT !.init = initValuesMap[I.src1], !.isInit = TRUE]
                            ELSE [loopInfo EXCEPT !.isInit = FALSE]
             /\ it' = key
             /\ pos' = pos + 1
             \* aliasInfoMap.erase(end())
             /\ pc' = IF I.src1 \in DOMAIN aliasInfoMap THEN pc ELSE "undefined"
  /\ UNCHANGED <<prog, loop, block, initValuesMap, arraysInfoMap, LIT, combined,
                 pointers, validBBs>>

(* Division of C: towards zero.                                            *)
Absolute(a) == IF a < 0 THEN -a ELSE a
Quotient(a, b) ==
  LET q == Absolute(a) \div Absolute(b) IN IF (a < 0) = (b < 0) THEN q ELSE -q

(* Seeded fault: one iteration is added only where the division has a rest. *)
IterationsOfStrict(pred, info) ==
  LET distance == info.final - info.init
      q == Quotient(distance, info.inc)
  IN IF q * info.inc # distance THEN q + 1 ELSE q

(* Seeded fault: every predicate counts its bound.                         *)
IterationsOfClosed(pred, info) ==
  LET distance == info.final - info.init
      q == Quotient(distance, info.inc)
  IN q + 1

Iterations(pred, info) ==
  LET distance == info.final - info.init
      q == Quotient(distance, info.inc)
  IN IF q * info.inc # distance THEN q + 1
     ELSE IF pred \in {"sge", "sle"} THEN q + 1
     ELSE IF pred \in {"sgt", "slt"} THEN q
     ELSE info.iterations

(* The loops around loop n, innermost first.                               *)
Parents(n) ==
  LET around[m \in 0..Len(prog.loops)] ==
        IF m = 0 THEN << >> ELSE <<m>> \o around[prog.loops[m].parent]
  IN around[prog.loops[n].parent]

(* Seeded fault: a bound that is no constant is not looked for.            *)
ComparedConstant(info) ==
  LET bounded == [info EXCEPT !.final = L.const, !.isFinal = TRUE]
  IN IF L.final = NoPtr
     THEN [bounded EXCEPT !.iterations = Iterations(L.pred, bounded)]
     ELSE info

Compared(info) ==
  IF L.final = NoPtr
  THEN LET bounded == [info EXCEPT !.final = L.const, !.isFinal = TRUE]
       IN [bounded EXCEPT !.iterations = Iterations(L.pred, bounded)]
  ELSE LET found == {v \in DOMAIN iteratorsAliasMap : iteratorsAliasMap[v] = L.final}
       IN IF found = {} THEN info
          ELSE [info EXCEPT !.isFinal = FALSE, !.variableFinal = CHOOSE v \in found : TRUE]

(* Seeded fault: a later loop replaces the entry of its iterator.          *)
HeaderCompareReplaces ==
  /\ pc = "header" /\ pos > Len(L.loads)
  /\ loopInfoMap' = Insert(Erase(loopInfoMap, L.it), L.it, [Compared(loopInfo) EXCEPT !.body = L.body])
  /\ loopIteratorMap' = Append(loopIteratorMap, L.it)
  /\ nestedLoopMap' =
       LET around == [n \in DOMAIN Parents(loop) |-> loopIteratorMap[Parents(loop)[n]]]
       IN Assign(Insert(nestedLoopMap, L.it, << >>), L.it, ListAt(nestedLoopMap, L.it) \o around)
  /\ loop' = loop + 1 /\ pc' = "loops"
  /\ UNCHANGED <<prog, block, pos, locals, initValuesMap, iteratorsAliasMap,
                 aliasInfoMap, arraysInfoMap, combined, pointers, validBBs>>

(* The comparison and the branch of the header, the entry of the loop in   *)
(* LoopInfoTable (an entry that is there stays as it is), and the loops    *)
(* around it, which are appended in any case.                              *)
HeaderCompare ==
  /\ pc = "header" /\ pos > Len(L.loads)
  /\ loopInfoMap' = Insert(loopInfoMap, it, [Compared(loopInfo) EXCEPT !.body = L.body])
  /\ loopIteratorMap' = Append(loopIteratorMap, it)
  /\ nestedLoopMap' =
       LET around == [n \in DOMAIN Parents(loop) |-> loopIteratorMap[Parents(loop)[n]]]
       IN Assign(Insert(nestedLoopMap, it, << >>), it, ListAt(nestedLoopMap, it) \o around)
  /\ loop' = loop + 1 /\ pc' = "loops"
  /\ UNCHANGED <<prog, block, pos, locals, initValuesMap, iteratorsAliasMap,
                 aliasInfoMap, arraysInfoMap, combined, pointers, validBBs>>

AllLoops ==
  /\ pc = "loops" /\ loop > Len(prog.loops)
  /\ pc' = "blocks" /\ pos' = 0
  /\ UNCHANGED <<prog, loop, block, locals, initValuesMap, iteratorsAliasMap,
                 aliasInfoMap, arraysInfoMap, LIT, combined, pointers, validBBs>>

-----------------------------------------------------------------------------
(* parseFunction: the blocks after the first.                              *)
IsBody(b) == \E n \in DOMAIN prog.loops : b \in Range(prog.loops[n].body)
IsControl(b) == \E n \in DOMAIN prog.loops : b \in {prog.loops[n].header, prog.loops[n].latch}

BlockId == prog.blocks[block]
Code == prog.code[BlockId]
I == Code[pos]

(* A header or a latch that is no body is left out; any other block, in a  *)
(* loop or not, is parsed and handed to the next phases.                   *)
EnterBlock ==
  /\ pc = "blocks" /\ pos = 0 /\ block <= Len(prog.blocks)
  /\ IF IsControl(BlockId) /\ ~IsBody(BlockId)
     THEN block' = block + 1 /\ pos' = 0
     ELSE block' = block /\ pos' = 1
  /\ UNCHANGED <<prog, pc, loop, locals, initValuesMap, iteratorsAliasMap,
                 aliasInfoMap, arraysInfoMap, LIT, combined, pointers, validBBs>>

LeaveBlock ==
  /\ pc = "blocks" /\ block <= Len(prog.blocks) /\ pos > 0 /\ pos > Len(Code)
  /\ validBBs' = Append(validBBs, BlockId)
  /\ block' = block + 1 /\ pos' = 0
  /\ UNCHANGED <<prog, pc, loop, locals, initValuesMap, iteratorsAliasMap,
                 aliasInfoMap, arraysInfoMap, LIT, combined, pointers>>

AllBlocks ==
  /\ pc = "blocks" /\ block > Len(prog.blocks)
  /\ pc' = "done"
  /\ UNCHANGED <<prog, loop, block, pos, locals, initValuesMap, iteratorsAliasMap,
                 aliasInfoMap, arraysInfoMap, LIT, combined, pointers, validBBs>>

(* The next instruction of parseLoopBody is one of ops.                    *)
Reads(ops) ==
  /\ pc = "blocks" /\ block <= Len(prog.blocks) /\ pos \in DOMAIN Code /\ I.op \in ops
  /\ pos' = pos + 1
  /\ UNCHANGED <<prog, loop, block, locals, LIT, validBBs>>

Store ==
  /\ Reads({"store"})
  /\ initValuesMap' = IF I.src1 = NoPtr THEN Insert(initValuesMap, I.src2, I.const)
                      ELSE initValuesMap
  /\ UNCHANGED <<pc, iteratorsAliasMap, aliasInfoMap, arraysInfoMap, combined, pointers>>

LoadIterator ==
  /\ Reads({"load"}) /\ I.src1 \in DOMAIN iteratorsAliasMap
  /\ iteratorsAliasMap' = Assign(iteratorsAliasMap, I.src1, I.dst)
  /\ UNCHANGED <<pc, initValuesMap, aliasInfoMap, arraysInfoMap, combined, pointers>>

AddAlias(m, reg, alias) ==
  IF reg \in DOMAIN m THEN PushBack(m, reg, alias) ELSE m

Load ==
  /\ Reads({"load"}) /\ I.src1 \notin DOMAIN iteratorsAliasMap
  /\ aliasInfoMap' = AddAlias(aliasInfoMap, I.src1, I.dst)
  /\ UNCHANGED <<pc, initValuesMap, iteratorsAliasMap, arraysInfoMap, combined, pointers>>

(* The iterators whose last register is reg.                               *)
IteratorsIn(reg) == {v \in DOMAIN iteratorsAliasMap : iteratorsAliasMap[v] = reg}

(* An addition of two iterators, or of an iterator and a constant, may     *)
(* become an index.                                                        *)
Add ==
  /\ Reads({"add"})
  /\ LET first == IteratorsIn(I.src1)
         second == IteratorsIn(I.src2) \ first
         Entry(its, c) == Insert(combinedIteratorsMap, I.dst, IndexOp(its, c, "add"))
     IN combinedIteratorsMap' =
          IF first # {} /\ second # {}
          THEN Entry(<<CHOOSE v \in first : TRUE, CHOOSE v \in second : TRUE>>, 0)
          ELSE IF first # {} /\ I.src2 = NoPtr
          THEN Entry(<<CHOOSE v \in first : TRUE>>, I.const)
          ELSE combinedIteratorsMap
  /\ UNCHANGED <<pc, initValuesMap, iteratorsAliasMap, aliasInfoMap, arraysInfoMap,
                 combinedIterators, pointers>>

(* Seeded fault: the iterator keeps the register it was loaded into.       *)
SignExtendCombined ==
  /\ Reads({"sext"})
  /\ IF I.src1 \in DOMAIN combinedIteratorsMap
     THEN combinedIteratorsMap' =
            Insert(Erase(combinedIteratorsMap, I.src1), I.dst, combinedIteratorsMap[I.src1])
     ELSE UNCHANGED combinedIteratorsMap
  /\ UNCHANGED <<pc, initValuesMap, iteratorsAliasMap, aliasInfoMap, arraysInfoMap,
                 combinedIterators, pointers>>

(* The entry moves to the extended register, or the iterator does.         *)
SignExtend ==
  /\ Reads({"sext"})
  /\ IF I.src1 \in DOMAIN combinedIteratorsMap
     THEN /\ combinedIterators' = combinedIterators \cup {I.src1}
          /\ combinedIteratorsMap' =
               Insert(Erase(combinedIteratorsMap, I.src1), I.dst, combinedIteratorsMap[I.src1])
          /\ UNCHANGED iteratorsAliasMap
     ELSE /\ iteratorsAliasMap' = [v \in DOMAIN iteratorsAliasMap |->
                                     IF iteratorsAliasMap[v] = I.src1 THEN I.dst
                                     ELSE iteratorsAliasMap[v]]
          /\ UNCHANGED combined
  /\ UNCHANGED <<pc, initValuesMap, aliasInfoMap, arraysInfoMap, pointers>>

(* An instruction that parseLoopBody does not look at.                     *)
Other ==
  /\ Reads({"sub", "xor"})
  /\ UNCHANGED <<pc, initValuesMap, iteratorsAliasMap, aliasInfoMap, arraysInfoMap,
                 combined, pointers>>

-----------------------------------------------------------------------------
(* setPointerInfo.  Its tables are read with the iterator of the loop that *)
(* the block is a body of, and with those of the indexes.                  *)
getLoopIteratorFromLoopBody(b) ==
  {v \in DOMAIN loopInfoMap : b \in Range(loopInfoMap[v].body)}

getIterationVector(v) ==
  IF v \in DOMAIN nestedLoopMap THEN Reverse(nestedLoopMap[v]) \o <<v>> ELSE << >>

getAllocatedReg(map, reg) ==
  CHOOSE a \in DOMAIN map : reg = a \/ reg \in Range(map[a])

(* The matrix of the increments.                                           *)
IncrementMatrix(indexes, loops) ==
  [rows |-> Len(indexes), cols |-> Len(loops),
   vec  |-> FlattenSeq([r \in DOMAIN indexes |-> [c \in DOMAIN loops |->
              IF loops[c] \in Range(indexes[r].iterators) THEN loopInfoMap[loops[c]].inc ELSE 0]])]

(* Seeded fault: the distance of two sets and of two elements exchanged.   *)
AxisExchanged(l, offset, set, subset) ==
  [offset |-> offset, spacing |-> subset,
   stop |-> offset + l.inc * (l.iterations - 1), set |-> set, subset |-> l.inc]

(* An axis of the geometry: the first element of the first set, the first  *)
(* of the last set, the distance of two sets, and the size and the         *)
(* spacing of a set.                                                       *)
Axis(l, offset, set, subset) ==
  [offset |-> offset, spacing |-> l.inc,
   stop |-> offset + l.inc * (l.iterations - 1), set |-> set, subset |-> subset]

Single(l, c) == Axis(l, l.init + c, -1, -1)
Double(l, m, c) == Axis(l, l.init + m.init + c, Quotient(m.iterations, m.inc), m.inc)
Alone(offset, spacing, set) ==
  [offset |-> offset, spacing |-> spacing, stop |-> offset, set |-> set, subset |-> -1]

(* A loop whose bound is an iterator: the size of the outer loop and, with *)
(* the axes exchanged, the spacing inside the triangle.                    *)
Triangle(l, c, other) ==
  [Single(l, c) EXCEPT !.stop = loopInfoMap[other.variableFinal].iterations,
                       !.subset = l.inc]

Unmeasured == [measured |-> FALSE, X |-> Alone(0, 0, 0), Y |-> Alone(0, 0, 0)]
Measured(y, x) == [measured |-> TRUE, X |-> x, Y |-> y]

(* The third part of setPointerInfo.  [i + k][j] is only looked at when    *)
(* the operation of the second index is an addition, and then the offset   *)
(* of X comes from the iterator of the first.                              *)
Geometry(indexes) ==
  LET l(n, m) == loopInfoMap[indexes[n].iterators[m]]
      c(n) == indexes[n].constant
      size == [n \in DOMAIN indexes |-> Len(indexes[n].iterators)]
      bounded(i) == i.isInit /\ i.isFinal
  IN CASE size = <<1>> -> Measured(Alone(0, 1, -1), Single(l(1, 1), c(1)))
       [] size = <<2>> -> Measured(Alone(-1, -1, 1), Double(l(1, 1), l(1, 2), c(1)))
       [] size = <<1, 1>> ->
            IF bounded(l(1, 1)) /\ bounded(l(2, 1))
            THEN Measured(Single(l(1, 1), c(1)), Single(l(2, 1), c(2)))
            ELSE Measured(Triangle(l(1, 1), c(1), l(2, 1)), Triangle(l(2, 1), c(2), l(1, 1)))
       [] size = <<2, 2>> ->
            Measured(Double(l(1, 1), l(1, 2), c(1)), Double(l(2, 1), l(2, 2), c(2)))
       [] size = <<1, 2>> ->
            Measured([Single(l(1, 1), c(1)) EXCEPT !.set = 1], Double(l(2, 1), l(2, 2), c(2)))
       [] size = <<2, 1>> /\ indexes[2].operation = "add" ->
            Measured(Double(l(1, 1), l(1, 2), c(1)), Axis(l(2, 1), l(1, 1).init + c(2), 1, -1))
       [] OTHER -> Unmeasured

(* What the lookups of setPointerInfo find is in the tables: the loop, the *)
(* iterators of the indexes and, for a triangle, the two iterators that    *)
(* bound them.  Otherwise the code reads the end of a map.                 *)
Known(indexes) ==
  /\ getLoopIteratorFromLoopBody(BlockId) # {}
  /\ \A n \in DOMAIN indexes : Range(indexes[n].iterators) \subseteq DOMAIN loopInfoMap
  /\ LET ls == {loopInfoMap[indexes[n].iterators[1]] :
                  n \in {m \in DOMAIN indexes : Len(indexes[m].iterators) = 1}}
     IN (/\ Len(indexes) = 2
         /\ \A n \in DOMAIN indexes : Len(indexes[n].iterators) = 1
         /\ \E l \in ls : ~l.isInit \/ ~l.isFinal)
        => \A l \in ls : l.variableFinal \in DOMAIN loopInfoMap

SetPointerInfo(reg, struct, sizes) ==
  LET indexes == IF sizes[1] > 1 THEN <<struct.first, struct.second>> ELSE <<struct.first>>
  IN IF ~Known(indexes)
     THEN pc' = "undefined" /\ UNCHANGED pointerInfoMap
     ELSE LET v == CHOOSE w \in getLoopIteratorFromLoopBody(BlockId) : TRUE
              matrix == IncrementMatrix(indexes, getIterationVector(v))
              zeros == detectZeroCols(matrix)
              geometry == Geometry(indexes)
          IN /\ \E heap \in HeapContents(matrix) :
                  pointerInfoMap' = Insert(pointerInfoMap, reg,
                    [loopIterator |-> v, indexes |-> indexes,
                     arrayRows |-> sizes[1], arrayCols |-> sizes[2],
                     type |-> detectAccessPatternType(matrix, heap),
                     initZeros |-> zeros.initZeros, finalZeros |-> zeros.finalZeros,
                     measured |-> geometry.measured, X |-> geometry.X, Y |-> geometry.Y])
             /\ UNCHANGED pc

(* The index of a GEP.  None is found for any other value, and the index   *)
(* of the pointer before it stays in tmpPointerStruct.                     *)
FoundIndex ==
  IF I.src2 \in DOMAIN combinedIteratorsMap THEN {combinedIteratorsMap[I.src2]}
  ELSE IF I.src2 = NoPtr THEN {IndexOp(<< >>, I.const, "none")}
  ELSE {IndexOp(<<v>>, 0, "none") : v \in IteratorsIn(I.src2)}

(* Seeded fault: the index goes to the other place.                        *)
IndexedExchanged(vector, second) ==
  LET last == IF vector THEN [tmpPointerStruct EXCEPT !.second = IndexOp(<< >>, 0, "none")]
              ELSE tmpPointerStruct
      idx == CHOOSE x \in FoundIndex : TRUE
  IN IF FoundIndex = {} THEN last
     ELSE IF second THEN [last EXCEPT !.first = idx] ELSE [last EXCEPT !.second = idx]

Indexed(vector, second) ==
  LET last == IF vector THEN [tmpPointerStruct EXCEPT !.second = IndexOp(<< >>, 0, "none")]
              ELSE tmpPointerStruct
      idx == CHOOSE x \in FoundIndex : TRUE
  IN IF FoundIndex = {} THEN last
     ELSE IF second THEN [last EXCEPT !.second = idx] ELSE [last EXCEPT !.first = idx]

(* GetElementPtr on an array.  The first one on a matrix becomes an array  *)
(* without dimensions, so that the one on its result is the second index.  *)
Pointer ==
  /\ Reads({"ptr"}) /\ I.src1 \in DOMAIN arraysInfoMap
  /\ LET sizes == arraysInfoMap[I.src1]
         second == sizes = << >>
         vector == ~second /\ sizes[1] = 1
         struct == Indexed(vector, second)
         valid == ptrValid \/ (second /\ FoundIndex # {})
         array == getAllocatedReg(aliasInfoMap, I.src1)
     IN /\ tmpPointerStruct' = struct
        /\ IF vector
           THEN /\ aliasInfoMap' = AddAlias(aliasInfoMap, I.src1, I.dst)
                /\ SetPointerInfo(I.dst, struct, sizes)
                /\ UNCHANGED <<arraysInfoMap, ptrValid>>
           ELSE IF valid
           THEN /\ aliasInfoMap' = AddAlias(aliasInfoMap, array, I.dst)
                /\ SetPointerInfo(I.dst, struct, arraysInfoMap[array])
                /\ ptrValid' = FALSE
                /\ UNCHANGED arraysInfoMap
           ELSE /\ aliasInfoMap' = AddAlias(aliasInfoMap, I.src1, I.dst)
                /\ arraysInfoMap' = Insert(arraysInfoMap, I.dst, << >>)
                /\ UNCHANGED <<pc, ptrValid, pointerInfoMap>>
  /\ UNCHANGED <<initValuesMap, iteratorsAliasMap, combined>>

OtherPointer ==
  /\ Reads({"ptr"}) /\ I.src1 \notin DOMAIN arraysInfoMap
  /\ UNCHANGED <<pc, initValuesMap, iteratorsAliasMap, aliasInfoMap, arraysInfoMap,
                 combined, pointers>>

Finished == pc \in {"done", "undefined"} /\ UNCHANGED vars

Next ==
  \/ ParseAllocas \/ ParseLoopPreheader \/ HeaderLoad \/ HeaderCompare \/ AllLoops
  \/ EnterBlock \/ LeaveBlock \/ AllBlocks
  \/ Store \/ LoadIterator \/ Load \/ Add \/ SignExtend \/ Other
  \/ Pointer \/ OtherPointer
  \/ Finished

Spec == Init /\ [][Next]_vars

-----------------------------------------------------------------------------
(* What the program says, for the properties: no action reads prog.access. *)
(* An access has the array it is made to, its indexes, and how each index  *)
(* is written.                                                             *)
Loops == DOMAIN prog.loops
IteratorOf(n) == prog.loops[n].it

Handled(p) == HandledIn(prog, p)

Stored(v) == {J \in UNION {Range(prog.code[b]) : b \in DOMAIN prog.code} :
                J.op = "store" /\ J.src2 = v}

(* A loop for(v = c; v < d; v += e) with constants: v is the iterator of   *)
(* no other loop and gets no other constant.                               *)
PlainLoop(n) ==
  /\ \A m \in Loops \ {n} : IteratorOf(m) # IteratorOf(n)
  /\ Stored(IteratorOf(n)) \cap Range(prog.code[prog.loops[n].preheader]) # {}
  /\ \A J \in Stored(IteratorOf(n)) : J.src1 = NoPtr /\ J.const = prog.loops[n].init
  /\ prog.loops[n].final = NoPtr
  /\ prog.loops[n].pred \in {"slt", "sle", "sgt", "sge"}

PlainNest(n) == \A m \in Range(<<n>> \o Parents(n)) : PlainLoop(m)

(* Every loop is the first to read its iterator in a header.  Otherwise    *)
(* the header finds no iterator of its own and keeps the pointer of the    *)
(* loop before, whose entry then gets the loops around this one.           *)
OwnIterators ==
  \A n \in Loops : \A m \in 1..(n - 1) : \A J \in Range(prog.loops[m].loads) :
    J.src1 # IteratorOf(n)

Continues(n, v) ==
  CASE prog.loops[n].pred \in {"slt", "ult"} -> v < prog.loops[n].const
    [] prog.loops[n].pred = "sle" -> v <= prog.loops[n].const
    [] prog.loops[n].pred = "sgt" -> v > prog.loops[n].const
    [] prog.loops[n].pred = "sge" -> v >= prog.loops[n].const

IteratorValue(n, t) == prog.loops[n].init + t * prog.loops[n].inc

(* How often the body runs; a loop that runs at all ends within MaxTrips.  *)
TripCount(n) ==
  Cardinality({t \in 0..MaxTrips : \A u \in 0..t : Continues(n, IteratorValue(n, u))})

Runs(n) == TripCount(n) \in 1..MaxTrips

(* The places of the parser, and tables over what the program has.         *)
TypeOK ==
  /\ pc \in {"alloca", "loops", "header", "blocks", "done", "undefined"}
  /\ loop \in 1..(Len(prog.loops) + 1) /\ block \in 1..(Len(prog.blocks) + 1) /\ pos \in Nat
  /\ DOMAIN initValuesMap \subseteq Nat /\ DOMAIN aliasInfoMap \subseteq Nat
  /\ DOMAIN loopInfoMap = DOMAIN nestedLoopMap
  /\ Range(loopIteratorMap) = DOMAIN loopInfoMap
  /\ DOMAIN pointerInfoMap \subseteq DOMAIN prog.access
  /\ \A p \in DOMAIN pointerInfoMap : pointerInfoMap[p].type \in PatternTypes
  /\ Range(validBBs) \subseteq Range(prog.blocks)

(* The tables only grow, so that what they say is judged at the end.       *)
Parsed == pc \in {"done", "undefined"}

(* parseLoopBody, setPointerInfo: an access written in one of the forms it *)
(* has a case for is recorded with the iterators and the constants of its  *)
(* own indexes, for its own array and under its own loop, whatever was     *)
(* accessed before it.                                                     *)
IndexesRecorded ==
  Parsed => \A p \in DOMAIN pointerInfoMap :
    LET a == prog.access[p]
        own == getAllocatedReg(aliasInfoMap, p)
    IN (Handled(p) /\ (\A n \in Loops : PlainLoop(n))) =>
         /\ own = a.array
         /\ pointerInfoMap[p].loopIterator = IteratorOf(a.loop)
         /\ Len(pointerInfoMap[p].indexes) = Len(a.indexes)
         /\ \A n \in DOMAIN a.indexes :
              LET r == pointerInfoMap[p].indexes[n]
              IN Index(r.iterators, r.constant) = a.indexes[n]

(* collectLoopInfo: where every loop has an iterator of its own, one with  *)
(* constant bounds that runs is recorded under its iterator with its own   *)
(* bounds and the number of its iterations, and its iteration vector names *)
(* the loops around it from the outermost.                                 *)
LoopsRecorded ==
  (Parsed /\ OwnIterators) => \A n \in DOMAIN loopIteratorMap :
    (PlainNest(n) /\ Runs(n)) =>
      LET info == loopInfoMap[IteratorOf(n)]
      IN /\ loopIteratorMap[n] = IteratorOf(n)
         /\ info.init = prog.loops[n].init /\ info.inc = prog.loops[n].inc
         /\ info.isInit /\ info.isFinal
         /\ info.iterations = TripCount(n)
         /\ getIterationVector(IteratorOf(n)) =
              [m \in 1..(Len(Parents(n)) + 1) |-> IteratorOf(Reverse(<<n>> \o Parents(n))[m])]

-----------------------------------------------------------------------------
(* Seeded fault: additions of iterators are taken for additions of data.   *)
isValidInstOfIterators(J) ==
  CASE J.op = "store" -> J.src2 \notin DOMAIN iteratorsAliasMap
    [] J.op = "load" -> J.src1 \notin DOMAIN iteratorsAliasMap
    [] J.op \in {"sext", "ptr"} -> FALSE
    [] OTHER -> TRUE

(* Seeded fault: every addition of a constant is taken for an index.       *)
isValidInstOfTwo(J) ==
  CASE J.op = "store" -> J.src2 \notin DOMAIN iteratorsAliasMap
    [] J.op = "load" -> J.src1 \notin DOMAIN iteratorsAliasMap
    [] J.op \in {"sext", "ptr"} -> FALSE
    [] J.op \in {"add", "sub"} -> J.src2 # NoPtr
    [] OTHER -> TRUE

(* isValidInst: what the dependency detector gets of the valid blocks.     *)
isValidInst(J) ==
  CASE J.op = "store" -> J.src2 \notin DOMAIN iteratorsAliasMap
    [] J.op = "load" -> J.src1 \notin DOMAIN iteratorsAliasMap
    [] J.op \in {"sext", "ptr"} -> FALSE
    [] J.op \in {"add", "sub"} -> J.dst \notin combinedIterators
    [] OTHER -> TRUE

Emitted == UNION {Range(prog.code[b]) : b \in Range(validBBs)}
Survivors == {J \in Emitted : isValidInst(J)}

(* A sum that becomes an index: its register is extended in the block.     *)
IndexesOf(p, c, a) ==
  {Index(<<v>>, c[a].const) : v \in IteratorsOf(p)}
    \cup {Index(<<v, w>>, 0) : v, w \in IteratorsOf(p)}
ExtendedSum(p, b, a, e) ==
  LET c == p.code[b]
  IN /\ a < e /\ c[e].op = "sext" /\ c[e].src1 = c[a].dst
     /\ \E x \in IndexesOf(p, c, a) : AddsUp(p, c, a, x)
IsIndexSum(J) ==
  \E b \in DOMAIN prog.code : \E a, e \in DOMAIN prog.code[b] :
    J = prog.code[b][a] /\ ExtendedSum(prog, b, a, e)

(* The registers of the indexes are read by the indexes alone, an element  *)
(* is that of an access, and the first block, which is searched for        *)
(* allocas and nothing else, has none.  An iterator that is read as data   *)
(* is the case to the contrary.                                            *)
IndexesApart ==
  LET first == prog.code[prog.blocks[1]]
  IN /\ \A m \in DOMAIN first : first[m].op \notin {"sext", "ptr"}
     /\ \A J, K \in InstructionsOf(prog) :
          K.dst \in {J.src1, J.src2} \ {NoPtr} =>
            /\ (K.op = "load" /\ K.src1 \in IteratorsOf(prog)) => J.op = "sext" \/ IsIndexSum(J)
            /\ K.op = "sext" => J.op = "ptr"
            /\ (K.op \in {"add", "sub"} /\ \E M \in InstructionsOf(prog) :
                                            M.op = "sext" /\ M.src1 = K.dst) => J.op = "sext"
            /\ K.op = "ptr" => J.op = "ptr" \/ K.dst \in DOMAIN prog.access

(* The blocks and instructions handed to the dependency detector are       *)
(* closed: an instruction that stays reads no register whose instruction   *)
(* was taken out, unless it is a pointer the tables describe.  Loads of    *)
(* iterators go by the iterator tables, additions by combinedIterators,    *)
(* two decisions of different phases.                                      *)
SurvivorsClosed ==
  (pc = "done" /\ (\A p \in DOMAIN prog.access : Handled(p))
     /\ (\A n \in Loops : PlainLoop(n)) /\ IndexesApart) =>
    \A J \in Survivors : \A r \in {J.src1, J.src2} \cap {K.dst : K \in Emitted} :
      r # NoPtr => r \in DOMAIN pointerInfoMap \cup {K.dst : K \in Survivors}
=============================================================================
