------------------------- MODULE CollectInfoProofs -------------------------
(***************************************************************************)
(* Proofs about CollectInfo, and about the geometry that ArrayAccess reads *)
(* in its tables and the lists of addresses it makes of them, for every    *)
(* function that fits the assumption on Programs: any number of loops,     *)
(* blocks, arrays and accesses.                                            *)
(***************************************************************************)
EXTENDS ArrayAccess, TLAPS, FiniteSetTheorems, NaturalFacts

LOCAL INSTANCE SequencesExt

(* The pointer instructions of the function.                               *)
Pointers ==
  {J \in UNION {{prog.code[b][n] : n \in DOMAIN prog.code[b]} : b \in DOMAIN prog.code} :
     J.op = "ptr"}
IsVector(a) == a \in DOMAIN prog.dims /\ Len(prog.dims[a]) = 1

(* The places of the parser.                                               *)
PlaceOK ==
  /\ pc \in {"alloca", "loops", "header", "blocks", "done", "undefined"}
  /\ loop \in 1..(Len(prog.loops) + 1) /\ block \in 1..(Len(prog.blocks) + 1) /\ pos \in Nat
  /\ pc = "header" => loop <= Len(prog.loops)

MapsOK ==
  /\ DOMAIN initValuesMap \subseteq Nat /\ DOMAIN aliasInfoMap \subseteq Nat
  /\ validBBs \in Seq({prog.blocks[n] : n \in DOMAIN prog.blocks})

LoopTablesOK ==
  /\ DOMAIN loopInfoMap = DOMAIN nestedLoopMap
  /\ loopIteratorMap \in Seq(DOMAIN loopInfoMap)
  /\ \A v \in DOMAIN loopInfoMap : \E n \in DOMAIN loopIteratorMap : loopIteratorMap[n] = v

(* An array without dimensions is the result of a pointer.                 *)
ArraysOK ==
  /\ \A a \in DOMAIN arraysInfoMap :
       \/ a \in DOMAIN prog.dims /\ arraysInfoMap[a] = Dimensions(prog.dims[a])
       \/ a \in {J.dst : J \in Pointers} /\ arraysInfoMap[a] = << >>
  /\ ptrValid = FALSE

PointersOK ==
  /\ DOMAIN pointerInfoMap \subseteq DOMAIN prog.access
  /\ \A p \in DOMAIN pointerInfoMap : pointerInfoMap[p].type \in PatternTypes

(* TypeOK, and what keeps it: a pointer is recorded when its array is a    *)
(* vector, or a row that another pointer stands for.                       *)
TypeInv == prog \in Programs /\ PlaceOK /\ MapsOK /\ LoopTablesOK /\ ArraysOK /\ PointersOK

-----------------------------------------------------------------------------
(* What the assumption says of the function that is parsed.                *)
LEMMA Program ==
  ASSUME prog \in Programs
  PROVE  /\ prog.blocks \in Seq(DOMAIN prog.code) /\ Len(prog.blocks) \in Nat \ {0}
         /\ Len(prog.loops) \in Nat /\ DOMAIN prog.loops = 1..Len(prog.loops)
         /\ \A n \in DOMAIN prog.loops : prog.loops[n].preheader \in DOMAIN prog.code
         /\ DOMAIN prog.blocks = 1..Len(prog.blocks)
         /\ \A b \in DOMAIN prog.code :
              /\ DOMAIN prog.code[b] = 1..Len(prog.code[b])
              /\ \A n \in DOMAIN prog.code[b] : prog.code[b][n] \in Instructions
         /\ DOMAIN prog.dims \subseteq Nat /\ prog.scalars \subseteq Nat
         /\ \A a \in DOMAIN prog.dims : ~IsVector(a) => prog.dims[a][2] # 1
         /\ \A J \in Pointers :
              IsVector(J.src1) \/ J.src1 \in {K.dst : K \in Pointers}
                => J.dst \in DOMAIN prog.access
<1>1. /\ prog.blocks \in Seq(DOMAIN prog.code) /\ prog.blocks # << >>
      /\ prog.loops \in Seq({prog.loops[n] : n \in DOMAIN prog.loops})
      /\ \A n \in DOMAIN prog.loops : prog.loops[n].preheader \in DOMAIN prog.code
      /\ \A b \in DOMAIN prog.code : prog.code[b] \in Seq(Instructions)
      /\ DOMAIN prog.dims \cup prog.scalars \subseteq Nat
      /\ \A a \in DOMAIN prog.dims : Len(prog.dims[a]) # 1 => prog.dims[a][2] # 1
  BY ProgramsAssumption
<1>2. \A J \in Pointers : IsVector(J.src1) \/ J.src1 \in {K.dst : K \in Pointers}
                            => J.dst \in DOMAIN prog.access
  BY ProgramsAssumption DEF Pointers, IsVector
<1>3. Len(prog.blocks) \in Nat \ {0} /\ DOMAIN prog.blocks = 1..Len(prog.blocks)
  BY <1>1
<1>4. Len(prog.loops) \in Nat /\ DOMAIN prog.loops = 1..Len(prog.loops)
  BY <1>1
<1>5. \A b \in DOMAIN prog.code : /\ DOMAIN prog.code[b] = 1..Len(prog.code[b])
                                  /\ \A n \in DOMAIN prog.code[b] : prog.code[b][n] \in Instructions
  BY <1>1
<1> QED BY <1>1, <1>2, <1>3, <1>4, <1>5 DEF IsVector

(* An access has one of the patterns of the class, whatever was read       *)
(* outside the matrix (AccessPattern.cpp:154-296).                         *)
LEMMA PatternType ==
  ASSUME NEW matrix, NEW heap
  PROVE  detectAccessPatternType(matrix, heap) \in PatternTypes
<1> DEFINE ap == pruneIncrementVector(matrix, heap)
           Tried == {t \in (0..(ap.rows * ap.cols - 1)) \X DOMAIN Shapes :
                       Fits(ap, heap, Shapes[t[2]], t[1])}
           Before(t, u) == t[1] < u[1] \/ (t[1] = u[1] /\ t[2] <= u[2])
           First == CHOOSE t \in Tried : \A u \in Tried : Before(t, u)
<1>1. DOMAIN Shapes = 1..8 /\ "rowMajor" \in PatternTypes /\ "undefined" \in PatternTypes
  <2>1. DOMAIN Shapes = 1..8 /\ Shapes[7].type = "rowMajor"
    BY DEF Shapes
  <2> QED BY <2>1 DEF PatternTypes
<1>2. ASSUME Tried # {}
      PROVE  First \in Tried
  <2>1. Tried \subseteq Nat \X Nat
    BY <1>1
  <2> DEFINE N == {t[1] : t \in Tried}
  <2>2. N \subseteq Nat /\ N # {}
    BY <1>2, <2>1
  <2>3. PICK n \in N : \A k \in N : n <= k
    <3> HIDE DEF N
    <3> QED BY <2>2, LeastNumber
  <2> DEFINE S == {t[2] : t \in {u \in Tried : u[1] = n}}
  <2>4. S \subseteq Nat /\ S # {}
    BY <2>1
  <2>5. PICK s \in S : \A k \in S : s <= k
    <3> HIDE DEF S
    <3> QED BY <2>4, LeastNumber
  <2>6. PICK t \in Tried : t[1] = n /\ t[2] = s
    OBVIOUS
  <2>7. ASSUME NEW u \in Tried
        PROVE  Before(t, u)
    <3>1. u[1] \in N /\ n <= u[1] /\ n \in Nat /\ u[1] \in Nat
      BY <2>1, <2>3
    <3>2. u[1] = n => s <= u[2]
      BY <2>5
    <3>3. n < u[1] \/ u[1] = n
      BY <3>1
    <3> QED BY <2>6, <3>2, <3>3
  <2> HIDE DEF Tried, Before
  <2> QED BY <2>7
<1>3. ASSUME Tried # {}
      PROVE  Shapes[First[2]].type \in PatternTypes
  <2>1. First[2] \in DOMAIN Shapes
    <3> HIDE DEF First
    <3> QED BY <1>2, <1>3
  <2> QED BY <2>1 DEF PatternTypes
<1> HIDE DEF First, Tried
<1>4. detectAccessPatternType(matrix, heap) =
        IF ap.rows = 1
        THEN IF \E i \in 0..(ap.cols - 1) : Element(ap, heap, 0, i) # 0
             THEN "rowMajor" ELSE "undefined"
        ELSE IF Tried = {} THEN "undefined" ELSE Shapes[First[2]].type
  BY DEF detectAccessPatternType, First, Tried
<1> QED BY <1>1, <1>3, <1>4

(* A loop is entered in the tables.                                        *)
LEMMA InsertDomain ==
  ASSUME NEW m, NEW k, NEW v
  PROVE  /\ DOMAIN Insert(m, k, v) = DOMAIN m \cup {k}
         /\ \A x \in DOMAIN m : Insert(m, k, v)[x] = m[x]
         /\ k \notin DOMAIN m => Insert(m, k, v)[k] = v
BY DEF Insert

LEMMA AddAliasDomain ==
  ASSUME NEW m, NEW reg, NEW alias
  PROVE  DOMAIN AddAlias(m, reg, alias) = DOMAIN m
BY DEF AddAlias, PushBack

-----------------------------------------------------------------------------
LEMMA InitType == Init => TypeInv
<1> SUFFICES ASSUME Init
             PROVE  TypeInv
  OBVIOUS
<1>1. PlaceOK
  BY Program DEF Init, PlaceOK
<1>2. MapsOK /\ LoopTablesOK /\ ArraysOK /\ PointersOK
  BY DEF Init, MapsOK, LoopTablesOK, ArraysOK, PointersOK, EmptyMap
<1> QED BY <1>1, <1>2 DEF Init, TypeInv

(* The parts that depend on tables a step leaves alone.                    *)
LEMMA PartsKept ==
  ASSUME TypeInv, prog' = prog
  PROVE  /\ prog' \in Programs
         /\ UNCHANGED <<initValuesMap, aliasInfoMap, validBBs>> => MapsOK'
         /\ UNCHANGED LIT => LoopTablesOK'
         /\ UNCHANGED <<arraysInfoMap, ptrValid>> => ArraysOK'
         /\ UNCHANGED pointerInfoMap => PointersOK'
<1>1. Pointers' = Pointers
  BY DEF Pointers
<1> QED BY <1>1 DEF TypeInv, MapsOK, LoopTablesOK, LIT, ArraysOK, PointersOK

LEMMA ParseAllocasType ==
  ASSUME TypeInv, ParseAllocas
  PROVE  TypeInv'
<1>1. prog' = prog /\ UNCHANGED <<initValuesMap, LIT, ptrValid, pointerInfoMap>>
  BY DEF ParseAllocas, pointers
<1>2. PlaceOK'
  BY Program DEF TypeInv, PlaceOK, ParseAllocas
<1>3. MapsOK'
  <2>1. prog.blocks[1] \in {prog.blocks[n] : n \in DOMAIN prog.blocks}
    BY Program DEF TypeInv
  <2>2. validBBs' \in Seq({prog.blocks[n] : n \in DOMAIN prog.blocks})
    BY <2>1 DEF ParseAllocas
  <2>3. DOMAIN aliasInfoMap' \subseteq Nat
    BY Program DEF ParseAllocas, TypeInv
  <2> QED BY <1>1, <2>2, <2>3 DEF TypeInv, MapsOK
<1>4. ArraysOK'
  BY <1>1 DEF ParseAllocas, TypeInv, ArraysOK
<1> QED BY <1>1, <1>2, <1>3, <1>4, PartsKept DEF TypeInv

(* Only places in the code are written as constants.                       *)
LEMMA ParseLoopPreheaderType ==
  ASSUME TypeInv, ParseLoopPreheader
  PROVE  TypeInv'
<1>1. prog' = prog /\ UNCHANGED <<aliasInfoMap, validBBs, LIT, arraysInfoMap, ptrValid, pointerInfoMap>>
  BY DEF ParseLoopPreheader, pointers
<1>2. PlaceOK'
  BY DEF TypeInv, PlaceOK, ParseLoopPreheader
<1>3. DOMAIN initValuesMap' \subseteq Nat
  <2> DEFINE code == prog.code[L.preheader]
             stores == {n \in DOMAIN code : code[n].op = "store" /\ code[n].src1 = NoPtr}
  <2>1. initValuesMap' = StoredConstants(initValuesMap, code)
    BY DEF ParseLoopPreheader
  <2>2. DOMAIN StoredConstants(initValuesMap, code) = DOMAIN initValuesMap \cup {code[n].src2 : n \in stores}
    BY DEF StoredConstants
  <2>3. L.preheader \in DOMAIN prog.code
    BY Program DEF ParseLoopPreheader, TypeInv, PlaceOK, L
  <2>4. \A n \in DOMAIN code : code[n].src2 \in Nat
    BY <2>3, Program DEF TypeInv, Instructions
  <2> QED BY <2>1, <2>2, <2>4 DEF TypeInv, MapsOK
<1>4. MapsOK'
  BY <1>1, <1>3 DEF TypeInv, MapsOK
<1> QED BY <1>1, <1>2, <1>4, PartsKept DEF TypeInv

LEMMA HeaderLoadType ==
  ASSUME TypeInv, HeaderLoad
  PROVE  TypeInv'
<1>1. /\ prog' = prog
      /\ UNCHANGED <<initValuesMap, validBBs, LIT, arraysInfoMap, ptrValid, pointerInfoMap>>
  BY DEF HeaderLoad, pointers
<1>2. PlaceOK'
  BY DEF TypeInv, PlaceOK, HeaderLoad
<1>3. DOMAIN aliasInfoMap' \subseteq DOMAIN aliasInfoMap
  BY DEF HeaderLoad, Erase
<1>4. MapsOK'
  BY <1>1, <1>3 DEF TypeInv, MapsOK
<1> QED BY <1>1, <1>2, <1>4, PartsKept DEF TypeInv

(* An iterator is appended to the list whether or not it was there.        *)
LEMMA HeaderCompareType ==
  ASSUME TypeInv, HeaderCompare
  PROVE  TypeInv'
<1>1. /\ prog' = prog
      /\ UNCHANGED <<initValuesMap, aliasInfoMap, validBBs, arraysInfoMap, ptrValid, pointerInfoMap>>
  BY DEF HeaderCompare, pointers
<1>2. PlaceOK'
  BY Program DEF TypeInv, PlaceOK, HeaderCompare
<1>3. LoopTablesOK'
  <2> DEFINE s == loopIteratorMap
             D == DOMAIN loopInfoMap
  <2>1. DOMAIN loopInfoMap' = D \cup {it}
    BY InsertDomain DEF HeaderCompare
  <2>2. DOMAIN nestedLoopMap' = DOMAIN nestedLoopMap \cup {it}
    BY InsertDomain DEF HeaderCompare, Assign
  <2>3. loopIteratorMap' = Append(s, it) /\ s \in Seq(D) /\ DOMAIN nestedLoopMap = D
    BY DEF HeaderCompare, TypeInv, LoopTablesOK
  <2>4. /\ Append(s, it) \in Seq(D \cup {it})
        /\ DOMAIN Append(s, it) = 1..(Len(s) + 1) /\ DOMAIN s = 1..Len(s)
        /\ Append(s, it)[Len(s) + 1] = it
        /\ \A n \in 1..Len(s) : Append(s, it)[n] = s[n]
    <3> HIDE DEF D
    <3> QED BY <2>3
  <2>5. ASSUME NEW v \in D \cup {it}
        PROVE  \E n \in DOMAIN Append(s, it) : Append(s, it)[n] = v
    <3>1. CASE v = it
      <4>1. Len(s) \in Nat
        BY <2>3
      <4>2. Len(s) + 1 \in 1..(Len(s) + 1)
        BY <4>1
      <4> QED BY <2>4, <3>1, <4>2
    <3>2. CASE v \in D
      <4>1. PICK n \in DOMAIN s : s[n] = v
        BY <3>2 DEF TypeInv, LoopTablesOK
      <4>2. n \in 1..(Len(s) + 1)
        BY <2>3, <2>4, <4>1
      <4> QED BY <2>4, <4>1, <4>2
    <3> QED BY <3>1, <3>2
  <2> QED BY <2>1, <2>2, <2>3, <2>4, <2>5 DEF LoopTablesOK
<1> QED BY <1>1, <1>2, <1>3, PartsKept DEF TypeInv

(* The steps between the instructions.                                     *)
LEMMA BlocksType ==
  ASSUME TypeInv, AllLoops \/ EnterBlock \/ LeaveBlock \/ AllBlocks
  PROVE  TypeInv'
<1>1. /\ prog' = prog
      /\ UNCHANGED <<initValuesMap, aliasInfoMap, LIT, arraysInfoMap, ptrValid, pointerInfoMap>>
  BY DEF AllLoops, EnterBlock, LeaveBlock, AllBlocks, pointers
<1>2. PlaceOK'
  BY Program DEF TypeInv, PlaceOK, AllLoops, EnterBlock, LeaveBlock, AllBlocks
<1>3. MapsOK'
  <2> DEFINE B == {prog.blocks[n] : n \in DOMAIN prog.blocks}
  <2>1. validBBs' = validBBs \/ (LeaveBlock /\ validBBs' = Append(validBBs, BlockId))
    BY DEF AllLoops, EnterBlock, LeaveBlock, AllBlocks
  <2>2. LeaveBlock => BlockId \in B
    BY Program DEF LeaveBlock, BlockId, TypeInv, PlaceOK
  <2>3. validBBs \in Seq(B)
    BY DEF TypeInv, MapsOK
  <2>4. validBBs' \in Seq(B)
    <3> HIDE DEF B
    <3> QED BY <2>1, <2>2, <2>3
  <2> QED BY <1>1, <2>4 DEF TypeInv, MapsOK
<1> QED BY <1>1, <1>2, <1>3, PartsKept DEF TypeInv

(* The instruction that is read.                                           *)
LEMMA ReadsInstruction ==
  ASSUME TypeInv, NEW ops, Reads(ops)
  PROVE  /\ I \in Instructions /\ I.op \in ops
         /\ I.op = "ptr" => I \in Pointers
         /\ prog' = prog /\ UNCHANGED LIT /\ UNCHANGED validBBs
         /\ pc' \in {"blocks", "undefined"} => PlaceOK'
<1>1. /\ pc = "blocks" /\ block <= Len(prog.blocks) /\ pos \in DOMAIN Code /\ I.op \in ops
      /\ pos' = pos + 1 /\ UNCHANGED <<prog, loop, block, locals, LIT, validBBs>>
  BY DEF Reads
<1>2. BlockId \in DOMAIN prog.code
  BY <1>1, Program DEF BlockId, TypeInv, PlaceOK
<1>3. I \in Instructions
  BY <1>1, <1>2, Program DEF I, Code, TypeInv
<1>4. I \in UNION {{prog.code[b][n] : n \in DOMAIN prog.code[b]} : b \in DOMAIN prog.code}
  BY <1>1, <1>2 DEF I, Code
<1>5. pc' \in {"blocks", "undefined"} => PlaceOK'
  BY <1>1 DEF TypeInv, PlaceOK
<1> QED BY <1>1, <1>3, <1>4, <1>5 DEF Pointers

(* The instructions that are no pointers.                                  *)
LEMMA InstructionType ==
  ASSUME TypeInv, Store \/ LoadIterator \/ Load \/ Add \/ SignExtend \/ Other \/ OtherPointer
  PROVE  TypeInv'
<1>1. PICK ops : Reads(ops)
  BY DEF Store, LoadIterator, Load, Add, SignExtend, Other, OtherPointer
<1>2. /\ UNCHANGED <<pc, arraysInfoMap, ptrValid, pointerInfoMap>>
  BY DEF Store, LoadIterator, Load, Add, SignExtend, Other, OtherPointer, pointers
<1>3. pc = "blocks"
  BY <1>1 DEF Reads
<1>4. I \in Instructions /\ prog' = prog /\ UNCHANGED LIT /\ UNCHANGED validBBs /\ PlaceOK'
  BY <1>1, <1>2, <1>3, ReadsInstruction
<1>5. DOMAIN initValuesMap' \subseteq DOMAIN initValuesMap \cup {I.src2}
  <2>1. \/ initValuesMap' = Insert(initValuesMap, I.src2, I.const)
        \/ initValuesMap' = initValuesMap
    BY DEF Store, LoadIterator, Load, Add, SignExtend, Other, OtherPointer
  <2>2. DOMAIN Insert(initValuesMap, I.src2, I.const) = DOMAIN initValuesMap \cup {I.src2}
    BY InsertDomain
  <2> QED BY <2>1, <2>2
<1>6. DOMAIN aliasInfoMap' = DOMAIN aliasInfoMap
  BY AddAliasDomain DEF Store, LoadIterator, Load, Add, SignExtend, Other, OtherPointer
<1>7. MapsOK'
  BY <1>4, <1>5, <1>6 DEF TypeInv, MapsOK, Instructions
<1> QED BY <1>2, <1>4, <1>7, PartsKept DEF TypeInv

(* What is recorded of a pointer has one of the patterns.                  *)
LEMMA SetPointerInfoType ==
  ASSUME PointersOK, NEW reg, reg \in DOMAIN prog.access, NEW struct, NEW sizes,
         SetPointerInfo(reg, struct, sizes), prog' = prog, pc = "blocks"
  PROVE  PointersOK' /\ pc' \in {"blocks", "undefined"}
<1>1. CASE UNCHANGED pointerInfoMap /\ pc' = "undefined"
  BY <1>1 DEF PointersOK
<1>2. ASSUME NEW info, info.type \in PatternTypes,
             pointerInfoMap' = Insert(pointerInfoMap, reg, info), pc' = pc
      PROVE  PointersOK' /\ pc' \in {"blocks", "undefined"}
  <2>1. DOMAIN pointerInfoMap' = DOMAIN pointerInfoMap \cup {reg}
    BY <1>2, InsertDomain
  <2>2. ASSUME NEW p \in DOMAIN pointerInfoMap'
        PROVE  pointerInfoMap'[p].type \in PatternTypes
    <3>1. CASE p \in DOMAIN pointerInfoMap
      <4>1. pointerInfoMap'[p] = pointerInfoMap[p]
        BY <1>2, <3>1 DEF Insert
      <4> QED BY <3>1, <4>1 DEF PointersOK
    <3>2. CASE p \notin DOMAIN pointerInfoMap
      <4>1. p = reg
        BY <2>1, <2>2, <3>2
      <4>2. pointerInfoMap'[p] = info
        BY <1>2, <3>2, <4>1 DEF Insert
      <4> QED BY <1>2, <4>2
    <3> QED BY <3>1, <3>2
  <2> QED BY <1>2, <2>1, <2>2 DEF PointersOK
<1>3. \/ UNCHANGED pointerInfoMap /\ pc' = "undefined"
      \/ \E info : /\ info.type \in PatternTypes
                   /\ pointerInfoMap' = Insert(pointerInfoMap, reg, info) /\ pc' = pc
  <2> DEFINE indexes == IF sizes[1] > 1 THEN <<struct.first, struct.second>> ELSE <<struct.first>>
             v == CHOOSE w \in getLoopIteratorFromLoopBody(BlockId) : TRUE
             matrix == IncrementMatrix(indexes, getIterationVector(v))
             zeros == detectZeroCols(matrix)
             geometry == Geometry(indexes)
             Info(heap) ==
               [loopIterator |-> v, indexes |-> indexes,
                arrayRows |-> sizes[1], arrayCols |-> sizes[2],
                type |-> detectAccessPatternType(matrix, heap),
                initZeros |-> zeros.initZeros, finalZeros |-> zeros.finalZeros,
                measured |-> geometry.measured, X |-> geometry.X, Y |-> geometry.Y]
  <2>1. CASE ~Known(indexes)
    BY <2>1 DEF SetPointerInfo
  <2>2. CASE Known(indexes)
    <3>1. (\E heap \in HeapContents(matrix) :
             pointerInfoMap' = Insert(pointerInfoMap, reg, Info(heap))) /\ pc' = pc
      BY <2>2 DEF SetPointerInfo
    <3>2. PICK heap : pointerInfoMap' = Insert(pointerInfoMap, reg, Info(heap))
      BY <3>1
    <3>3. Info(heap).type \in PatternTypes
      BY PatternType
    <3> QED BY <3>1, <3>2, <3>3
  <2> QED BY <2>1, <2>2
<1> QED BY <1>1, <1>2, <1>3

(* A pointer is recorded if it is one of a vector, or of a row.            *)
LEMMA PointerType ==
  ASSUME TypeInv, Pointer
  PROVE  TypeInv'
<1> DEFINE sizes == arraysInfoMap[I.src1]
           second == sizes = << >>
           vector == ~second /\ sizes[1] = 1
           struct == Indexed(vector, second)
           array == getAllocatedReg(aliasInfoMap, I.src1)
<1>1. Reads({"ptr"}) /\ I.src1 \in DOMAIN arraysInfoMap /\ UNCHANGED initValuesMap
  BY DEF Pointer
<1>2. /\ I \in Pointers /\ prog' = prog /\ UNCHANGED LIT /\ UNCHANGED validBBs
      /\ pc' \in {"blocks", "undefined"} => PlaceOK'
  BY <1>1, ReadsInstruction
<1>3. pc = "blocks"
  BY <1>1 DEF Reads
<1>4. PointersOK /\ ArraysOK /\ prog \in Programs /\ ~ptrValid
  BY DEF TypeInv, ArraysOK
<1>5. DOMAIN aliasInfoMap' = DOMAIN aliasInfoMap
  BY AddAliasDomain DEF Pointer
<1>6. MapsOK'
  BY <1>1, <1>2, <1>5 DEF TypeInv, MapsOK
<1>7. \/ I.src1 \in DOMAIN prog.dims /\ sizes = Dimensions(prog.dims[I.src1])
      \/ I.src1 \in {K.dst : K \in Pointers} /\ sizes = << >>
  BY <1>1, <1>4 DEF ArraysOK
<1>8. \A d : Dimensions(d) # << >> /\ (Dimensions(d)[1] = 1 <=> Len(d) = 1 \/ d[2] = 1)
  BY DEF Dimensions
<1>9. vector => I.dst \in DOMAIN prog.access
  <2> SUFFICES ASSUME vector
               PROVE  IsVector(I.src1)
    BY <1>2, <1>4, Program
  <2>1. I.src1 \in DOMAIN prog.dims /\ (Len(prog.dims[I.src1]) = 1 \/ prog.dims[I.src1][2] = 1)
    BY <1>7, <1>8
  <2> QED BY <1>4, <2>1, Program DEF IsVector
<1>10. second => I.dst \in DOMAIN prog.access
  <2> SUFFICES ASSUME second
               PROVE  I.src1 \in {K.dst : K \in Pointers}
    BY <1>2, <1>4, Program
  <2> QED BY <1>7, <1>8
<1> HIDE DEF sizes, struct, array
<1>11. \/ /\ vector /\ SetPointerInfo(I.dst, struct, sizes)
          /\ UNCHANGED <<arraysInfoMap, ptrValid>>
       \/ /\ second /\ SetPointerInfo(I.dst, struct, arraysInfoMap[array])
          /\ ptrValid' = FALSE /\ UNCHANGED arraysInfoMap
       \/ /\ arraysInfoMap' = Insert(arraysInfoMap, I.dst, << >>)
          /\ UNCHANGED <<pc, ptrValid, pointerInfoMap>>
  BY <1>4 DEF Pointer, sizes, struct, array
<1>12. CASE vector /\ SetPointerInfo(I.dst, struct, sizes) /\ UNCHANGED <<arraysInfoMap, ptrValid>>
  <2>1. PointersOK' /\ pc' \in {"blocks", "undefined"}
    BY <1>2, <1>3, <1>4, <1>9, <1>12, SetPointerInfoType
  <2> QED BY <1>2, <1>6, <1>12, <2>1, PartsKept DEF TypeInv
<1>13. CASE /\ second /\ SetPointerInfo(I.dst, struct, arraysInfoMap[array])
            /\ ptrValid' = FALSE /\ UNCHANGED arraysInfoMap
  <2>1. PointersOK' /\ pc' \in {"blocks", "undefined"}
    BY <1>2, <1>3, <1>4, <1>10, <1>13, SetPointerInfoType
  <2>2. ptrValid' = ptrValid
    BY <1>13 DEF TypeInv, ArraysOK
  <2> QED BY <1>2, <1>6, <1>13, <2>1, <2>2, PartsKept DEF TypeInv
<1>14. CASE /\ arraysInfoMap' = Insert(arraysInfoMap, I.dst, << >>)
            /\ UNCHANGED <<pc, ptrValid, pointerInfoMap>>
  <2>1. Pointers' = Pointers
    BY <1>2 DEF Pointers
  <2>2. I.dst \in {J.dst : J \in Pointers}
    BY <1>2
  <2>3. ASSUME NEW a \in DOMAIN arraysInfoMap'
        PROVE  \/ a \in DOMAIN prog.dims /\ arraysInfoMap'[a] = Dimensions(prog.dims[a])
               \/ a \in {J.dst : J \in Pointers} /\ arraysInfoMap'[a] = << >>
    <3>1. CASE a \in DOMAIN arraysInfoMap
      <4>1. arraysInfoMap'[a] = arraysInfoMap[a]
        BY <1>14, <3>1 DEF Insert
      <4> QED BY <1>4, <3>1, <4>1 DEF ArraysOK
    <3>2. CASE a \notin DOMAIN arraysInfoMap
      <4>1. a = I.dst
        BY <1>14, <2>3, <3>2 DEF Insert
      <4>2. arraysInfoMap'[a] = << >>
        BY <1>14, <3>2, <4>1 DEF Insert
      <4> QED BY <2>2, <4>1, <4>2
    <3> QED BY <3>1, <3>2
  <2>4. ArraysOK'
    BY <1>2, <1>4, <1>14, <2>1, <2>3 DEF ArraysOK
  <2> QED BY <1>2, <1>3, <1>6, <1>14, <2>4, PartsKept DEF TypeInv
<1> QED BY <1>11, <1>12, <1>13, <1>14

LEMMA TypeInvStep ==
  ASSUME TypeInv, [Next]_vars
  PROVE  TypeInv'
<1>1. CASE UNCHANGED vars
  <2>1. /\ prog' = prog /\ UNCHANGED <<pc, loop, block, pos>>
        /\ UNCHANGED <<initValuesMap, aliasInfoMap, validBBs, LIT, arraysInfoMap, ptrValid,
                       pointerInfoMap>>
    BY <1>1 DEF vars, place, pointers
  <2>2. PlaceOK'
    BY <2>1 DEF TypeInv, PlaceOK
  <2> QED BY <2>1, <2>2, PartsKept DEF TypeInv
<1>2. CASE ParseAllocas \/ ParseLoopPreheader \/ HeaderLoad \/ HeaderCompare
  BY <1>2, ParseAllocasType, ParseLoopPreheaderType, HeaderLoadType, HeaderCompareType
<1>3. CASE AllLoops \/ EnterBlock \/ LeaveBlock \/ AllBlocks
  BY <1>3, BlocksType
<1>4. CASE Store \/ LoadIterator \/ Load \/ Add \/ SignExtend \/ Other \/ OtherPointer
  BY <1>4, InstructionType
<1>5. CASE Pointer
  BY <1>5, PointerType
<1>6. CASE Finished
  BY <1>1, <1>6 DEF Finished
<1> QED BY <1>1, <1>2, <1>3, <1>4, <1>5, <1>6 DEF Next

LEMMA TypeInvariance == Spec => []TypeInv
<1> QED BY InitType, TypeInvStep, PTL DEF Spec

(* The tables of the collection keep their keys and their types, whatever  *)
(* the function: in particular what is recorded is an access of the        *)
(* function, never the pointer to a row of a matrix (CollectInfo.cpp:      *)
(* parseLoopBody, setPointerInfo), and every pattern is one of the class.  *)
THEOREM TypeCorrect == Spec => []TypeOK
<1>1. TypeInv => TypeOK
  <2> SUFFICES ASSUME TypeInv
               PROVE  TypeOK
    OBVIOUS
  <2>1. DOMAIN loopInfoMap = {loopIteratorMap[n] : n \in DOMAIN loopIteratorMap}
    <3> DEFINE s == loopIteratorMap
               D == DOMAIN loopInfoMap
    <3>1. s \in Seq(D) /\ \A v \in D : \E n \in DOMAIN s : s[n] = v
      BY DEF TypeInv, LoopTablesOK
    <3>2. ASSUME NEW n \in DOMAIN s
          PROVE  s[n] \in D
      <4> HIDE DEF s, D
      <4> QED BY <3>1, <3>2
    <3> HIDE DEF s, D
    <3>3. D = {s[n] : n \in DOMAIN s}
      BY <3>1, <3>2
    <3> QED BY <3>3 DEF s, D
  <2>2. Range(loopIteratorMap) = DOMAIN loopInfoMap
    BY <2>1 DEF Range
  <2>3. Range(validBBs) \subseteq Range(prog.blocks)
    <3>1. validBBs \in Seq(Range(prog.blocks))
      BY DEF TypeInv, MapsOK, Range
    <3>2. ASSUME NEW S, validBBs \in Seq(S)
          PROVE  Range(validBBs) \subseteq S
      BY <3>2 DEF Range
    <3> QED BY <3>1, <3>2
  <2> QED BY <2>2, <2>3 DEF TypeInv, TypeOK, PlaceOK, MapsOK, LoopTablesOK, PointersOK
<1> QED BY <1>1, TypeInvariance, PTL

-----------------------------------------------------------------------------
(* What a header may record its loop under: a variable it loads, or the    *)
(* end of a map.                                                           *)
Loaded(n) == {prog.loops[n].loads[q].src1 : q \in DOMAIN prog.loops[n].loads}
Keys(n) == {v \in Int : v < 0} \cup Loaded(n)

Early == pc \in {"alloca", "loops", "header"}

(* The loops whose header was read, at least its first load.               *)
HeadersRead == 1..(IF pc = "header" /\ pos > 1 THEN loop ELSE loop - 1)

InitValuesOK ==
  Early =>
    /\ IsFiniteSet(DOMAIN initValuesMap)
    /\ \A n \in Loops : (PlainLoop(n) /\ IteratorOf(n) \in DOMAIN initValuesMap)
         => initValuesMap[IteratorOf(n)] = prog.loops[n].init

(* An iterator is known once its header was read, and not before.          *)
AliasesOK ==
  (Early /\ OwnIterators) =>
    /\ \A v \in DOMAIN iteratorsAliasMap : \E m \in HeadersRead : v \in Keys(m)
    /\ \A m \in HeadersRead : PlainLoop(m) => IteratorOf(m) \in DOMAIN iteratorsAliasMap

(* The locals of parseLoopHeaderAndLatch: the pointer is one of this loop  *)
(* once its iterator was loaded.                                           *)
HeaderOK ==
  pc = "header" =>
    /\ pos \in 1..(Len(L.loads) + 1)
    /\ DOMAIN loopInfo = DOMAIN NoLoopInfo(0) /\ loopInfo.inc = L.inc
    /\ PlainLoop(loop) => L.it \in DOMAIN initValuesMap
    /\ (OwnIterators /\ pos > 1) =>
         /\ it \in Keys(loop)
         /\ \A m \in 1..(loop - 1) : PlainLoop(m) => it # IteratorOf(m)
         /\ PlainLoop(loop) => it = L.it /\ loopInfo.init = L.init /\ loopInfo.isInit

(* What is recorded of a loop with constant bounds.                        *)
RecordOK(n) ==
  LET v == IteratorOf(n)
      info == loopInfoMap[v]
  IN /\ loopIteratorMap[n] = v /\ v \in DOMAIN loopInfoMap
     /\ info.init = prog.loops[n].init /\ info.final = prog.loops[n].const
     /\ info.inc = prog.loops[n].inc /\ info.isInit /\ info.isFinal
     /\ info.iterations = Iterations(prog.loops[n].pred, info)
     /\ info.body = prog.loops[n].body
     /\ nestedLoopMap[v] = [m \in DOMAIN Parents(n) |-> loopIteratorMap[Parents(n)[m]]]

RecordsOK ==
  /\ Len(loopIteratorMap) = loop - 1
  /\ OwnIterators => \A n \in DOMAIN loopIteratorMap :
                       /\ loopIteratorMap[n] \in Keys(n)
                       /\ PlainLoop(n) => RecordOK(n)

(* LoopsRecorded, and what keeps it: no header meets an iterator that was  *)
(* met before, so that every loop is entered under a key of its own.       *)
LoopInv == TypeInv /\ InitValuesOK /\ AliasesOK /\ HeaderOK /\ RecordsOK

LEMMA LoopsOfProgram ==
  ASSUME prog \in Programs
  PROVE  /\ Len(prog.loops) \in Nat /\ Loops = 1..Len(prog.loops)
         /\ \A n \in Loops :
              LET l == prog.loops[n]
              IN /\ l.preheader \in DOMAIN prog.code /\ l.parent \in 0..(n - 1)
                 /\ Len(l.loads) \in Nat \ {0} /\ DOMAIN l.loads = 1..Len(l.loads)
                 /\ \A q \in DOMAIN l.loads : l.loads[q].src1 \in Nat
                 /\ l.loads[1].src1 = IteratorOf(n) /\ IteratorOf(n) \in Nat
                 /\ l.final = NoPtr => Len(l.loads) = 1
                 /\ l.init \in Int /\ l.const \in Int /\ l.inc \in Int
<1>1. Len(prog.loops) \in Nat /\ Loops = 1..Len(prog.loops)
  BY Program DEF Loops
<1>2. ASSUME NEW n \in Loops
      PROVE  LET l == prog.loops[n]
             IN /\ l.preheader \in DOMAIN prog.code /\ l.parent \in 0..(n - 1)
                /\ Len(l.loads) \in Nat \ {0} /\ DOMAIN l.loads = 1..Len(l.loads)
                /\ \A q \in DOMAIN l.loads : l.loads[q].src1 \in Nat
                /\ l.loads[1].src1 = IteratorOf(n) /\ IteratorOf(n) \in Nat
                /\ l.final = NoPtr => Len(l.loads) = 1
                /\ l.init \in Int /\ l.const \in Int /\ l.inc \in Int
  <2> DEFINE l == prog.loops[n]
  <2>1. /\ l.preheader \in DOMAIN prog.code /\ l.parent \in 0..(n - 1)
        /\ l.loads \in Seq(Instructions) /\ l.loads # << >> /\ l.loads[1].src1 = l.it
        /\ l.final = NoPtr => Len(l.loads) = 1
        /\ {l.init, l.const, l.inc} \subseteq Int
    BY <1>2, ProgramsAssumption DEF Loops
  <2>2. Len(l.loads) \in Nat \ {0} /\ DOMAIN l.loads = 1..Len(l.loads)
    BY <2>1
  <2>3. ASSUME NEW q \in DOMAIN l.loads
        PROVE  l.loads[q].src1 \in Nat
    <3>1. l.loads[q] \in Instructions
      <4> HIDE DEF l
      <4> QED BY <2>1, <2>3
    <3> QED BY <3>1 DEF Instructions
  <2>4. 1 \in DOMAIN l.loads
    BY <2>2
  <2> QED BY <2>1, <2>2, <2>3, <2>4 DEF IteratorOf
<1> QED BY <1>1, <1>2

(* The iterator of a loop is no key of the loops before.                   *)
LEMMA OwnKey ==
  ASSUME prog \in Programs, OwnIterators, NEW n \in Loops, NEW m \in 1..(n - 1)
  PROVE  IteratorOf(n) \notin Keys(m)
<1>1. IteratorOf(n) \in Nat /\ m \in Loops
  BY LoopsOfProgram
<1>2. IteratorOf(n) \notin Loaded(m)
  BY DEF OwnIterators, Loaded, Range
<1> QED BY <1>1, <1>2 DEF Keys

(* A key that is new after the preheader was stored there.                 *)
LEMMA Stores ==
  ASSUME NEW m, NEW code, NEW N \in Nat, DOMAIN code = 1..N
  PROVE  /\ \A v \in DOMAIN m : /\ v \in DOMAIN StoredConstants(m, code)
                               /\ StoredConstants(m, code)[v] = m[v]
         /\ \A v \in DOMAIN StoredConstants(m, code) \ DOMAIN m :
              \E n \in DOMAIN code : /\ code[n].op = "store" /\ code[n].src1 = NoPtr
                                    /\ code[n].src2 = v
                                    /\ StoredConstants(m, code)[v] = code[n].const
         /\ \A n \in DOMAIN code : (code[n].op = "store" /\ code[n].src1 = NoPtr)
              => code[n].src2 \in DOMAIN StoredConstants(m, code)
         /\ IsFiniteSet(DOMAIN m) => IsFiniteSet(DOMAIN StoredConstants(m, code))
<1> DEFINE stores == {n \in DOMAIN code : code[n].op = "store" /\ code[n].src1 = NoPtr}
           of(v) == {n \in stores : code[n].src2 = v}
           D == DOMAIN m \cup {code[n].src2 : n \in stores}
<1>1. StoredConstants(m, code) =
        [v \in D |-> IF v \in DOMAIN m THEN m[v] ELSE code[Earliest(of(v))].const]
  BY DEF StoredConstants
<1>2. ASSUME NEW v \in D \ DOMAIN m
      PROVE  Earliest(of(v)) \in of(v)
  <2>1. of(v) \subseteq Nat /\ of(v) # {}
    OBVIOUS
  <2>2. \E n \in of(v) : \A k \in of(v) : n <= k
    <3> HIDE DEF of
    <3> QED BY <2>1, LeastNumber
  <2> HIDE DEF of
  <2> QED BY <2>2 DEF Earliest
<1>3. IsFiniteSet(DOMAIN m) => IsFiniteSet(D)
  <2>1. IsFiniteSet(1..N)
    BY FS_Interval
  <2>2. IsFiniteSet(stores)
    BY <2>1, FS_Subset
  <2>3. IsFiniteSet({code[n].src2 : n \in stores})
    <3> DEFINE T == {code[n].src2 : n \in stores}
               f == [n \in stores |-> code[n].src2]
    <3>1. f \in Surjection(stores, T)
      BY DEF Surjection
    <3> HIDE DEF stores, T, f
    <3>2. IsFiniteSet(T)
      BY <2>2, <3>1, FS_Surjection
    <3> QED BY <3>2 DEF T
  <2> QED BY <2>3, FS_Union
<1> HIDE DEF D
<1>4. DOMAIN StoredConstants(m, code) = D
  BY <1>1
<1>5. \A v \in D : StoredConstants(m, code)[v] =
                    IF v \in DOMAIN m THEN m[v] ELSE code[Earliest(of(v))].const
  BY <1>1
<1>6. DOMAIN m \subseteq D /\ \A n \in stores : code[n].src2 \in D
  BY DEF D
<1> QED BY <1>2, <1>3, <1>4, <1>5, <1>6

(* What says of the program alone stays when the program does.             *)
ParentsIn(p, n) ==
  LET around[m \in 0..Len(p.loops)] ==
        IF m = 0 THEN << >> ELSE <<m>> \o around[p.loops[m].parent]
  IN around[p.loops[n].parent]

LEMMA SameProgram ==
  ASSUME prog' = prog
  PROVE  /\ Loops' = Loops /\ (OwnIterators' <=> OwnIterators)
         /\ \A n : /\ IteratorOf(n)' = IteratorOf(n) /\ Keys(n)' = Keys(n)
                   /\ PlainLoop(n)' <=> PlainLoop(n)
                   /\ Parents(n)' = Parents(n)
<1>1. Loops' = Loops
  BY DEF Loops
<1>2. ASSUME NEW n
      PROVE  IteratorOf(n)' = IteratorOf(n) /\ Keys(n)' = Keys(n)
  BY DEF IteratorOf, Keys, Loaded
<1>3. OwnIterators' <=> OwnIterators
  BY <1>1, <1>2 DEF OwnIterators
<1>4. ASSUME NEW n
      PROVE  PlainLoop(n)' <=> PlainLoop(n)
  <2>1. \A v : Stored(v)' = Stored(v)
    BY DEF Stored
  <2> QED BY <1>1, <1>2, <2>1 DEF PlainLoop
<1>5. ASSUME NEW n
      PROVE  Parents(n)' = Parents(n)
  <2>1. Parents(n) = ParentsIn(prog, n)
    BY DEF Parents, ParentsIn
  <2>2. Parents(n)' = ParentsIn(prog', n)
    BY DEF Parents, ParentsIn
  <2> QED BY <2>1, <2>2
<1> QED BY <1>1, <1>2, <1>3, <1>4, <1>5

LEMMA RecordsKept ==
  ASSUME RecordsOK, prog' = prog, UNCHANGED LIT, loop' = loop
  PROVE  RecordsOK'
<1>1. /\ loopInfoMap' = loopInfoMap /\ loopIteratorMap' = loopIteratorMap
      /\ nestedLoopMap' = nestedLoopMap
  BY DEF LIT
<1>2. ASSUME NEW n, RecordOK(n)
      PROVE  RecordOK(n)'
  <2>1. IteratorOf(n)' = IteratorOf(n) /\ Parents(n)' = Parents(n)
    BY SameProgram
  <2> QED BY <1>1, <1>2, <2>1 DEF RecordOK
<1> QED BY <1>1, <1>2, SameProgram DEF RecordsOK

LEMMA InitLoops == Init => LoopInv
<1> SUFFICES ASSUME Init
             PROVE  LoopInv
  OBVIOUS
<1>1. IsFiniteSet({})
  BY FS_EmptySet
<1>2. DOMAIN EmptyMap = {}
  BY DEF EmptyMap
<1>3. InitValuesOK /\ AliasesOK
  BY <1>1, <1>2 DEF Init, InitValuesOK, AliasesOK, HeadersRead
<1>4. HeaderOK /\ RecordsOK
  BY DEF Init, HeaderOK, RecordsOK
<1> QED BY <1>3, <1>4, InitType DEF LoopInv

(* The steps before and after the loops.                                   *)
LEMMA OutsideLoops ==
  ASSUME LoopInv, TypeInv', prog' = prog, UNCHANGED LIT, loop' = loop,
         \/ pc' \in {"blocks", "done", "undefined"}
         \/ /\ pc = "alloca" /\ pc' = "loops" /\ UNCHANGED <<initValuesMap, iteratorsAliasMap>>
  PROVE  LoopInv'
<1>1. RecordsOK'
  BY RecordsKept DEF LoopInv
<1>2. HeaderOK'
  BY DEF HeaderOK
<1>3. CASE pc' \in {"blocks", "done", "undefined"}
  <2>1. ~Early'
    BY <1>3 DEF Early
  <2> QED BY <1>1, <1>2, <2>1 DEF LoopInv, InitValuesOK, AliasesOK
<1>4. CASE /\ pc = "alloca" /\ pc' = "loops" /\ UNCHANGED <<initValuesMap, iteratorsAliasMap>>
  <2>1. Early /\ Early' /\ HeadersRead' = HeadersRead
    BY <1>4 DEF Early, HeadersRead
  <2>2. InitValuesOK'
    BY <1>4, <2>1, SameProgram DEF LoopInv, InitValuesOK
  <2>3. AliasesOK'
    BY <1>4, <2>1, SameProgram DEF LoopInv, AliasesOK
  <2> QED BY <1>1, <1>2, <2>2, <2>3 DEF LoopInv
<1> QED BY <1>3, <1>4

LEMMA LoopsStutter ==
  ASSUME LoopInv, TypeInv', UNCHANGED vars
  PROVE  LoopInv'
<1>1. /\ prog' = prog /\ UNCHANGED LIT
      /\ UNCHANGED <<pc, loop, pos, it, loopInfo, initValuesMap, iteratorsAliasMap>>
  BY DEF vars, place, locals
<1>2. RecordsOK'
  BY <1>1, RecordsKept DEF LoopInv
<1>3. Early' = Early /\ HeadersRead' = HeadersRead /\ L' = L
  BY <1>1 DEF Early, HeadersRead, L
<1>4. InitValuesOK'
  BY <1>1, <1>3, SameProgram DEF LoopInv, InitValuesOK
<1>5. AliasesOK'
  BY <1>1, <1>3, SameProgram DEF LoopInv, AliasesOK
<1>6. NoLoopInfo(0)' = NoLoopInfo(0)
  BY DEF NoLoopInfo
<1>7. HeaderOK'
  BY <1>1, <1>3, <1>6, SameProgram DEF LoopInv, HeaderOK
<1> QED BY <1>2, <1>4, <1>5, <1>7 DEF LoopInv

(* A preheader may store the initial value of the iterator of its loop.    *)
LEMMA PreheaderLoops ==
  ASSUME LoopInv, TypeInv', ParseLoopPreheader
  PROVE  LoopInv'
<1> DEFINE code == prog.code[L.preheader]
           stored == StoredConstants(initValuesMap, code)
<1>1. /\ prog' = prog /\ UNCHANGED LIT /\ loop' = loop
      /\ pc = "loops" /\ pc' = "header" /\ pos' = 1 /\ loop <= Len(prog.loops)
      /\ initValuesMap' = stored
      /\ iteratorsAliasMap' = LoadedIterators(iteratorsAliasMap, code)
      /\ \E g \in Garbage : loopInfo' = [NoLoopInfo(g) EXCEPT !.inc = L.inc]
  BY DEF ParseLoopPreheader
<1>2. TypeInv /\ prog \in Programs /\ loop \in Nat \ {0}
  BY Program DEF LoopInv, TypeInv, PlaceOK
<1>3. /\ loop \in Loops /\ L = prog.loops[loop] /\ L' = L
      /\ L.it = IteratorOf(loop) /\ Len(L.loads) \in Nat \ {0}
  <2>1. loop \in Loops /\ Len(prog.loops[loop].loads) \in Nat \ {0}
    <3>1. /\ Len(prog.loops) \in Nat /\ Loops = 1..Len(prog.loops)
          /\ \A n \in Loops : Len(prog.loops[n].loads) \in Nat \ {0}
      BY <1>2, LoopsOfProgram
    <3>2. loop \in 1..Len(prog.loops)
      BY <1>1, <1>2, <3>1
    <3> QED BY <3>1, <3>2
  <2>2. L = prog.loops[loop] /\ L' = prog'.loops[loop']
    BY DEF L
  <2>3. L' = L
    BY <1>1, <2>2, Zenon
  <2>4. L.it = IteratorOf(loop)
    BY <2>2 DEF IteratorOf
  <2> QED BY <2>1, <2>2, <2>3, <2>4
<1>4. /\ L.preheader \in DOMAIN prog.code /\ Len(code) \in Nat
      /\ DOMAIN code = 1..Len(code) /\ \A n \in DOMAIN code : code[n] \in Instructions
  <2>1. L.preheader \in DOMAIN prog.code
    BY <1>2, <1>3, Program DEF Loops
  <2>2. prog.code[L.preheader] \in Seq(Instructions)
    BY <1>2, <2>1, ProgramsAssumption
  <2> QED BY <2>1, <2>2
<1>5.
      /\ \A v \in DOMAIN initValuesMap : v \in DOMAIN stored /\ stored[v] = initValuesMap[v]
      /\ \A v \in DOMAIN stored \ DOMAIN initValuesMap :
           \E n \in DOMAIN code : /\ code[n].op = "store" /\ code[n].src1 = NoPtr
                                 /\ code[n].src2 = v /\ stored[v] = code[n].const
      /\ \A n \in DOMAIN code : (code[n].op = "store" /\ code[n].src1 = NoPtr)
           => code[n].src2 \in DOMAIN stored
      /\ IsFiniteSet(DOMAIN initValuesMap) => IsFiniteSet(DOMAIN stored)
  <2> HIDE DEF code
  <2> QED BY <1>4, Stores
<1>6. code = prog.code[L.preheader]
  OBVIOUS
<1> HIDE DEF stored, code
<1>7. RecordsOK'
  BY <1>1, RecordsKept DEF LoopInv
<1>8. Early /\ Early' /\ HeadersRead' = HeadersRead
  BY <1>1 DEF Early, HeadersRead
<1>9. IsFiniteSet(DOMAIN initValuesMap')
  BY <1>1, <1>8, <1>5 DEF LoopInv, InitValuesOK
<1>10. ASSUME NEW n \in Loops, PlainLoop(n), IteratorOf(n) \in DOMAIN initValuesMap'
      PROVE  initValuesMap'[IteratorOf(n)] = prog.loops[n].init
  <2> DEFINE v == IteratorOf(n)
  <2>1. CASE v \in DOMAIN initValuesMap
    <3>1. stored[v] = initValuesMap[v]
      BY <2>1, <1>5
    <3> QED BY <1>1, <1>8, <1>10, <2>1, <3>1 DEF LoopInv, InitValuesOK
  <2>2. CASE v \notin DOMAIN initValuesMap
    <3>1. PICK k \in DOMAIN code : /\ code[k].op = "store" /\ code[k].src1 = NoPtr
                                   /\ code[k].src2 = v /\ stored[v] = code[k].const
      BY <1>1, <1>10, <2>2, <1>5
    <3>2. code[k] \in Stored(v)
      BY <1>4, <1>6, <3>1 DEF Stored, Range
    <3> QED BY <1>1, <1>10, <3>1, <3>2 DEF PlainLoop
  <2> QED BY <2>1, <2>2
<1>11. PlainLoop(loop) => L.it \in DOMAIN initValuesMap'
  <2> SUFFICES ASSUME PlainLoop(loop)
               PROVE  IteratorOf(loop) \in DOMAIN stored
    BY <1>1, <1>3
  <2>1. PICK J \in Stored(IteratorOf(loop)) : J \in Range(code)
    BY <1>3, <1>6 DEF PlainLoop
  <2>2. J.src1 = NoPtr /\ J.op = "store" /\ J.src2 = IteratorOf(loop)
    BY <2>1 DEF PlainLoop, Stored
  <2>3. PICK k \in DOMAIN code : code[k] = J
    BY <2>1 DEF Range
  <2>4. /\ code[k].op = "store" /\ code[k].src1 = NoPtr
        /\ code[k].src2 = IteratorOf(loop)
    BY <2>2, <2>3
  <2>5. code[k].src2 \in DOMAIN stored
    BY <1>5, <2>4
  <2> QED BY <2>4, <2>5
<1>12. DOMAIN iteratorsAliasMap' = DOMAIN iteratorsAliasMap
  BY <1>1 DEF LoadedIterators
<1>13. InitValuesOK'
  BY <1>1, <1>9, <1>10, SameProgram DEF InitValuesOK
<1>14. AliasesOK'
  BY <1>1, <1>8, <1>12, SameProgram DEF LoopInv, AliasesOK
<1>15. DOMAIN loopInfo' = DOMAIN NoLoopInfo(0) /\ loopInfo'.inc = L.inc
  BY <1>1 DEF NoLoopInfo
<1>16. HeaderOK'
  <2>1. DOMAIN loopInfo' = (DOMAIN NoLoopInfo(0))'
    BY <1>15 DEF NoLoopInfo
  <2>2. pos' \in 1..(Len(L'.loads) + 1) /\ ~(pos' > 1)
    BY <1>1, <1>3
  <2>3. PlainLoop(loop)' => L'.it \in DOMAIN initValuesMap'
    BY <1>1, <1>3, <1>11, SameProgram
  <2> QED BY <1>3, <1>15, <2>1, <2>2, <2>3 DEF HeaderOK
<1> QED BY <1>7, <1>13, <1>14, <1>16 DEF LoopInv

(* A load of the header meets the iterator of its loop first, as something *)
(* new, and whatever it meets for the first time is no iterator recorded.  *)
LEMMA HeaderLoadLoops ==
  ASSUME LoopInv, TypeInv', HeaderLoad
  PROVE  LoopInv'
<1> DEFINE src == L.loads[pos].src1
           known == src \in DOMAIN initValuesMap
           key == IF known THEN src ELSE EndKey(initValuesMap)
           old == src \in DOMAIN iteratorsAliasMap
<1>1. /\ prog' = prog /\ UNCHANGED LIT /\ loop' = loop /\ pc = "header"
      /\ pos <= Len(L.loads) /\ pos' = pos + 1 /\ initValuesMap' = initValuesMap
  BY DEF HeaderLoad
<1>2. pc' \in {"header", "undefined"}
  BY <1>1 DEF HeaderLoad
<1>3. TypeInv /\ prog \in Programs /\ loop \in Nat \ {0} /\ loop <= Len(prog.loops)
  BY <1>1, Program DEF LoopInv, TypeInv, PlaceOK
<1>4. /\ loop \in Loops /\ L = prog.loops[loop] /\ L' = L
      /\ L.it = IteratorOf(loop) /\ Len(L.loads) \in Nat \ {0}
      /\ DOMAIN L.loads = 1..Len(L.loads) /\ L.loads[1].src1 = IteratorOf(loop)
      /\ L.final = NoPtr => Len(L.loads) = 1
      /\ \A q \in DOMAIN L.loads : L.loads[q].src1 \in Nat
  BY <1>1, <1>3, LoopsOfProgram DEF L, IteratorOf
<1>5. pos \in 1..Len(L.loads) /\ src \in Nat /\ src \in Loaded(loop)
  <2>1. pos \in 1..Len(L.loads)
    BY <1>1, <1>4 DEF LoopInv, HeaderOK
  <2>2. L.loads[pos].src1 \in Nat
    BY <1>4, <2>1
  <2>3. L.loads[pos].src1 \in {L.loads[q].src1 : q \in DOMAIN L.loads}
    BY <1>4, <2>1
  <2> QED BY <1>4, <2>1, <2>2, <2>3 DEF Loaded
<1>6. RecordsOK'
  BY <1>1, RecordsKept DEF LoopInv
<1>7. Early
  BY <1>1 DEF Early
<1>8. InitValuesOK'
  BY <1>1, <1>7, SameProgram DEF LoopInv, InitValuesOK
<1>9. /\ OwnIterators => \A v \in DOMAIN iteratorsAliasMap : \E m \in HeadersRead : v \in Keys(m)
      /\ OwnIterators => \A m \in HeadersRead :
                           PlainLoop(m) => IteratorOf(m) \in DOMAIN iteratorsAliasMap
  BY <1>7 DEF LoopInv, AliasesOK
<1>10. /\ HeadersRead = 1..(IF pos > 1 THEN loop ELSE loop - 1)
       /\ pc' = "header" => HeadersRead' = 1..loop
  BY <1>1, <1>5 DEF HeadersRead
<1>11. key \in Keys(loop) /\ (key \in Nat => key = src)
  <2>1. CASE known
    BY <1>5, <2>1 DEF Keys
  <2>2. CASE ~known
    <3>1. Cardinality(DOMAIN initValuesMap) \in Nat
      BY <1>7, FS_CardinalityType DEF LoopInv, InitValuesOK
    <3>2. EndKey(initValuesMap) \in Int /\ EndKey(initValuesMap) < 0
      BY <3>1 DEF EndKey
    <3> QED BY <2>2, <3>2 DEF Keys
  <2> QED BY <2>1, <2>2
(* The first load is of the iterator, which no header has met.             *)
<1>12. OwnIterators /\ pos = 1 => ~old
  <2> SUFFICES ASSUME OwnIterators, pos = 1, old
               PROVE  FALSE
    OBVIOUS
  <2>1. src = IteratorOf(loop)
    BY <1>4
  <2>2. PICK m \in 1..(loop - 1) : IteratorOf(loop) \in Keys(m)
    BY <1>9, <1>10, <2>1
  <2> QED BY <1>3, <1>4, <2>2, OwnKey
<1>13. CASE pc' = "undefined"
  <2>1. ~Early' /\ HeaderOK'
    BY <1>13 DEF Early, HeaderOK
  <2> QED BY <1>6, <1>8, <2>1 DEF LoopInv, AliasesOK
<1> HIDE DEF src, key, known, old
<1>14. CASE pc' = "header" /\ old
  <2>1. /\ iteratorsAliasMap' = Assign(iteratorsAliasMap, src, L.loads[pos].dst)
        /\ it' = it /\ loopInfo' = loopInfo
    BY <1>14 DEF HeaderLoad, src, old
  <2>2. DOMAIN iteratorsAliasMap' = DOMAIN iteratorsAliasMap
    BY <2>1 DEF Assign
  <2>3. OwnIterators => pos > 1
    BY <1>5, <1>12, <1>14
  <2>4. OwnIterators => HeadersRead' = HeadersRead
    BY <1>10, <1>14, <2>3
  <2>5. AliasesOK'
    BY <1>1, <1>9, <2>2, <2>4, SameProgram DEF AliasesOK
  <2>6. HeaderOK'
    <3>1. /\ DOMAIN loopInfo = DOMAIN NoLoopInfo(0) /\ loopInfo.inc = L.inc
          /\ PlainLoop(loop) => L.it \in DOMAIN initValuesMap
          /\ OwnIterators =>
               /\ it \in Keys(loop)
               /\ \A m \in 1..(loop - 1) : PlainLoop(m) => it # IteratorOf(m)
               /\ PlainLoop(loop) => it = L.it /\ loopInfo.init = L.init /\ loopInfo.isInit
      BY <1>1, <2>3 DEF LoopInv, HeaderOK
    <3>2. DOMAIN loopInfo' = (DOMAIN NoLoopInfo(0))'
      BY <2>1, <3>1 DEF NoLoopInfo
    <3>3. pos' \in 1..(Len(L'.loads) + 1)
      BY <1>1, <1>4, <1>5
    <3> QED BY <1>1, <1>4, <2>1, <3>1, <3>2, <3>3, SameProgram DEF HeaderOK
  <2> QED BY <1>6, <1>8, <2>5, <2>6 DEF LoopInv
<1>15. CASE pc' = "header" /\ ~old
  <2>1. /\ iteratorsAliasMap' = Insert(iteratorsAliasMap, key, L.loads[pos].dst)
        /\ it' = key
        /\ loopInfo' = IF known
                       THEN [loopInfo EXCEPT !.init = initValuesMap[src], !.isInit = TRUE]
                       ELSE [loopInfo EXCEPT !.isInit = FALSE]
    BY <1>15 DEF HeaderLoad, src, known, key, old
  <2>2. DOMAIN iteratorsAliasMap' = DOMAIN iteratorsAliasMap \cup {key}
    BY <2>1, InsertDomain
  <2>3. PlainLoop(loop) => pos = 1 /\ src = IteratorOf(loop) /\ known /\ key = IteratorOf(loop)
    <3> SUFFICES ASSUME PlainLoop(loop)
                 PROVE  pos = 1 /\ src = IteratorOf(loop) /\ known /\ key = IteratorOf(loop)
      OBVIOUS
    <3>1. pos = 1
      BY <1>4, <1>5 DEF PlainLoop
    <3>2. src = IteratorOf(loop)
      BY <1>4, <3>1 DEF src
    <3>3. L.it \in DOMAIN initValuesMap
      BY <1>1 DEF LoopInv, HeaderOK
    <3> QED BY <1>4, <3>1, <3>2, <3>3 DEF known, key
  <2>4. HeadersRead \subseteq 1..loop /\ loop \in 1..loop /\ HeadersRead \cup {loop} = 1..loop
    BY <1>3, <1>10
  <2>5. AliasesOK'
    <3>1. ASSUME OwnIterators, NEW v \in DOMAIN iteratorsAliasMap'
          PROVE  \E m \in 1..loop : v \in Keys(m)
      BY <1>9, <1>11, <2>2, <2>4, <3>1
    <3>2. ASSUME OwnIterators, NEW m \in 1..loop, PlainLoop(m)
          PROVE  IteratorOf(m) \in DOMAIN iteratorsAliasMap'
      BY <1>9, <2>2, <2>3, <2>4, <3>2
    <3> QED BY <1>1, <1>10, <1>15, <3>1, <3>2, SameProgram DEF AliasesOK
  <2>6. ASSUME OwnIterators, NEW m \in 1..(loop - 1), PlainLoop(m)
        PROVE  key # IteratorOf(m)
    <3>1. m \in HeadersRead /\ m \in Loops
      BY <1>3, <1>10, LoopsOfProgram
    <3>2. IteratorOf(m) \in DOMAIN iteratorsAliasMap /\ IteratorOf(m) \in Nat
      BY <1>3, <1>9, <2>6, <3>1, LoopsOfProgram
    <3> QED BY <1>11, <1>15, <3>2 DEF old
  <2>7. /\ DOMAIN loopInfo = DOMAIN NoLoopInfo(0) /\ loopInfo.inc = L.inc
        /\ PlainLoop(loop) => L.it \in DOMAIN initValuesMap
    BY <1>1 DEF LoopInv, HeaderOK
  <2>8. DOMAIN loopInfo' = DOMAIN NoLoopInfo(0) /\ loopInfo'.inc = L.inc
    BY <2>1, <2>7 DEF NoLoopInfo
  <2>9. PlainLoop(loop) => it' = L.it /\ loopInfo'.init = L.init /\ loopInfo'.isInit
    <3> SUFFICES ASSUME PlainLoop(loop)
                 PROVE  it' = L.it /\ loopInfo'.init = L.init /\ loopInfo'.isInit
      OBVIOUS
    <3>1. initValuesMap[src] = L.init
      BY <1>4, <1>7, <2>3, <2>7 DEF LoopInv, InitValuesOK
    <3> QED BY <1>4, <2>1, <2>3, <2>7, <3>1 DEF NoLoopInfo
  <2>10. HeaderOK'
    <3>1. DOMAIN loopInfo' = (DOMAIN NoLoopInfo(0))'
      BY <2>8 DEF NoLoopInfo
    <3>2. pos' \in 1..(Len(L'.loads) + 1)
      BY <1>1, <1>4, <1>5
    <3> QED BY <1>1, <1>4, <1>11, <2>1, <2>6, <2>7, <2>8, <2>9, <3>1, <3>2, SameProgram DEF HeaderOK
  <2> QED BY <1>6, <1>8, <2>5, <2>10 DEF LoopInv
<1> QED BY <1>2, <1>13, <1>14, <1>15

(* The function Parents takes its value of: the loops from one outwards,   *)
(* for every loop.  It exists since a parent comes before.                 *)
IsAround(N, f) ==
  f = [m \in 0..N |-> IF m = 0 THEN << >> ELSE <<m>> \o f[prog.loops[m].parent]]

LEMMA AroundExists ==
  ASSUME prog \in Programs
  PROVE  \A N \in Nat : N <= Len(prog.loops) => \E f : IsAround(N, f)
<1> DEFINE parent(m) == prog.loops[m].parent
           P == {N \in Nat : N <= Len(prog.loops) => \E f : IsAround(N, f)}
<1>1. \A m \in 1..Len(prog.loops) : parent(m) \in 0..(m - 1)
  BY LoopsOfProgram
<1>2. 0 \in P
  <2> DEFINE f == [m \in 0..0 |-> << >>]
  <2>1. \A m \in 0..0 : m = 0
    OBVIOUS
  <2>2. f = [m \in 0..0 |-> IF m = 0 THEN << >> ELSE <<m>> \o f[prog.loops[m].parent]]
    BY <2>1
  <2> QED BY <2>2 DEF IsAround
<1>3. ASSUME NEW N \in Nat, N \in P
      PROVE  N + 1 \in P
  <2> SUFFICES ASSUME N + 1 <= Len(prog.loops)
               PROVE  \E f : IsAround(N + 1, f)
    OBVIOUS
  <2>1. N <= Len(prog.loops) /\ Len(prog.loops) \in Nat
    BY LoopsOfProgram
  <2>2. PICK f : IsAround(N, f)
    BY <1>3, <2>1
  <2>3. /\ f[0] = << >> /\ \A m \in 0..N : m # 0 => f[m] = <<m>> \o f[parent(m)]
    <3>1. 0 \in 0..N
      OBVIOUS
    <3> QED BY <2>2, <3>1, Zenon DEF IsAround
  <2> HIDE DEF P
  <2> DEFINE g == [m \in 0..(N + 1) |-> IF m = N + 1 THEN <<m>> \o f[parent(m)] ELSE f[m]]
             body(m) == IF m = 0 THEN << >> ELSE <<m>> \o g[parent(m)]
  <2>4. ASSUME NEW m \in 0..(N + 1)
        PROVE  g[m] = body(m)
    <3>1. CASE m = 0
      <4>1. m # N + 1
        BY <3>1
      <4> QED BY <2>3, <3>1, <4>1
    <3>2. CASE m # 0
      <4>1. m \in 1..Len(prog.loops)
        BY <2>1, <3>2
      <4>2. parent(m) \in 0..(N + 1) /\ parent(m) # N + 1
        <5>1. parent(m) \in 0..(m - 1)
          BY <1>1, <4>1
        <5> HIDE DEF parent
        <5> QED BY <5>1
      <4>3. g[parent(m)] = f[parent(m)]
        BY <4>2
      <4>4. g[m] = <<m>> \o f[parent(m)]
        <5>1. CASE m = N + 1
          BY <5>1
        <5>2. CASE m # N + 1
          <6>1. m \in 0..N
            BY <5>2
          <6> QED BY <2>3, <3>2, <5>2, <6>1
        <5> QED BY <5>1, <5>2
      <4> HIDE DEF g
      <4> QED BY <3>2, <4>3, <4>4
    <3> QED BY <3>1, <3>2
  <2>5. DOMAIN g = 0..(N + 1) /\ g = [m \in 0..(N + 1) |-> g[m]]
    OBVIOUS
  <2> HIDE DEF g, body
  <2>6. g = [m \in 0..(N + 1) |-> body(m)]
    BY <2>4, <2>5
  <2>7. IsAround(N + 1, g)
    BY <2>6 DEF IsAround, body, parent
  <2> QED BY <2>7
<1> HIDE DEF P
<1>4. \A N \in Nat : N \in P
  BY <1>2, <1>3, Induction
<1> QED BY <1>4 DEF P

LEMMA SeqOfMore ==
  ASSUME NEW S, NEW T, S \subseteq T, NEW s \in Seq(S)
  PROVE  s \in Seq(T)
<1>1. Len(s) \in Nat /\ s \in [1..Len(s) -> S]
  OBVIOUS
<1>2. s \in [1..Len(s) -> T]
  BY <1>1
<1> QED BY <1>1, <1>2

(* The loops around a loop come before it, the outer ones first.           *)
Falls(s, k) == s \in Seq(1..k) /\ \A i, j \in DOMAIN s : i < j => s[j] < s[i]

LEMMA OneMore ==
  ASSUME NEW m \in Nat, NEW q \in 0..m, NEW s, Falls(s, q)
  PROVE  Falls(<<m + 1>> \o s, m + 1)
<1> DEFINE S == 1..(m + 1)
           t == <<m + 1>> \o s
<1>1. s \in Seq(S) /\ \A i \in DOMAIN s : s[i] \in 1..q
  <2>1. s \in Seq(1..q) /\ 1..q \subseteq 1..(m + 1)
    BY DEF Falls
  <2>2. s \in Seq(1..(m + 1))
    BY <2>1, SeqOfMore
  <2> QED BY <2>1, <2>2
<1>2. m + 1 \in S
  OBVIOUS
<1> HIDE DEF S
<1>3. /\ t \in Seq(S) /\ DOMAIN t = 1..(Len(s) + 1) /\ t[1] = m + 1
      /\ DOMAIN s = 1..Len(s) /\ Len(s) \in Nat
      /\ \A i \in 1..Len(s) : t[i + 1] = s[i]
  BY <1>1, <1>2
<1> HIDE DEF t
<1>4. ASSUME NEW i \in DOMAIN t, NEW j \in DOMAIN t, i < j
      PROVE  t[j] < t[i]
  <2>1. j - 1 \in DOMAIN s /\ (j - 1) + 1 = j
    BY <1>3, <1>4
  <2>2. t[j] = s[j - 1] /\ s[j - 1] \in 1..q
    BY <1>1, <1>3, <2>1
  <2>3. CASE i = 1
    BY <1>3, <2>2, <2>3
  <2>4. CASE i # 1
    <3>1. i - 1 \in DOMAIN s /\ (i - 1) + 1 = i /\ i - 1 < j - 1
      BY <1>3, <1>4, <2>4
    <3>2. t[i] = s[i - 1] /\ s[j - 1] < s[i - 1]
      BY <1>3, <2>1, <3>1 DEF Falls
    <3> QED BY <2>2, <3>2
  <2> QED BY <2>3, <2>4
<1> QED BY <1>3, <1>4 DEF Falls, S, t

LEMMA ParentsBefore ==
  ASSUME prog \in Programs, NEW n \in Loops
  PROVE  Parents(n) \in Seq(1..(n - 1)) /\ Falls(Parents(n), n - 1)
<1> DEFINE N == Len(prog.loops)
           f == CHOOSE f : IsAround(N, f)
           P == {m \in Nat : \A k \in 0..m : k <= N => Falls(f[k], k)}
<1>1. N \in Nat /\ n \in 1..N /\ \A m \in 1..N : prog.loops[m].parent \in 0..(m - 1)
  BY LoopsOfProgram
<1>2. IsAround(N, f)
  BY <1>1, AroundExists
<1>3. Parents(n) = f[prog.loops[n].parent]
  BY DEF Parents, IsAround
<1> HIDE DEF f
<1>4. f[0] = << >> /\ \A m \in 1..N : f[m] = <<m>> \o f[prog.loops[m].parent]
  <2>1. 0 \in 0..N /\ \A m \in 1..N : m \in 0..N /\ m # 0
    BY <1>1
  <2> QED BY <1>2, <2>1, Zenon DEF IsAround
<1>5. 0 \in P
  <2>1. \A k \in 0..0 : k = 0
    OBVIOUS
  <2>2. Falls(f[0], 0)
    BY <1>4 DEF Falls
  <2> QED BY <2>1, <2>2
<1>6. ASSUME NEW m \in Nat, m \in P
      PROVE  m + 1 \in P
  <2> SUFFICES ASSUME m + 1 <= N
               PROVE  Falls(f[m + 1], m + 1)
    BY <1>6
  <2> DEFINE p == prog.loops[m + 1].parent
  <2>1. m + 1 \in 1..N /\ (m + 1) - 1 = m
    BY <1>1
  <2>2. p \in 0..m
    BY <1>1, <2>1
  <2>3. f[m + 1] = <<m + 1>> \o f[p]
    BY <1>4, <2>1
  <2> HIDE DEF p
  <2>4. Falls(f[p], p)
    BY <1>1, <1>6, <2>2
  <2> QED BY <2>2, <2>3, <2>4, OneMore
<1> HIDE DEF P
<1>7. \A m \in Nat : m \in P
  BY <1>5, <1>6, Induction
<1>8. n - 1 \in P /\ prog.loops[n].parent \in 0..(n - 1)
  BY <1>1, <1>7
<1> DEFINE p == prog.loops[n].parent
<1> HIDE DEF p
<1>9. Falls(f[p], p) /\ p \in 0..(n - 1)
  <2>1. p \in 0..(n - 1)
    BY <1>8 DEF p
  <2>2. p <= N
    BY <1>1, <2>1
  <2>3. \A k \in 0..(n - 1) : k <= N => Falls(f[k], k)
    BY <1>8 DEF P
  <2> QED BY <2>1, <2>2, <2>3
<1>10. 1..p \subseteq 1..(n - 1)
  BY <1>1, <1>9
<1>11. f[p] \in Seq(1..(n - 1))
  BY <1>9, <1>10, SeqOfMore DEF Falls
<1>12. Falls(f[p], n - 1)
  BY <1>9, <1>11 DEF Falls
<1> QED BY <1>3, <1>11, <1>12 DEF p

(* The bounds that are entered for a loop with constant bounds.            *)
EntryOf(entry, info, body) ==
  /\ entry.init = info.init /\ entry.inc = info.inc /\ entry.isInit = info.isInit
  /\ entry.final = L.const /\ entry.isFinal = TRUE
  /\ entry.iterations = Iterations(L.pred, entry) /\ entry.body = body

LEMMA ComparedBounds ==
  ASSUME NEW info, DOMAIN info = DOMAIN NoLoopInfo(0), L.final = NoPtr,
         L.pred \in {"slt", "sle", "sgt", "sge"}, NEW body
  PROVE  EntryOf([Compared(info) EXCEPT !.body = body], info, body)
<1> DEFINE bounded == [info EXCEPT !.final = L.const, !.isFinal = TRUE]
           n == Iterations(L.pred, bounded)
           entry == [Compared(info) EXCEPT !.body = body]
<1>1. Compared(info) = [bounded EXCEPT !.iterations = n]
  BY DEF Compared
<1>2. DOMAIN info = {"init", "final", "inc", "iterations", "isInit", "isFinal",
                     "variableFinal", "body"}
  BY DEF NoLoopInfo
<1>3. /\ bounded.init = info.init /\ bounded.inc = info.inc /\ bounded.final = L.const
      /\ bounded.isInit = info.isInit /\ bounded.isFinal = TRUE /\ DOMAIN bounded = DOMAIN info
  BY <1>2
<1> HIDE DEF bounded, n
<1>4. /\ entry.init = bounded.init /\ entry.inc = bounded.inc /\ entry.final = bounded.final
      /\ entry.isInit = bounded.isInit /\ entry.isFinal = bounded.isFinal
      /\ entry.iterations = n /\ entry.body = body
  BY <1>1, <1>2, <1>3
<1> HIDE DEF entry
<1>5. Iterations(L.pred, entry) = Iterations(L.pred, bounded)
  BY <1>4 DEF Iterations
<1>6. EntryOf(entry, info, body)
  BY <1>3, <1>4, <1>5 DEF n, EntryOf
<1> QED BY <1>6 DEF entry

(* The entry of the loop is made under a new key, and the ones before are  *)
(* not touched.                                                            *)
LEMMA HeaderCompareLoops ==
  ASSUME LoopInv, TypeInv', HeaderCompare
  PROVE  LoopInv'
<1> DEFINE entry == [Compared(loopInfo) EXCEPT !.body = L.body]
           around(n) == [m \in DOMAIN Parents(n) |-> loopIteratorMap[Parents(n)[m]]]
<1>1. /\ prog' = prog /\ pc = "header" /\ pc' = "loops" /\ loop' = loop + 1
      /\ pos > Len(L.loads)
      /\ UNCHANGED <<initValuesMap, iteratorsAliasMap>>
      /\ loopInfoMap' = Insert(loopInfoMap, it, entry)
      /\ loopIteratorMap' = Append(loopIteratorMap, it)
      /\ nestedLoopMap' = Assign(Insert(nestedLoopMap, it, << >>), it,
                                 ListAt(nestedLoopMap, it) \o around(loop))
  BY DEF HeaderCompare
<1>2. TypeInv /\ prog \in Programs /\ loop \in Nat \ {0} /\ loop <= Len(prog.loops)
  BY <1>1, Program DEF LoopInv, TypeInv, PlaceOK
<1>3. /\ loop \in Loops /\ L = prog.loops[loop]
      /\ L.it = IteratorOf(loop) /\ Len(L.loads) \in Nat \ {0}
  BY <1>1, <1>2, LoopsOfProgram DEF L, IteratorOf
<1>4. pos > 1 /\ pos \in Nat
  BY <1>1, <1>2, <1>3 DEF TypeInv, PlaceOK
<1>5. Early /\ Early' /\ HeadersRead = 1..loop /\ HeadersRead' = 1..loop
  BY <1>1, <1>2, <1>4 DEF Early, HeadersRead
<1>6. InitValuesOK'
  BY <1>1, <1>5, SameProgram DEF LoopInv, InitValuesOK
<1>7. AliasesOK'
  BY <1>1, <1>5, SameProgram DEF LoopInv, AliasesOK
<1>8. HeaderOK'
  BY <1>1 DEF HeaderOK
<1>9. /\ loopIteratorMap \in Seq(DOMAIN loopInfoMap) /\ Len(loopIteratorMap) = loop - 1
      /\ DOMAIN loopIteratorMap = 1..(loop - 1)
      /\ DOMAIN nestedLoopMap = DOMAIN loopInfoMap
      /\ \A v \in DOMAIN loopInfoMap : \E n \in DOMAIN loopIteratorMap : loopIteratorMap[n] = v
  <2>1. loopIteratorMap \in Seq(DOMAIN loopInfoMap) /\ Len(loopIteratorMap) = loop - 1
    BY <1>2 DEF TypeInv, LoopTablesOK, LoopInv, RecordsOK
  <2>2. DOMAIN loopIteratorMap = 1..Len(loopIteratorMap)
    BY <2>1
  <2> QED BY <1>2, <2>1, <2>2 DEF TypeInv, LoopTablesOK
<1>10. /\ Len(loopIteratorMap') = loop /\ DOMAIN loopIteratorMap' = 1..loop
       /\ \A n \in 1..(loop - 1) : loopIteratorMap'[n] = loopIteratorMap[n]
       /\ loopIteratorMap'[loop] = it
  <2> DEFINE D == DOMAIN loopInfoMap
  <2>1. loopIteratorMap \in Seq(D \cup {it})
    BY <1>9, SeqOfMore
  <2> HIDE DEF D
  <2> QED BY <1>1, <1>2, <1>9, <2>1
<1>11. /\ DOMAIN loopInfoMap' = DOMAIN loopInfoMap \cup {it}
       /\ \A v \in DOMAIN loopInfoMap : loopInfoMap'[v] = loopInfoMap[v]
       /\ it \notin DOMAIN loopInfoMap => loopInfoMap'[it] = entry
  BY <1>1 DEF Insert
<1>12. /\ \A v \in DOMAIN nestedLoopMap : v # it => nestedLoopMap'[v] = nestedLoopMap[v]
       /\ nestedLoopMap'[it] = ListAt(nestedLoopMap, it) \o around(loop)
  BY <1>1 DEF Insert, Assign
<1> HIDE DEF entry
<1>13. ASSUME NEW n \in 1..loop
       PROVE  [m \in DOMAIN Parents(n) |-> loopIteratorMap'[Parents(n)[m]]] = around(n)
  <2>1. n \in Loops /\ n \in Nat
    BY <1>2, LoopsOfProgram
  <2>2. \A m \in DOMAIN Parents(n) : Parents(n)[m] \in 1..(n - 1)
    BY <1>2, <2>1, ParentsBefore
  <2>3. 1..(n - 1) \subseteq 1..(loop - 1)
    BY <1>2
  <2> QED BY <1>10, <2>2, <2>3
<1>14. /\ OwnIterators => it \in Keys(loop)
       /\ OwnIterators => \A m \in 1..(loop - 1) : PlainLoop(m) => it # IteratorOf(m)
       /\ OwnIterators /\ PlainLoop(loop)
            => it = IteratorOf(loop) /\ loopInfo.init = L.init /\ loopInfo.isInit
       /\ DOMAIN loopInfo = DOMAIN NoLoopInfo(0) /\ loopInfo.inc = L.inc
  BY <1>1, <1>3, <1>4 DEF LoopInv, HeaderOK
<1>15. ASSUME OwnIterators, NEW n \in 1..(loop - 1), PlainLoop(n)
       PROVE  RecordOK(n)'
  <2> DEFINE v == IteratorOf(n)
  <2>1. RecordOK(n)
    BY <1>9, <1>15 DEF LoopInv, RecordsOK
  <2>2. v \in DOMAIN loopInfoMap /\ v # it
    BY <1>14, <1>15, <2>1 DEF RecordOK
  <2>3. loopInfoMap'[v] = loopInfoMap[v] /\ nestedLoopMap'[v] = nestedLoopMap[v]
    BY <1>9, <1>11, <1>12, <2>2
  <2>4. [m \in DOMAIN Parents(n) |-> loopIteratorMap'[Parents(n)[m]]] = around(n)
    BY <1>2, <1>13
  <2>5. nestedLoopMap[v] = around(n)
    BY <2>1 DEF RecordOK
  <2>6. /\ loopIteratorMap'[n] = v /\ v \in DOMAIN loopInfoMap'
        /\ nestedLoopMap'[v] = [m \in DOMAIN Parents(n) |-> loopIteratorMap'[Parents(n)[m]]]
    BY <1>10, <1>11, <2>1, <2>2, <2>3, <2>4, <2>5 DEF RecordOK
  <2>7. IteratorOf(n)' = v /\ Parents(n)' = Parents(n)
    BY <1>1, SameProgram
  <2> DEFINE info == loopInfoMap[v]
  <2>8. /\ info.init = prog.loops[n].init /\ info.final = prog.loops[n].const
        /\ info.inc = prog.loops[n].inc /\ info.isInit /\ info.isFinal
        /\ info.iterations = Iterations(prog.loops[n].pred, info)
        /\ info.body = prog.loops[n].body
    BY <2>1, Zenon DEF RecordOK
  <2>9. prog' = prog /\ loopInfoMap'[v] = info
    BY <1>1, <2>3, Zenon
  <2> HIDE DEF v, info
  <2> QED BY <2>6, <2>7, <2>8, <2>9 DEF RecordOK
<1>16. ASSUME OwnIterators, NEW n \in 1..loop, n = loop, PlainLoop(n)
       PROVE  RecordOK(n)'
  <2> DEFINE v == IteratorOf(n)
  <2>1. it = v /\ loopInfo.init = L.init /\ loopInfo.isInit /\ loopInfo.inc = L.inc
    BY <1>14, <1>16
  <2>2. it \notin DOMAIN loopInfoMap
    <3> SUFFICES ASSUME it \in DOMAIN loopInfoMap
                 PROVE  FALSE
      OBVIOUS
    <3>1. PICK m \in 1..(loop - 1) : loopIteratorMap[m] = it
      BY <1>9
    <3>2. it \in Keys(m)
      BY <1>9, <1>16, <3>1 DEF LoopInv, RecordsOK
    <3> QED BY <1>2, <1>3, <1>16, <2>1, <3>2, OwnKey
  <2>3. loopInfoMap'[v] = entry /\ v \in DOMAIN loopInfoMap'
    BY <1>11, <2>1, <2>2
  <2>4. L.final = NoPtr /\ L.pred \in {"slt", "sle", "sgt", "sge"}
    BY <1>3, <1>16 DEF PlainLoop
  <2>5. /\ entry.init = L.init /\ entry.inc = L.inc /\ entry.isInit
        /\ entry.final = L.const /\ entry.isFinal
        /\ entry.iterations = Iterations(L.pred, entry) /\ entry.body = L.body
    <3>1. EntryOf([Compared(loopInfo) EXCEPT !.body = L.body], loopInfo, L.body)
      BY <1>14, <2>4, ComparedBounds
    <3>2. EntryOf(entry, loopInfo, L.body)
      BY <3>1 DEF entry
    <3> QED BY <1>14, <2>1, <3>2 DEF EntryOf
  <2>6. nestedLoopMap'[v] = around(n)
    <3>1. ListAt(nestedLoopMap, it) = << >>
      BY <1>9, <2>2 DEF ListAt
    <3>2. Parents(n) \in Seq(1..(loop - 1))
      BY <1>2, <1>3, <1>16, ParentsBefore
    <3>3. around(n) \in Seq(DOMAIN loopInfoMap)
      <4> DEFINE p == Parents(n)
                 D == DOMAIN loopInfoMap
      <4>1. Len(p) \in Nat /\ DOMAIN p = 1..Len(p) /\ \A m \in 1..Len(p) : p[m] \in 1..(loop - 1)
        <5> DEFINE S == 1..(loop - 1)
        <5> HIDE DEF p, S
        <5>1. p \in Seq(S)
          BY <3>2 DEF p, S
        <5>2. Len(p) \in Nat /\ DOMAIN p = 1..Len(p) /\ \A m \in 1..Len(p) : p[m] \in S
          BY <5>1
        <5> QED BY <5>2 DEF S
      <4>2. \A m \in 1..(loop - 1) : loopIteratorMap[m] \in D
        BY <1>9
      <4>3. \A m \in 1..Len(p) : loopIteratorMap[p[m]] \in D
        BY <4>1, <4>2
      <4>4. around(n) = [m \in 1..Len(p) |-> loopIteratorMap[p[m]]]
        BY <4>1
      <4> HIDE DEF p, D, around
      <4>5. around(n) \in Seq(D)
        BY <4>1, <4>3, <4>4
      <4> QED BY <4>5 DEF D
    <3> HIDE DEF around
    <3>4. << >> \o around(n) = around(n)
      BY <3>3
    <3> QED BY <1>12, <1>16, <2>1, <3>1, <3>4 DEF around
  <2>7. nestedLoopMap'[v] = [m \in DOMAIN Parents(n) |-> loopIteratorMap'[Parents(n)[m]]]
    BY <1>13, <2>6
  <2>8. /\ IteratorOf(n)' = v /\ Parents(n)' = Parents(n)
        /\ loopIteratorMap'[n] = v /\ L = prog.loops[n]
    BY <1>1, <1>3, <1>10, <1>16, <2>1, SameProgram
  <2>9. /\ loopInfoMap'[v].init = prog.loops[n].init /\ loopInfoMap'[v].final = prog.loops[n].const
        /\ loopInfoMap'[v].inc = prog.loops[n].inc
        /\ loopInfoMap'[v].isInit /\ loopInfoMap'[v].isFinal
        /\ loopInfoMap'[v].iterations = Iterations(prog.loops[n].pred, loopInfoMap'[v])
        /\ loopInfoMap'[v].body = prog.loops[n].body
    BY <2>3, <2>5, <2>8
  <2> HIDE DEF v
  <2> QED BY <1>1, <2>3, <2>7, <2>8, <2>9 DEF RecordOK
<1>17. RecordsOK'
  <2>1. Len(loopIteratorMap') = loop' - 1
    BY <1>1, <1>2, <1>10
  <2>2. ASSUME OwnIterators, NEW n \in 1..loop
        PROVE  loopIteratorMap'[n] \in Keys(n) /\ (PlainLoop(n) => RecordOK(n)')
    <3>1. CASE n = loop
      BY <1>10, <1>14, <1>16, <2>2, <3>1
    <3>2. CASE n # loop
      <4>1. n \in 1..(loop - 1)
        BY <1>2, <3>2
      <4>2. loopIteratorMap'[n] \in Keys(n)
        BY <1>9, <1>10, <2>2, <4>1 DEF LoopInv, RecordsOK
      <4> QED BY <1>15, <2>2, <4>1, <4>2
    <3> QED BY <3>1, <3>2
  <2> QED BY <1>1, <1>10, <2>1, <2>2, SameProgram DEF RecordsOK
<1> QED BY <1>6, <1>7, <1>8, <1>17 DEF LoopInv

LEMMA LoopsStep ==
  ASSUME LoopInv, [Next]_vars
  PROVE  LoopInv'
<1>1. TypeInv'
  BY TypeInvStep DEF LoopInv
<1>2. CASE UNCHANGED vars
  BY <1>1, <1>2, LoopsStutter
<1>3. CASE ParseLoopPreheader
  BY <1>1, <1>3, PreheaderLoops
<1>4. CASE HeaderLoad
  BY <1>1, <1>4, HeaderLoadLoops
<1>5. CASE HeaderCompare
  BY <1>1, <1>5, HeaderCompareLoops
<1>6. CASE ParseAllocas
  BY <1>1, <1>6, OutsideLoops DEF ParseAllocas
<1>7. CASE AllLoops \/ EnterBlock \/ LeaveBlock \/ AllBlocks
  <2>1. /\ prog' = prog /\ UNCHANGED LIT /\ loop' = loop
        /\ pc' \in {"blocks", "done"}
    BY <1>7 DEF AllLoops, EnterBlock, LeaveBlock, AllBlocks
  <2> QED BY <1>1, <2>1, OutsideLoops
<1>8. CASE Store \/ LoadIterator \/ Load \/ Add \/ SignExtend \/ Other \/ OtherPointer
  <2>1. PICK ops : Reads(ops)
    BY <1>8 DEF Store, LoadIterator, Load, Add, SignExtend, Other, OtherPointer
  <2>2. pc' = pc
    BY <1>8 DEF Store, LoadIterator, Load, Add, SignExtend, Other, OtherPointer
  <2>3. prog' = prog /\ UNCHANGED LIT /\ loop' = loop /\ pc' = "blocks"
    BY <2>1, <2>2 DEF Reads
  <2> QED BY <1>1, <2>3, OutsideLoops
<1>9. CASE Pointer
  <2>1. Reads({"ptr"})
    BY <1>9 DEF Pointer
  <2>2. \A reg, struct, sizes : SetPointerInfo(reg, struct, sizes) => pc' \in {pc, "undefined"}
    BY DEF SetPointerInfo
  <2>3. pc' \in {pc, "undefined"}
    BY <1>9, <2>2 DEF Pointer
  <2>4. /\ prog' = prog /\ UNCHANGED LIT /\ loop' = loop
        /\ pc' \in {"blocks", "undefined"}
    BY <2>1, <2>3 DEF Reads
  <2> QED BY <1>1, <2>4, OutsideLoops
<1>10. CASE Finished
  BY <1>2, <1>10 DEF Finished
<1> QED BY <1>2, <1>3, <1>4, <1>5, <1>6, <1>7, <1>8, <1>9, <1>10 DEF Next

LEMMA LoopsInvariance == Spec => []LoopInv
<1> QED BY InitLoops, LoopsStep, PTL DEF Spec

-----------------------------------------------------------------------------
(* The number of iterations.                                               *)
LEMMA ProductsGrow ==
  ASSUME NEW x \in Int, NEW y \in Int, x <= y, NEW e \in Nat
  PROVE  x * e <= y * e
<1>1. y - x \in Nat
  OBVIOUS
<1>2. (y - x) * e \in Nat
  BY <1>1
<1>3. (y - x) * e = y * e - x * e
  OBVIOUS
<1>4. x * e \in Int /\ y * e \in Int
  OBVIOUS
<1> QED BY <1>2, <1>3, <1>4

LEMMA Division ==
  ASSUME NEW g \in Nat, NEW e \in Nat \ {0}
  PROVE  /\ g \div e \in Nat
         /\ (g \div e) * e <= g /\ g < (g \div e + 1) * e
OBVIOUS

(* The number of multiples of e below G, which is where a loop stops.      *)
LEMMA MultiplesBelow ==
  ASSUME NEW e \in Int, NEW G \in Int, NEW N \in Nat,
         Cardinality({t \in 0..N : \A u \in 0..t : u * e < G}) \in 1..N
  PROVE  LET K == Cardinality({t \in 0..N : \A u \in 0..t : u * e < G})
         IN e > 0 /\ G > 0 /\ K \in Nat /\ (K - 1) * e < G /\ G <= K * e
<1> DEFINE T == {t \in 0..N : \A u \in 0..t : u * e < G}
           S == {u \in Nat : ~(u * e < G)}
<1>1. \A k \in Nat : IsFiniteSet(0..(k - 1)) /\ Cardinality(0..(k - 1)) = k
  BY FS_Interval
<1>2. Cardinality(T) \in 1..N
  OBVIOUS
<1>3. T # {}
  BY <1>2, FS_EmptySet
<1>4. G > 0
  <2>1. PICK t \in T : TRUE
    BY <1>3
  <2>2. 0 \in 0..t /\ 0 * e = 0
    OBVIOUS
  <2>3. 0 * e < G
    BY <2>1, <2>2
  <2> QED BY <2>2, <2>3
<1>5. T # 0..N
  <2>1. Cardinality(0..((N + 1) - 1)) = N + 1 /\ (N + 1) - 1 = N
    BY <1>1
  <2> HIDE DEF T
  <2>2. T = 0..N => Cardinality(T) = N + 1
    BY <2>1
  <2> QED BY <1>2, <2>2
<1>6. PICK t \in 0..N : \E u \in 0..t : u \in S
  BY <1>5
<1>7. PICK m \in S : m \in 0..t
  BY <1>6
<1>8. e > 0
  <2> SUFFICES ASSUME e <= 0
               PROVE  FALSE
    OBVIOUS
  <2>1. 0 * (-e) <= m * (-e)
    BY <1>7, ProductsGrow
  <2>2. m * (-e) = -(m * e) /\ 0 * (-e) = 0 /\ m * e \in Int
    BY <1>7
  <2>3. ~(m * e < G)
    BY <1>7
  <2> QED BY <1>4, <2>1, <2>2, <2>3
<1>9. PICK K \in S : \A u \in S : K <= u
  <2>1. S \subseteq Nat /\ S # {}
    BY <1>7
  <2> HIDE DEF S
  <2> QED BY <2>1, LeastNumber
<1>10. K \in Nat /\ K <= N /\ K # 0 /\ ~(K * e < G)
  <2>1. K \in Nat /\ ~(K * e < G)
    BY <1>9
  <2>2. K <= m /\ m <= N
    BY <1>7, <1>9
  <2>3. 0 * e = 0
    OBVIOUS
  <2> QED BY <1>4, <2>1, <2>2, <2>3
<1>11. T = 0..(K - 1)
  <2>1. ASSUME NEW k \in 0..(K - 1)
        PROVE  k \in T
    <3>1. k \in 0..N
      BY <1>10
    <3>2. ASSUME NEW u \in 0..k
          PROVE  u * e < G
      <4>1. u \in Nat /\ ~(K <= u)
        BY <1>10
      <4> QED BY <1>9, <4>1
    <3> QED BY <3>1, <3>2
  <2>2. ASSUME NEW k \in T
        PROVE  k \in 0..(K - 1)
    <3> SUFFICES ASSUME K <= k
                 PROVE  FALSE
      BY <1>10
    <3>1. K \in 0..k
      BY <1>10
    <3> QED BY <1>10, <3>1
  <2> HIDE DEF T
  <2> QED BY <2>1, <2>2
<1>12. Cardinality(T) = K
  BY <1>1, <1>10, <1>11
<1>13. (K - 1) * e < G
  <2>1. K - 1 \in Nat /\ ~(K <= K - 1)
    BY <1>10
  <2> QED BY <1>9, <2>1
<1>14. G <= K * e
  <2>1. K * e \in Int
    BY <1>10
  <2> QED BY <1>10, <2>1
<1> HIDE DEF T, S
<1>15. e > 0 /\ G > 0 /\ Cardinality(T) \in Nat
       /\ (Cardinality(T) - 1) * e < G /\ G <= Cardinality(T) * e
  BY <1>4, <1>8, <1>10, <1>12, <1>13, <1>14
<1> QED BY <1>15 DEF T

LEMMA OneCount ==
  ASSUME NEW e \in Nat, NEW G \in Int, NEW K \in Int, NEW M \in Int,
         (K - 1) * e < G, G <= K * e, (M - 1) * e < G, G <= M * e
  PROVE  K = M
<1>1. ASSUME NEW x \in Int, NEW y \in Int, x < y, (y - 1) * e < G, G <= x * e
      PROVE  FALSE
  <2>1. x <= y - 1 /\ y - 1 \in Int
    BY <1>1
  <2>2. x * e <= (y - 1) * e
    BY <2>1, ProductsGrow
  <2>3. x * e \in Int /\ (y - 1) * e \in Int
    OBVIOUS
  <2> QED BY <1>1, <2>2, <2>3
<1>2. ~(K < M) /\ ~(M < K)
  BY <1>1
<1> QED BY <1>2

(* The division of the code, rounded up or by one where the bound itself   *)
(* is reached, is the number of times that the body runs.                  *)
LEMMA IterationsExact ==
  ASSUME prog \in Programs, NEW n \in Loops, Runs(n),
         NEW pred, pred = prog.loops[n].pred, pred \in {"slt", "sle", "sgt", "sge"},
         NEW info, info.init = prog.loops[n].init, info.final = prog.loops[n].const,
         info.inc = prog.loops[n].inc
  PROVE  Iterations(pred, info) = TripCount(n)
<1> DEFINE a == prog.loops[n].init
           c == prog.loops[n].const
           d == prog.loops[n].inc
           K == TripCount(n)
           strict == pred \in {"slt", "sgt"}
           up == pred \in {"slt", "sle"}
           e == IF up THEN d ELSE -d
           gap == IF up THEN c - a ELSE a - c
           G == IF strict THEN gap ELSE gap + 1
<1>1. a \in Int /\ c \in Int /\ d \in Int
  BY LoopsOfProgram
<1> HIDE DEF a, c, d
<1>2. e \in Int /\ gap \in Int /\ G \in Int
  BY <1>1
<1>3. ASSUME NEW u \in Int
      PROVE  Continues(n, IteratorValue(n, u)) <=> u * e < G
  <2>1. IteratorValue(n, u) = a + u * d /\ u * d \in Int /\ u * (-d) = -(u * d)
    BY <1>1 DEF IteratorValue, a, d
  <2>2. CASE pred = "slt"
    BY <1>1, <2>1, <2>2 DEF Continues, c
  <2>3. CASE pred = "sle"
    BY <1>1, <2>1, <2>3 DEF Continues, c
  <2>4. CASE pred = "sgt"
    BY <1>1, <2>1, <2>4 DEF Continues, c
  <2>5. CASE pred = "sge"
    BY <1>1, <2>1, <2>5 DEF Continues, c
  <2> QED BY <2>2, <2>3, <2>4, <2>5
<1> HIDE DEF e, G
<1>4. K = Cardinality({t \in 0..MaxTrips : \A u \in 0..t : u * e < G})
  <2> DEFINE T == {t \in 0..MaxTrips : \A u \in 0..t : u * e < G}
             R == {t \in 0..MaxTrips : \A u \in 0..t : Continues(n, IteratorValue(n, u))}
  <2>1. R = T
    BY <1>3
  <2>2. K = Cardinality(R)
    BY DEF TripCount
  <2> HIDE DEF R, K
  <2> QED BY <2>1, <2>2
<1>5. K \in 1..MaxTrips
  BY DEF Runs
<1> HIDE DEF K
<1>6. e > 0 /\ G > 0 /\ K \in Nat /\ (K - 1) * e < G /\ G <= K * e
  BY <1>2, <1>4, <1>5, MaxTripsAssumption, MultiplesBelow
<1>7. gap \in Nat /\ e \in Nat \ {0} /\ (strict => gap = G) /\ (~strict => G = gap + 1)
  BY <1>2, <1>6 DEF G
<1> DEFINE q == gap \div e
<1>8. q \in Nat /\ q * e <= gap /\ gap < (q + 1) * e
  <2> HIDE DEF gap
  <2> QED BY <1>7, Division
<1>9. q * e \in Int /\ (q + 1) * e \in Int
  BY <1>2, <1>8
<1> DEFINE distance == c - a
           quotient == Quotient(distance, d)
<1>10. quotient = q
  <2>1. CASE up
    <3>1. d = e /\ distance = gap
      BY <2>1 DEF e
    <3>2. Absolute(distance) = gap /\ Absolute(d) = e /\ ~(distance < 0) /\ ~(d < 0)
      BY <1>7, <3>1 DEF Absolute
    <3> QED BY <3>2 DEF Quotient
  <2>2. CASE ~up
    <3>1. d = -e /\ distance = -gap
      BY <1>1, <2>2 DEF e
    <3>2. Absolute(distance) = gap /\ Absolute(d) = e /\ (distance < 0 <=> gap # 0) /\ d < 0
      BY <1>7, <3>1 DEF Absolute
    <3>3. gap = 0 => q = 0
      BY <1>7
    <3>4. quotient = IF (distance < 0) = (d < 0) THEN q ELSE -q
      BY <3>2 DEF Quotient
    <3> QED BY <3>2, <3>3, <3>4
  <2> QED BY <2>1, <2>2
<1>11. quotient * d # distance <=> q * e # gap
  <2>1. CASE up
    BY <1>10, <2>1 DEF e
  <2>2. CASE ~up
    <3>1. d = -e /\ distance = -gap
      BY <1>1, <2>2 DEF e
    <3>2. q * (-e) = -(q * e)
      BY <1>2, <1>8
    <3> QED BY <1>2, <1>9, <1>10, <3>1, <3>2
  <2> QED BY <2>1, <2>2
<1>12. Iterations(pred, info) = IF q * e # gap THEN q + 1 ELSE IF strict THEN q ELSE q + 1
  <2>1. info.final - info.init = distance /\ info.inc = d
    BY DEF a, c, d
  <2> HIDE DEF distance, q
  <2>2. Iterations(pred, info) =
          IF quotient * d # distance THEN quotient + 1
          ELSE IF pred \in {"sge", "sle"} THEN quotient + 1 ELSE quotient
    BY <2>1 DEF Iterations
  <2> HIDE DEF quotient
  <2> QED BY <1>10, <1>11, <2>2
<1> HIDE DEF q, gap, distance, quotient
<1>13. CASE strict /\ q * e = gap
  <2>1. G <= q * e /\ (q - 1) * e < G
    <3>1. (q - 1) * e = q * e - e
      BY <1>7, <1>8
    <3> QED BY <1>7, <1>9, <1>13, <3>1
  <2>2. K = q
    BY <1>2, <1>6, <1>7, <1>8, <2>1, OneCount
  <2> QED BY <1>12, <1>13, <2>2 DEF K
<1>14. CASE ~strict \/ q * e # gap
  <2>1. G <= (q + 1) * e /\ ((q + 1) - 1) * e < G
    <3>1. ((q + 1) - 1) * e = q * e
      BY <1>7, <1>8
    <3> QED BY <1>7, <1>8, <1>9, <1>14, <3>1
  <2>2. K = q + 1
    BY <1>2, <1>6, <1>7, <1>8, <2>1, OneCount
  <2> QED BY <1>12, <1>14, <2>2 DEF K
<1> QED BY <1>13, <1>14

(* The iteration vector of a loop whose parents are entered under          *)
(* iterators of their own.                                                 *)
LEMMA VectorOfNest ==
  ASSUME NEW n, NEW S, Parents(n) \in Seq(S),
         IteratorOf(n) \in DOMAIN nestedLoopMap,
         nestedLoopMap[IteratorOf(n)] =
           [m \in DOMAIN Parents(n) |-> IteratorOf(Parents(n)[m])]
  PROVE  getIterationVector(IteratorOf(n)) =
           [m \in 1..(Len(Parents(n)) + 1) |-> IteratorOf(Reverse(<<n>> \o Parents(n))[m])]
<1> DEFINE p == Parents(n)
           N == Len(p)
           around == [m \in DOMAIN p |-> IteratorOf(p[m])]
           nest == <<n>> \o p
           vector == Reverse(around) \o <<IteratorOf(n)>>
<1>1. N \in Nat /\ DOMAIN p = 1..N /\ p \in Seq(S)
  <2> HIDE DEF p
  <2> QED BY DEF p
<1>2. getIterationVector(IteratorOf(n)) = vector
  BY DEF getIterationVector
<1> HIDE DEF p
<1>3. Len(around) = N /\ DOMAIN around = 1..N
  BY <1>1
<1>4. /\ Len(nest) = N + 1 /\ nest[1] = n
      /\ \A m \in 1..N : nest[m + 1] = p[m]
  BY <1>1
<1> HIDE DEF N, nest
<1>5. /\ Len(Reverse(around)) = N
      /\ Reverse(around) = [m \in 1..N |-> Reverse(around)[m]]
      /\ \A m \in 1..N : Reverse(around)[m] = IteratorOf(p[(N - m) + 1])
  <2>1. \A m \in 1..N : (N - m) + 1 \in 1..N
    BY <1>1
  <2>2. Reverse(around) = [m \in 1..N |-> around[(N - m) + 1]]
    BY <1>3 DEF Reverse
  <2>3. \A m \in 1..N : around[(N - m) + 1] = IteratorOf(p[(N - m) + 1])
    BY <1>1, <2>1
  <2> HIDE DEF around
  <2> QED BY <1>1, <2>2, <2>3
<1>6. \A m \in 1..(N + 1) : Reverse(nest)[m] = nest[(N + 1 - m) + 1]
  <2> DEFINE r == Reverse(nest)
             M == Len(nest)
  <2>1. r = [m \in 1..M |-> nest[(M - m) + 1]]
    BY DEF Reverse
  <2>2. M = N + 1
    BY <1>4
  <2> HIDE DEF r, M
  <2>3. \A m \in 1..M : r[m] = nest[(M - m) + 1]
    BY <2>1
  <2>4. \A m \in 1..(N + 1) : r[m] = nest[(N + 1 - m) + 1]
    BY <1>1, <2>2, <2>3
  <2> QED BY <2>4 DEF r
<1> HIDE DEF around
<1>7. /\ vector = [m \in 1..(N + 1) |-> vector[m]]
      /\ \A m \in 1..N : vector[m] = Reverse(around)[m]
      /\ vector[N + 1] = IteratorOf(n)
  <2> DEFINE r == Reverse(around)
             v == IteratorOf(n)
             T == {r[m] : m \in 1..N}
  <2>1. r \in Seq(T)
    <3>1. r = [m \in 1..N |-> r[m]]
      BY <1>5
    <3>2. \A m \in 1..N : r[m] \in T
      OBVIOUS
    <3> HIDE DEF r, T
    <3>3. r \in [1..N -> T]
      BY <3>1, <3>2
    <3> QED BY <1>1, <3>3
  <2>2. Len(r) = N /\ N \in Nat
    BY <1>1, <1>5
  <2> HIDE DEF r, v, T
  <2>3. /\ r \o <<v>> = [m \in 1..(N + 1) |-> (r \o <<v>>)[m]]
        /\ \A m \in 1..N : (r \o <<v>>)[m] = r[m]
        /\ (r \o <<v>>)[N + 1] = v
    BY <2>1, <2>2
  <2> QED BY <2>3 DEF r, v
<1> HIDE DEF vector
<1>8. ASSUME NEW m \in 1..(N + 1)
      PROVE  vector[m] = IteratorOf(Reverse(nest)[m])
  <2>1. CASE m = N + 1
    <3>1. (N + 1 - m) + 1 = 1
      BY <1>1, <2>1
    <3> QED BY <1>4, <1>6, <1>7, <2>1, <3>1
  <2>2. CASE m # N + 1
    <3>1. m \in 1..N /\ (N - m) + 1 \in 1..N /\ (N + 1 - m) + 1 = ((N - m) + 1) + 1
      BY <1>1, <2>2
    <3>2. Reverse(nest)[m] = p[(N - m) + 1]
      BY <1>4, <1>6, <3>1
    <3> QED BY <1>5, <1>7, <3>1, <3>2
  <2> QED BY <2>1, <2>2
<1>9. vector = [m \in 1..(N + 1) |-> IteratorOf(Reverse(nest)[m])]
  BY <1>7, <1>8
<1> QED BY <1>2, <1>9 DEF p, N, nest

(* LoopsRecorded (CollectInfo.cpp: collectLoopInfo, parseLoopPreheader,    *)
(* parseLoopHeaderAndLatch; LoopInfoTable.cpp: insertLoopInfo,             *)
(* pushNestedLoop): in every function where each loop is the first whose   *)
(* header reads its iterator, a loop with constant bounds that runs is     *)
(* recorded under its iterator with its own bounds, its iterations are     *)
(* how often the body runs, and its iteration vector names the loops       *)
(* around it from the outermost.                                           *)
THEOREM LoopTablesCorrect == Spec => []LoopsRecorded
<1>1. LoopInv => LoopsRecorded
  <2> SUFFICES ASSUME LoopInv, OwnIterators, NEW n \in DOMAIN loopIteratorMap,
                      PlainNest(n), Runs(n)
               PROVE  LET info == loopInfoMap[IteratorOf(n)]
                      IN /\ loopIteratorMap[n] = IteratorOf(n)
                         /\ info.init = prog.loops[n].init /\ info.inc = prog.loops[n].inc
                         /\ info.isInit /\ info.isFinal
                         /\ info.iterations = TripCount(n)
                         /\ getIterationVector(IteratorOf(n)) =
                              [m \in 1..(Len(Parents(n)) + 1) |->
                                 IteratorOf(Reverse(<<n>> \o Parents(n))[m])]
    BY DEF LoopsRecorded
  <2>1. prog \in Programs /\ DOMAIN loopInfoMap = DOMAIN nestedLoopMap
    BY DEF LoopInv, TypeInv, LoopTablesOK
  <2>2. /\ DOMAIN loopIteratorMap = 1..(loop - 1)
        /\ loop \in 1..(Len(prog.loops) + 1) /\ Len(prog.loops) \in Nat
    <3>1. loopIteratorMap \in Seq(DOMAIN loopInfoMap) /\ Len(loopIteratorMap) = loop - 1
      BY DEF LoopInv, TypeInv, LoopTablesOK, RecordsOK
    <3>2. loop \in 1..(Len(prog.loops) + 1) /\ Len(prog.loops) \in Nat
      BY <2>1, LoopsOfProgram DEF LoopInv, TypeInv, PlaceOK
    <3> QED BY <3>1, <3>2
  <2>3. n \in Loops /\ n \in 1..(loop - 1)
    BY <2>1, <2>2, LoopsOfProgram
  <2>4. Parents(n) \in Seq(1..(n - 1))
    BY <2>1, <2>3, ParentsBefore
  <2>5. PlainLoop(n) /\ \A m \in DOMAIN Parents(n) : PlainLoop(Parents(n)[m])
    <3> DEFINE p == Parents(n)
               S == 1..(n - 1)
    <3>1. p \in Seq(S)
      BY <2>4
    <3> HIDE DEF p, S
    <3>2. /\ 1 \in DOMAIN (<<n>> \o p) /\ (<<n>> \o p)[1] = n
          /\ \A m \in DOMAIN p : m + 1 \in DOMAIN (<<n>> \o p) /\ (<<n>> \o p)[m + 1] = p[m]
      BY <3>1
    <3>3. \A m \in DOMAIN (<<n>> \o p) : PlainLoop((<<n>> \o p)[m])
      BY DEF PlainNest, Range, p
    <3>4. PlainLoop(n) /\ \A m \in DOMAIN p : PlainLoop(p[m])
      BY <3>2, <3>3
    <3> QED BY <3>4 DEF p
  <2>6. \A k \in 1..(loop - 1) : PlainLoop(k) => RecordOK(k)
    BY <2>2 DEF LoopInv, RecordsOK
  <2>7. RecordOK(n)
    BY <2>3, <2>5, <2>6
  <2>8. \A m \in DOMAIN Parents(n) : loopIteratorMap[Parents(n)[m]] = IteratorOf(Parents(n)[m])
    <3> SUFFICES ASSUME NEW m \in DOMAIN Parents(n)
                 PROVE  loopIteratorMap[Parents(n)[m]] = IteratorOf(Parents(n)[m])
      OBVIOUS
    <3>1. Parents(n)[m] \in 1..(n - 1)
      <4> DEFINE p == Parents(n)
                 S == 1..(n - 1)
      <4>1. p \in Seq(S) /\ m \in DOMAIN p
        BY <2>4
      <4> HIDE DEF p, S
      <4>2. p[m] \in S
        BY <4>1
      <4> QED BY <4>2 DEF p, S
    <3>2. Parents(n)[m] \in 1..(loop - 1)
      BY <2>2, <2>3, <3>1
    <3>3. RecordOK(Parents(n)[m])
      BY <2>5, <2>6, <3>2
    <3> QED BY <3>3 DEF RecordOK
  <2> DEFINE info == loopInfoMap[IteratorOf(n)]
  <2>9. /\ loopIteratorMap[n] = IteratorOf(n) /\ IteratorOf(n) \in DOMAIN loopInfoMap
        /\ info.init = prog.loops[n].init /\ info.final = prog.loops[n].const
        /\ info.inc = prog.loops[n].inc /\ info.isInit /\ info.isFinal
        /\ info.iterations = Iterations(prog.loops[n].pred, info)
        /\ nestedLoopMap[IteratorOf(n)] =
             [m \in DOMAIN Parents(n) |-> loopIteratorMap[Parents(n)[m]]]
    BY <2>7 DEF RecordOK
  <2> HIDE DEF info
  <2>10. info.iterations = TripCount(n)
    BY <2>1, <2>3, <2>5, <2>9, IterationsExact DEF PlainLoop
  <2>11. nestedLoopMap[IteratorOf(n)] =
           [m \in DOMAIN Parents(n) |-> IteratorOf(Parents(n)[m])]
    BY <2>8, <2>9
  <2>12. getIterationVector(IteratorOf(n)) =
           [m \in 1..(Len(Parents(n)) + 1) |-> IteratorOf(Reverse(<<n>> \o Parents(n))[m])]
    BY <2>1, <2>4, <2>9, <2>11, VectorOfNest
  <2> QED BY <2>9, <2>10, <2>12 DEF info
<1> QED BY <1>1, LoopsInvariance, PTL

-----------------------------------------------------------------------------
(* What is recorded of an access, where every loop is a plain one.         *)
Plain == \A n \in Loops : PlainLoop(n)

(* An instruction of a block was read, and the next one is at pos.         *)
InBlock == pc = "blocks" /\ block <= Len(prog.blocks) /\ pos > 0

(* The registers that an iterator is loaded into, or extended into.        *)
LoadsOf(v) ==
  {J \in InstructionsOf(prog) \cup HeaderLoadsOf(prog) : J.op = "load" /\ J.src1 = v}
Extensions == {J \in InstructionsOf(prog) : J.op = "sext"}
RegisterOf(v, r) ==
  \E J \in LoadsOf(v) : r = J.dst \/ \E K \in Extensions : K.src1 = J.dst /\ K.dst = r

(* iteratorsAliasMap: every iterator is in a register of its own, and in   *)
(* the one that the block loaded or extended it into last.                 *)
IteratorsHeld ==
  /\ DOMAIN iteratorsAliasMap \subseteq IteratorsOf(prog)
  /\ pc \in {"blocks", "done"} => IteratorsOf(prog) \subseteq DOMAIN iteratorsAliasMap
  /\ \A v \in DOMAIN iteratorsAliasMap : RegisterOf(v, iteratorsAliasMap[v])
  /\ InBlock => \A v \in IteratorsOf(prog) : \A r \in Nat :
       Holds(Code, pos, v, r) \/ Extended(Code, pos, v, r) => iteratorsAliasMap[v] = r

(* The addition that register k holds, as it is or extended.               *)
SumIn(k, b, a) ==
  /\ prog.code[b][a].op = "add"
  /\ \/ k = prog.code[b][a].dst
     \/ \E K \in Extensions : K.src1 = prog.code[b][a].dst /\ K.dst = k

ExtendedAt(e, a) == Code[e].op = "sext" /\ Code[e].src1 = Code[a].dst

(* combinedIteratorsMap: an entry is that of the sum in its register, and  *)
(* a sum of the block is in the register it was last written to.           *)
SumsHeld ==
  /\ \A k \in DOMAIN combinedIteratorsMap :
       \E b \in DOMAIN prog.code : \E a \in DOMAIN prog.code[b] :
         /\ SumIn(k, b, a)
         /\ \A x : AddsUp(prog, prog.code[b], a, x) =>
              Index(combinedIteratorsMap[k].iterators, combinedIteratorsMap[k].constant) = x
  /\ InBlock => \A a \in 1..(pos - 1) : (\E x : AddsUp(prog, Code, a, x)) =>
       /\ (\A e \in (a + 1)..(pos - 1) : ~ExtendedAt(e, a)) =>
            Code[a].dst \in DOMAIN combinedIteratorsMap
       /\ \A e \in (a + 1)..(pos - 1) :
            ExtendedAt(e, a) => Code[e].dst \in DOMAIN combinedIteratorsMap

(* The alloca that a register was read from or points into.                *)
Owns(a, r) ==
  \E J \in InstructionsOf(prog) :
    /\ J.dst = r /\ J.op \in {"load", "ptr"}
    /\ \/ J.src1 = a
       \/ J.op = "ptr" /\ \E K \in Pointers : J.src1 = K.dst /\ K.src1 = a

(* aliasInfoMap and arraysInfoMap: a row is known as soon as its pointer   *)
(* is, and belongs to its matrix.                                          *)
ArraysHeld ==
  /\ pc # "alloca" => /\ DOMAIN prog.dims \subseteq DOMAIN aliasInfoMap
                      /\ DOMAIN prog.dims \subseteq DOMAIN arraysInfoMap
  /\ DOMAIN aliasInfoMap \subseteq DOMAIN prog.dims \cup prog.scalars
  /\ \A a \in DOMAIN aliasInfoMap : /\ aliasInfoMap[a] \in Seq(Nat)
                                    /\ \A r \in Range(aliasInfoMap[a]) : Owns(a, r)
  /\ \A K \in Pointers : K.dst \in DOMAIN arraysInfoMap =>
       /\ K.src1 \in DOMAIN arraysInfoMap
       /\ K.src1 \in DOMAIN prog.dims => K.dst \in Range(aliasInfoMap[K.src1])

(* tmpPointerStruct: the first index of a matrix, after the pointer to its *)
(* row and before any other.                                               *)
RowHeld ==
  /\ DOMAIN tmpPointerStruct = {"first", "second"}
  /\ InBlock => \A g \in 1..(pos - 1) :
       (/\ Code[g].op = "ptr" /\ \A k \in (g + 1)..(pos - 1) : Code[k].op # "ptr"
        /\ Code[g].src1 \in DOMAIN prog.dims /\ Len(prog.dims[Code[g].src1]) = 2) =>
         /\ Code[g].dst \in DOMAIN arraysInfoMap
         /\ \A x : ReadsIndex(prog, Code, g, x) =>
              Index(tmpPointerStruct.first.iterators, tmpPointerStruct.first.constant) = x

(* PointerInfoTable.                                                       *)
RecordHeld(p) ==
  LET acc == prog.access[p]
      info == pointerInfoMap[p]
  IN /\ p \in Range(aliasInfoMap[acc.array])
     /\ acc.loop \in Loops /\ info.loopIterator = IteratorOf(acc.loop)
     /\ Len(prog.dims[acc.array]) = Len(acc.indexes)
     /\ info.arrayRows = Dimensions(prog.dims[acc.array])[1]
     /\ info.arrayCols = Dimensions(prog.dims[acc.array])[2]
     /\ Len(info.indexes) = Len(acc.indexes)
     /\ \A n \in DOMAIN acc.indexes :
          Index(info.indexes[n].iterators, info.indexes[n].constant) = acc.indexes[n]
PointersHeld ==
  /\ pc = "alloca" => DOMAIN pointerInfoMap = {}
  /\ \A p \in DOMAIN pointerInfoMap : Handled(p) => RecordHeld(p)

AccessInv ==
  /\ LoopInv
  /\ Plain => IteratorsHeld /\ SumsHeld /\ ArraysHeld /\ RowHeld /\ PointersHeld

(* What the assumption says of the registers.                              *)
Writers == {J \in InstructionsOf(prog) \cup HeaderLoadsOf(prog) :
              J.op \in {"load", "add", "sext", "ptr"}}

LEMMA PlaceOfInstruction ==
  /\ \A J \in InstructionsOf(prog) :
       \E b \in DOMAIN prog.code : \E m \in DOMAIN prog.code[b] : J = prog.code[b][m]
  /\ \A b \in DOMAIN prog.code : \A m \in DOMAIN prog.code[b] :
       prog.code[b][m] \in InstructionsOf(prog)
BY DEF InstructionsOf, Range

LEMMA OnePlace ==
  ASSUME prog \in Programs,
         NEW b \in DOMAIN prog.code, NEW m \in DOMAIN prog.code[b],
         NEW d \in DOMAIN prog.code, NEW n \in DOMAIN prog.code[d],
         prog.code[b][m].op \in {"load", "add", "sext", "ptr"},
         prog.code[b][m].dst = prog.code[d][n].dst
  PROVE  b = d /\ m = n
<1>1. RegistersAssumption(prog)
  BY AccessesAssumption
<1>2. prog.code[b][m] \in InstructionsOf(prog)
  BY PlaceOfInstruction
<1>3. prog.code[b][m].dst # NoPtr
  BY <1>1, <1>2 DEF RegistersAssumption
<1> QED BY <1>1, <1>3 DEF RegistersAssumption

LEMMA OneWriter ==
  ASSUME prog \in Programs
  PROVE  /\ \A J \in Writers : \A K \in InstructionsOf(prog) \cup HeaderLoadsOf(prog) :
              J.dst = K.dst => J = K
         /\ \A J \in Writers : J.dst # NoPtr
         /\ \A J \in Writers : J \in InstructionsOf(prog) =>
              J.dst \notin DOMAIN prog.dims \cup prog.scalars
         /\ IteratorsOf(prog) \cap DOMAIN prog.dims = {}
<1>1. RegistersAssumption(prog)
  BY AccessesAssumption
<1>2. ASSUME NEW J \in Writers, NEW K \in InstructionsOf(prog) \cup HeaderLoadsOf(prog),
             J.dst = K.dst
      PROVE  J = K
  <2>1. CASE J \in HeaderLoadsOf(prog) \/ K \in HeaderLoadsOf(prog)
    BY <1>1, <1>2, <2>1 DEF RegistersAssumption, Writers
  <2>2. CASE J \in InstructionsOf(prog) /\ K \in InstructionsOf(prog)
    <3>1. PICK b \in DOMAIN prog.code : \E m \in DOMAIN prog.code[b] : J = prog.code[b][m]
      BY <2>2, PlaceOfInstruction
    <3>2. PICK m \in DOMAIN prog.code[b] : J = prog.code[b][m]
      BY <3>1
    <3>3. PICK d \in DOMAIN prog.code : \E n \in DOMAIN prog.code[d] : K = prog.code[d][n]
      BY <2>2, PlaceOfInstruction
    <3>4. PICK n \in DOMAIN prog.code[d] : K = prog.code[d][n]
      BY <3>3
    <3>5. J.op \in {"load", "add", "sext", "ptr"}
      BY DEF Writers
    <3> QED BY <1>2, <3>2, <3>4, <3>5, OnePlace
  <2> QED BY <1>2, <2>1, <2>2 DEF Writers
<1>3. ASSUME NEW J \in Writers
      PROVE  J.dst # NoPtr /\ (J \in InstructionsOf(prog) =>
                                 J.dst \notin DOMAIN prog.dims \cup prog.scalars)
  BY <1>1 DEF RegistersAssumption, Writers
<1> QED BY <1>1, <1>2, <1>3 DEF RegistersAssumption

LEMMA Extending ==
  ASSUME prog \in Programs, NEW J \in Extensions
  PROVE  /\ \A K \in Extensions : J.src1 = K.src1 => J = K
         /\ \A K \in Extensions : J.src1 = K.dst =>
              \A M \in InstructionsOf(prog) \cup HeaderLoadsOf(prog) :
                M.op = "add" \/ (M.op = "load" /\ M.src1 \in IteratorsOf(prog)) => K.src1 # M.dst
<1>1. \A K \in Extensions :
        /\ J.src1 = K.src1 => J = K
        /\ J.src1 = K.dst =>
             \A M \in InstructionsOf(prog) \cup HeaderLoadsOf(prog) :
               M.op = "add" \/ (M.op = "load" /\ M.src1 \in IteratorsOf(prog)) => K.src1 # M.dst
  BY AccessesAssumption DEF Extensions
<1> QED BY <1>1

LEMMA Pointing ==
  ASSUME prog \in Programs
  PROVE  /\ Pointers = {J \in InstructionsOf(prog) : J.op = "ptr"}
         /\ \A J, K, M \in Pointers : J.src1 = K.dst => K.src1 # M.dst
         /\ \A a \in DOMAIN prog.dims :
              prog.dims[a] \in Seq(Nat \ {0}) /\ Len(prog.dims[a]) \in {1, 2}
<1>1. Pointers = {J \in InstructionsOf(prog) : J.op = "ptr"}
  BY DEF Pointers, InstructionsOf, Range
<1>2. \A J, K, M \in {N \in InstructionsOf(prog) : N.op = "ptr"} : J.src1 = K.dst => K.src1 # M.dst
  BY AccessesAssumption
<1>3. \A a \in DOMAIN prog.dims :
        prog.dims[a] \in Seq(Nat \ {0}) /\ Len(prog.dims[a]) \in {1, 2}
  BY AccessesAssumption
<1> QED BY <1>1, <1>2, <1>3

(* An iterator is in one register, and a register holds one iterator.      *)
LEMMA OneIterator ==
  ASSUME prog \in Programs, NEW v \in IteratorsOf(prog), NEW w \in IteratorsOf(prog), NEW r,
         RegisterOf(v, r), RegisterOf(w, r)
  PROVE  v = w
<1>1. PICK J \in LoadsOf(v) : r = J.dst \/ \E K \in Extensions : K.src1 = J.dst /\ K.dst = r
  BY DEF RegisterOf
<1>2. PICK M \in LoadsOf(w) : r = M.dst \/ \E K \in Extensions : K.src1 = M.dst /\ K.dst = r
  BY DEF RegisterOf
<1>3. J \in Writers /\ M \in Writers /\ J.src1 = v /\ M.src1 = w /\ J.op = "load" /\ M.op = "load"
  BY DEF LoadsOf, Writers
<1>4. Extensions \subseteq Writers /\ \A K \in Extensions : K.op = "sext"
  BY DEF Extensions, Writers
<1>5. \A A, B \in Writers : A.dst = B.dst => A = B
  BY OneWriter DEF Writers
<1>6. CASE r = J.dst /\ r = M.dst
  BY <1>3, <1>5, <1>6
<1>7. CASE \E K \in Extensions : K.dst = r /\ (r = J.dst \/ r = M.dst)
  <2>1. PICK K \in Extensions : K.dst = r /\ (r = J.dst \/ r = M.dst)
    BY <1>7
  <2>2. K = J \/ K = M
    BY <1>3, <1>4, <1>5, <2>1
  <2> QED BY <1>3, <1>4, <2>2
<1>8. CASE /\ \E K \in Extensions : K.src1 = J.dst /\ K.dst = r
           /\ \E K \in Extensions : K.src1 = M.dst /\ K.dst = r
  <2>1. PICK K \in Extensions : K.src1 = J.dst /\ K.dst = r
    BY <1>8
  <2>2. PICK N \in Extensions : N.src1 = M.dst /\ N.dst = r
    BY <1>8
  <2>3. K = N
    BY <1>4, <1>5, <2>1, <2>2
  <2> QED BY <1>3, <1>5, <2>1, <2>2, <2>3
<1> QED BY <1>1, <1>2, <1>6, <1>7, <1>8

(* What an instruction adds to the registers of a block.                   *)
LEMMA NothingHeld ==
  ASSUME NEW c, NEW v, NEW r
  PROVE  ~Holds(c, 1, v, r) /\ ~Extended(c, 1, v, r)
<1>1. 1..(1 - 1) = {}
  OBVIOUS
<1> QED BY <1>1 DEF Holds, Extended

LEMMA HoldsMore ==
  ASSUME NEW c, NEW q \in Nat \ {0}, NEW v, NEW r, Holds(c, q + 1, v, r)
  PROVE  \/ c[q].op = "load" /\ c[q].src1 = v /\ c[q].dst = r
         \/ /\ Holds(c, q, v, r)
            /\ ~(c[q].op = "load" /\ c[q].src1 = v) /\ ~(c[q].op = "sext" /\ c[q].src1 = r)
<1>1. PICK m \in 1..((q + 1) - 1) : /\ c[m].op = "load" /\ c[m].src1 = v /\ c[m].dst = r
                                    /\ Untouched(c, m, q + 1, v, r)
  BY DEF Holds
<1>2. CASE m = q
  BY <1>1, <1>2
<1>3. CASE m # q
  <2>1. m \in 1..(q - 1) /\ q \in (m + 1)..((q + 1) - 1)
        /\ (m + 1)..(q - 1) \subseteq (m + 1)..((q + 1) - 1)
    BY <1>3
  <2>2. Untouched(c, m, q, v, r)
    BY <1>1, <2>1 DEF Untouched
  <2>3. ~(c[q].op = "load" /\ c[q].src1 = v) /\ ~(c[q].op = "sext" /\ c[q].src1 = r)
    BY <1>1, <2>1 DEF Untouched
  <2> QED BY <1>1, <2>1, <2>2, <2>3 DEF Holds
<1> QED BY <1>2, <1>3

LEMMA ExtendedMore ==
  ASSUME NEW c, NEW q \in Nat \ {0}, NEW v, NEW r, Extended(c, q + 1, v, r)
  PROVE  \/ c[q].op = "sext" /\ c[q].dst = r /\ Holds(c, q, v, c[q].src1)
         \/ /\ Extended(c, q, v, r)
            /\ ~(c[q].op = "load" /\ c[q].src1 = v) /\ ~(c[q].op = "sext" /\ c[q].src1 = r)
<1>1. PICK m \in 1..((q + 1) - 1) : /\ c[m].op = "sext" /\ c[m].dst = r
                                    /\ Holds(c, m, v, c[m].src1) /\ Untouched(c, m, q + 1, v, r)
  BY DEF Extended
<1>2. CASE m = q
  BY <1>1, <1>2
<1>3. CASE m # q
  <2>1. m \in 1..(q - 1) /\ q \in (m + 1)..((q + 1) - 1)
        /\ (m + 1)..(q - 1) \subseteq (m + 1)..((q + 1) - 1)
    BY <1>3
  <2>2. Untouched(c, m, q, v, r)
    BY <1>1, <2>1 DEF Untouched
  <2>3. ~(c[q].op = "load" /\ c[q].src1 = v) /\ ~(c[q].op = "sext" /\ c[q].src1 = r)
    BY <1>1, <2>1 DEF Untouched
  <2> QED BY <1>1, <2>1, <2>2, <2>3 DEF Extended
<1> QED BY <1>2, <1>3

-----------------------------------------------------------------------------
(* The steps: up to the first instruction of a block, and one instruction. *)
Walking ==
  \/ ParseAllocas \/ ParseLoopPreheader \/ HeaderLoad \/ HeaderCompare \/ AllLoops
  \/ EnterBlock \/ LeaveBlock \/ AllBlocks
Reading ==
  Store \/ LoadIterator \/ Load \/ Add \/ SignExtend \/ Other \/ Pointer \/ OtherPointer

LEMMA NextCases ==
  ASSUME [Next]_vars
  PROVE  UNCHANGED vars \/ Walking \/ Reading
BY DEF Next, Finished, Walking, Reading

LEMMA SameTables ==
  ASSUME UNCHANGED vars
  PROVE  /\ prog' = prog /\ UNCHANGED <<pc, loop, block, pos>>
         /\ UNCHANGED <<iteratorsAliasMap, aliasInfoMap, arraysInfoMap, combinedIteratorsMap,
                        combinedIterators, tmpPointerStruct, pointerInfoMap, validBBs>>
         /\ UNCHANGED LIT /\ Code' = Code /\ BlockId' = BlockId
BY DEF vars, place, combined, pointers, LIT, Code, BlockId

LEMMA WalkingStep ==
  ASSUME TypeInv, Walking
  PROVE  /\ prog' = prog /\ pc' # "alloca"
         /\ InBlock' => pos' = 1 /\ pc = "blocks"
         /\ UNCHANGED <<combinedIteratorsMap, combinedIterators, tmpPointerStruct, pointerInfoMap>>
         /\ ParseAllocas \/ UNCHANGED arraysInfoMap
         /\ ParseAllocas \/ HeaderLoad \/ UNCHANGED aliasInfoMap
         /\ ParseLoopPreheader \/ HeaderLoad \/ UNCHANGED iteratorsAliasMap
<1>1. pos \in Nat
  BY DEF TypeInv, PlaceOK
<1>2. CASE ParseAllocas
  BY <1>2 DEF ParseAllocas, InBlock, combined, pointers
<1>3. CASE ParseLoopPreheader
  BY <1>3 DEF ParseLoopPreheader, InBlock, combined, pointers
<1>4. CASE HeaderLoad
  BY <1>4 DEF HeaderLoad, InBlock, combined, pointers
<1>5. CASE HeaderCompare
  BY <1>5 DEF HeaderCompare, InBlock, combined, pointers
<1>6. CASE AllLoops \/ LeaveBlock \/ AllBlocks
  BY <1>6 DEF AllLoops, LeaveBlock, AllBlocks, InBlock, combined, pointers
<1>7. CASE EnterBlock
  BY <1>7 DEF EnterBlock, InBlock, combined, pointers
<1> QED BY <1>2, <1>3, <1>4, <1>5, <1>6, <1>7 DEF Walking

LEMMA ReadingStep ==
  ASSUME TypeInv, Reading
  PROVE  /\ InBlock /\ prog' = prog /\ UNCHANGED LIT /\ UNCHANGED validBBs
         /\ BlockId \in DOMAIN prog.code /\ Code = prog.code[BlockId]
         /\ pos \in DOMAIN Code /\ pos \in Nat \ {0} /\ I = Code[pos]
         /\ I \in Instructions /\ I \in InstructionsOf(prog)
         /\ pos' = pos + 1 /\ Code' = Code /\ BlockId' = BlockId /\ block' = block /\ loop' = loop
         /\ pc' \in {"blocks", "undefined"}
<1>1. PICK ops : Reads(ops)
  BY DEF Reading, Store, LoadIterator, Load, Add, SignExtend, Other, Pointer, OtherPointer
<1>2. /\ pc = "blocks" /\ block <= Len(prog.blocks) /\ pos \in DOMAIN Code
      /\ pos' = pos + 1 /\ UNCHANGED <<prog, loop, block, validBBs>> /\ UNCHANGED LIT
  BY <1>1 DEF Reads
<1>3. BlockId \in DOMAIN prog.code
  BY <1>2, Program DEF BlockId, TypeInv, PlaceOK
<1>4. I \in Instructions
  BY <1>1, ReadsInstruction
<1>5. I \in InstructionsOf(prog)
  BY <1>2, <1>3, PlaceOfInstruction DEF I, Code
<1>6. pos \in Nat \ {0}
  BY <1>2, <1>3, Program DEF Code, TypeInv
<1>7. Code' = Code /\ BlockId' = BlockId
  BY <1>2 DEF Code, BlockId
<1>8. \A reg, struct, sizes : SetPointerInfo(reg, struct, sizes) => pc' \in {pc, "undefined"}
  BY DEF SetPointerInfo
<1>9. pc' \in {pc, "undefined"}
  BY <1>8 DEF Reading, Store, LoadIterator, Load, Add, SignExtend, Other, Pointer, OtherPointer
<1> QED BY <1>2, <1>3, <1>4, <1>5, <1>6, <1>7, <1>9 DEF InBlock, I, Code

(* What says of the program alone stays when the program does.             *)
LEMMA SameLayout ==
  ASSUME prog' = prog
  PROVE  /\ InstructionsOf(prog)' = InstructionsOf(prog) /\ HeaderLoadsOf(prog)' = HeaderLoadsOf(prog)
         /\ IteratorsOf(prog)' = IteratorsOf(prog) /\ Pointers' = Pointers
         /\ Extensions' = Extensions /\ Plain' = Plain
         /\ \A v, r : RegisterOf(v, r)' = RegisterOf(v, r)
         /\ \A k, b, a : SumIn(k, b, a)' = SumIn(k, b, a)
         /\ \A a, r : Owns(a, r)' = Owns(a, r)
         /\ \A p : Handled(p)' = Handled(p)
<1>1. Pointers' = Pointers
  BY DEF Pointers
<1>2. Extensions' = Extensions
  BY DEF Extensions
<1>3. Plain' = Plain
  BY SameProgram DEF Plain
<1>4. \A v : LoadsOf(v)' = LoadsOf(v)
  BY DEF LoadsOf
<1>5. \A v, r : RegisterOf(v, r)' = RegisterOf(v, r)
  BY <1>2, <1>4 DEF RegisterOf
<1>6. \A k, b, a : SumIn(k, b, a)' = SumIn(k, b, a)
  BY <1>2 DEF SumIn
<1>7. \A a, r : Owns(a, r)' = Owns(a, r)
  BY <1>1 DEF Owns
<1>8. \A p : Handled(p)' = Handled(p)
  BY DEF Handled
<1> QED BY <1>1, <1>2, <1>3, <1>5, <1>6, <1>7, <1>8

LEMMA PlainLoops ==
  ASSUME prog \in Programs, Plain
  PROVE  /\ OwnIterators
         /\ \A n \in Loops : prog.loops[n].loads[1].src1 = IteratorOf(n)
                             /\ DOMAIN prog.loops[n].loads = 1..1
         /\ IteratorsOf(prog) = {IteratorOf(n) : n \in Loops}
<1>1. \A n \in Loops : /\ Len(prog.loops[n].loads) = 1
                       /\ DOMAIN prog.loops[n].loads = 1..Len(prog.loops[n].loads)
                       /\ prog.loops[n].loads[1].src1 = IteratorOf(n)
  BY LoopsOfProgram DEF Plain, PlainLoop
<1>2. \A n \in Loops : DOMAIN prog.loops[n].loads = 1..1
  BY <1>1
<1>3. ASSUME NEW n \in Loops, NEW m \in 1..(n - 1), NEW J \in Range(prog.loops[m].loads)
      PROVE  J.src1 # IteratorOf(n)
  <2>1. m \in Loops /\ m # n
    BY LoopsOfProgram
  <2>2. J = prog.loops[m].loads[1]
    BY <1>2, <2>1 DEF Range
  <2>3. IteratorOf(m) # IteratorOf(n)
    BY <2>1 DEF Plain, PlainLoop
  <2> QED BY <1>1, <2>1, <2>2, <2>3
<1>4. IteratorsOf(prog) = {IteratorOf(n) : n \in Loops}
  BY DEF IteratorsOf, IteratorOf, Loops
<1> QED BY <1>1, <1>2, <1>3, <1>4 DEF OwnIterators

(* A register that holds an iterator was written by a load of it.          *)
LoadedInto(v, r) == \E J \in LoadsOf(v) : J \in InstructionsOf(prog) /\ J.dst = r

LEMMA HeldByLoad ==
  ASSUME prog \in Programs, NEW b \in DOMAIN prog.code,
         NEW q \in 1..(Len(prog.code[b]) + 1), NEW v, NEW r, Holds(prog.code[b], q, v, r)
  PROVE  LoadedInto(v, r)
<1> DEFINE c == prog.code[b]
<1>1. PICK m \in 1..(q - 1) : c[m].op = "load" /\ c[m].src1 = v /\ c[m].dst = r
  BY DEF Holds
<1>2. DOMAIN c = 1..Len(c) /\ Len(c) \in Nat
  <2>1. c \in Seq(Instructions)
    BY ProgramsAssumption
  <2> HIDE DEF c
  <2> QED BY <2>1
<1>3. m \in DOMAIN c
  BY <1>2
<1>4. c[m] \in InstructionsOf(prog)
  BY <1>3, PlaceOfInstruction
<1> QED BY <1>1, <1>4 DEF LoadsOf, LoadedInto

(* The register of a sum was written by an addition, or extended from one. *)
LEMMA SumIsNoLoad ==
  ASSUME prog \in Programs, NEW b \in DOMAIN prog.code, NEW a \in DOMAIN prog.code[b],
         NEW k, SumIn(k, b, a), NEW v, NEW J \in LoadsOf(v)
  PROVE  /\ k # J.dst
         /\ \A K \in Extensions : K.src1 = J.dst => K.dst # k
         /\ k # NoPtr
<1>1. prog.code[b][a] \in InstructionsOf(prog) /\ prog.code[b][a].op = "add"
  BY PlaceOfInstruction DEF SumIn
<1>2. /\ J \in Writers /\ prog.code[b][a] \in Writers /\ Extensions \subseteq Writers
      /\ J.op = "load" /\ \A K \in Extensions : K.op = "sext"
  BY <1>1 DEF Writers, LoadsOf, Extensions
<1>3. (\A A, B \in Writers : A.dst = B.dst => A = B) /\ \A A \in Writers : A.dst # NoPtr
  BY OneWriter DEF Writers
<1>4. CASE k = prog.code[b][a].dst
  BY <1>1, <1>2, <1>3, <1>4
<1>5. CASE \E K \in Extensions : K.src1 = prog.code[b][a].dst /\ K.dst = k
  <2>1. PICK K \in Extensions : K.src1 = prog.code[b][a].dst /\ K.dst = k
    BY <1>5
  <2>2. k # J.dst /\ k # NoPtr
    BY <1>2, <1>3, <2>1
  <2>3. ASSUME NEW M \in Extensions, M.src1 = J.dst, M.dst = k
        PROVE  FALSE
    <3>1. M = K
      BY <1>2, <1>3, <2>1, <2>3
    <3> QED BY <1>1, <1>2, <1>3, <2>1, <2>3, <3>1
  <2> QED BY <2>2, <2>3
<1> QED BY <1>4, <1>5 DEF SumIn

LEMMA IteratorsRead ==
  ASSUME TypeInv, IteratorsHeld, SumsHeld, Reading
  PROVE  IteratorsHeld'
<1>1. /\ InBlock /\ prog' = prog /\ BlockId \in DOMAIN prog.code /\ Code = prog.code[BlockId]
      /\ pos \in DOMAIN Code /\ pos \in Nat \ {0} /\ I = Code[pos]
      /\ I \in InstructionsOf(prog) /\ pos' = pos + 1 /\ Code' = Code
      /\ prog \in Programs
  BY ReadingStep DEF TypeInv
<1>2. pos \in 1..(Len(Code) + 1)
  BY <1>1, Program
<1> DEFINE m == iteratorsAliasMap
           Its == IteratorsOf(prog)
<1>3. /\ DOMAIN m = Its
      /\ \A v \in Its : RegisterOf(v, m[v])
      /\ \A v \in Its : \A r \in Nat :
           Holds(Code, pos, v, r) \/ Extended(Code, pos, v, r) => m[v] = r
  BY <1>1 DEF IteratorsHeld, InBlock
<1>4. \/ I.op = "load" /\ I.src1 \in Its /\ m' = Assign(m, I.src1, I.dst)
      \/ I.op = "load" /\ I.src1 \notin Its /\ m' = m
      \/ I.op = "sext" /\ I.src1 \in DOMAIN combinedIteratorsMap /\ m' = m
      \/ /\ I.op = "sext" /\ I.src1 \notin DOMAIN combinedIteratorsMap
         /\ m' = [v \in DOMAIN m |-> IF m[v] = I.src1 THEN I.dst ELSE m[v]]
      \/ I.op \notin {"load", "sext"} /\ m' = m
  BY <1>3 DEF Reading, Store, LoadIterator, Load, Add, SignExtend, Other, Pointer, OtherPointer, Reads
<1>5. DOMAIN m' = Its
  BY <1>3, <1>4 DEF Assign
<1>6. ASSUME NEW v \in Its
      PROVE  RegisterOf(v, m'[v])
  <2>1. CASE m'[v] = m[v]
    BY <1>3, <2>1
  <2>2. CASE I.op = "load" /\ v = I.src1 /\ m'[v] = I.dst
    BY <1>1, <2>2 DEF RegisterOf, LoadsOf
  <2>3. CASE I.op = "sext" /\ m[v] = I.src1 /\ m'[v] = I.dst
    <3>1. PICK J \in LoadsOf(v) : m[v] = J.dst \/ \E K \in Extensions : K.src1 = J.dst /\ K.dst = m[v]
      BY <1>3 DEF RegisterOf
    <3>2. I \in Extensions
      BY <1>1, <2>3 DEF Extensions
    <3>3. \A K \in Extensions : K.src1 = J.dst => K.dst # I.src1
      BY <1>1, <3>2, Extending DEF LoadsOf
    <3>4. m[v] = J.dst
      BY <2>3, <3>1, <3>3
    <3> QED BY <2>3, <3>2, <3>4 DEF RegisterOf
  <2> QED BY <1>3, <1>4, <2>1, <2>2, <2>3 DEF Assign
<1>7. ASSUME NEW v \in Its, NEW r \in Nat, Holds(Code, pos + 1, v, r) \/ Extended(Code, pos + 1, v, r)
      PROVE  m'[v] = r
  <2>1. CASE I.op = "load" /\ I.src1 = v /\ I.dst = r
    BY <1>3, <1>4, <2>1 DEF Assign
  <2>2. CASE /\ m[v] = r
             /\ ~(I.op = "load" /\ I.src1 = v) /\ ~(I.op = "sext" /\ I.src1 = r)
    BY <1>3, <1>4, <2>2 DEF Assign
  <2>3. CASE I.op = "sext" /\ I.dst = r /\ Holds(Code, pos, v, I.src1)
    <3>1. I.src1 \in Nat
      BY ReadingStep DEF Instructions
    <3>2. m[v] = I.src1
      BY <1>3, <2>3, <3>1
    <3>3. PICK J \in LoadsOf(v) : J.dst = I.src1
      <4>1. Holds(prog.code[BlockId], pos, v, I.src1) /\ pos \in 1..(Len(prog.code[BlockId]) + 1)
        BY <1>1, <1>2, <2>3
      <4>2. prog \in Programs /\ BlockId \in DOMAIN prog.code
        BY <1>1
      <4>3. LoadedInto(v, I.src1)
        BY <4>1, <4>2, HeldByLoad
      <4> QED BY <4>3 DEF LoadedInto
    <3>4. I.src1 \notin DOMAIN combinedIteratorsMap
      BY <1>1, <3>3, SumIsNoLoad DEF SumsHeld
    <3> QED BY <1>3, <1>4, <2>3, <3>2, <3>4
  <2>4. CASE Holds(Code, pos + 1, v, r)
    BY <1>1, <1>3, <2>1, <2>2, <2>4, HoldsMore
  <2>5. CASE Extended(Code, pos + 1, v, r)
    BY <1>1, <1>3, <2>2, <2>3, <2>5, ExtendedMore
  <2> QED BY <1>7, <2>4, <2>5
<1> QED BY <1>1, <1>5, <1>6, <1>7, SameLayout DEF IteratorsHeld

(* A preheader or a header loads an iterator.                              *)
LEMMA IteratorLoads ==
  ASSUME LoopInv, Plain, IteratorsHeld, ParseLoopPreheader \/ HeaderLoad
  PROVE  /\ DOMAIN iteratorsAliasMap' \subseteq IteratorsOf(prog)
         /\ \A v \in DOMAIN iteratorsAliasMap' : RegisterOf(v, iteratorsAliasMap'[v])
<1> DEFINE m == iteratorsAliasMap
           Its == IteratorsOf(prog)
<1>1. /\ prog \in Programs /\ loop \in Nat \ {0} /\ loop <= Len(prog.loops)
      /\ loop \in Loops /\ L = prog.loops[loop] /\ L.it = IteratorOf(loop)
  <2>1. prog \in Programs /\ loop \in Nat \ {0} /\ loop <= Len(prog.loops)
    BY Program DEF LoopInv, TypeInv, PlaceOK, ParseLoopPreheader, HeaderLoad
  <2> QED BY <2>1, LoopsOfProgram DEF L, IteratorOf
<1>2. DOMAIN m \subseteq Its /\ \A v \in DOMAIN m : RegisterOf(v, m[v])
  BY DEF IteratorsHeld
<1>3. CASE ParseLoopPreheader
  <2> DEFINE code == prog.code[L.preheader]
             loads(v) == {n \in DOMAIN code : code[n].op = "load" /\ code[n].src1 = v}
  <2>1. m' = [v \in DOMAIN m |-> IF loads(v) = {} THEN m[v] ELSE code[Latest(loads(v))].dst]
    BY <1>3 DEF ParseLoopPreheader, LoadedIterators
  <2>2. L.preheader \in DOMAIN prog.code /\ DOMAIN code = 1..Len(code) /\ Len(code) \in Nat
    <3>1. L.preheader \in DOMAIN prog.code
      BY <1>1, Program DEF Loops
    <3>2. code \in Seq(Instructions)
      BY <1>1, <3>1, ProgramsAssumption
    <3> HIDE DEF code
    <3> QED BY <3>1, <3>2
  <2>3. ASSUME NEW v \in DOMAIN m, loads(v) # {}
        PROVE  Latest(loads(v)) \in loads(v)
    <3> DEFINE S == loads(v)
    <3>1. S \subseteq 1..Len(code) /\ S # {}
      BY <2>2, <2>3
    <3> HIDE DEF loads, code
    <3>2. \E n \in S : \A k \in S : k <= n
      <4> DEFINE T == {Len(code) - n : n \in S}
      <4>1. T \subseteq Nat /\ T # {}
        BY <2>2, <3>1
      <4>2. PICK t \in T : \A u \in T : t <= u
        <5> HIDE DEF T
        <5> QED BY <4>1, LeastNumber
      <4>3. PICK n \in S : t = Len(code) - n
        BY <4>2
      <4>4. \A k \in S : Len(code) - n <= Len(code) - k
        BY <4>2, <4>3
      <4>5. \A k \in S : k <= n
        BY <2>2, <3>1, <4>4
      <4> QED BY <4>5
    <3> QED BY <3>2 DEF Latest
  <2>4. ASSUME NEW v \in DOMAIN m
        PROVE  RegisterOf(v, m'[v])
    <3>1. CASE loads(v) = {}
      <4>1. m'[v] = m[v]
        BY <2>1, <3>1
      <4> QED BY <1>2, <4>1
    <3>2. CASE loads(v) # {}
      <4>1. PICK n \in loads(v) : m'[v] = code[n].dst
        BY <2>1, <2>3, <3>2
      <4>2. code[n] \in InstructionsOf(prog)
        BY <2>2, PlaceOfInstruction
      <4>3. code[n] \in LoadsOf(v)
        BY <4>2 DEF LoadsOf
      <4> HIDE DEF m, loads
      <4> QED BY <4>1, <4>3, Zenon DEF RegisterOf
    <3> QED BY <3>1, <3>2
  <2>5. DOMAIN m' = DOMAIN m
    BY <2>1
  <2> QED BY <1>2, <2>4, <2>5
<1>4. CASE HeaderLoad
  <2> DEFINE J == L.loads[pos]
             v == IteratorOf(loop)
  <2>1. pc = "header" /\ pos <= Len(L.loads) /\ PlainLoop(loop)
    BY <1>1, <1>4 DEF HeaderLoad, Plain
  <2>2. J.src1 = v /\ J \in HeaderLoadsOf(prog)
    <3>1. Len(L.loads) = 1 /\ DOMAIN L.loads = 1..Len(L.loads) /\ L.loads[1].src1 = v
      BY <1>1, <2>1, LoopsOfProgram DEF PlainLoop
    <3>2. pos \in 1..(Len(L.loads) + 1)
      BY <2>1 DEF LoopInv, HeaderOK
    <3>3. pos = 1 /\ pos \in DOMAIN L.loads
      BY <2>1, <3>1, <3>2
    <3>4. J \in Range(L.loads)
      BY <3>3 DEF Range
    <3> QED BY <1>1, <3>1, <3>3, <3>4 DEF HeaderLoadsOf, Loops
  <2>3. v \in DOMAIN initValuesMap
    BY <1>1, <2>1 DEF LoopInv, HeaderOK
  <2>4. \/ m' = Assign(m, v, J.dst)
        \/ m' = Insert(m, v, J.dst) /\ v \notin DOMAIN m
    <3> DEFINE known == J.src1 \in DOMAIN initValuesMap
               key == IF known THEN J.src1 ELSE EndKey(initValuesMap)
    <3>1. \/ m' = Assign(m, J.src1, J.dst)
          \/ m' = Insert(m, key, J.dst) /\ J.src1 \notin DOMAIN m
      BY <1>4 DEF HeaderLoad
    <3>2. J.src1 = v /\ key = v
      BY <2>2, <2>3
    <3> HIDE DEF key, J, v
    <3> QED BY <3>1, <3>2
  <2>5. J \in LoadsOf(v)
    <3>1. J.op = "load"
      BY <1>1, <2>2, AccessesAssumption DEF RegistersAssumption
    <3> QED BY <2>2, <3>1 DEF LoadsOf
  <2>6. RegisterOf(v, J.dst) /\ v \in Its
    BY <1>1, <2>5 DEF RegisterOf, IteratorsOf, IteratorOf, Loops
  <2> HIDE DEF J, v
  <2>7. /\ DOMAIN m' \subseteq DOMAIN m \cup {v}
        /\ \A w \in DOMAIN m' : m'[w] = IF w = v THEN J.dst ELSE m[w]
    BY <2>4 DEF Assign, Insert
  <2> QED BY <1>2, <2>6, <2>7
<1> QED BY <1>3, <1>4

LEMMA IteratorsWalk ==
  ASSUME LoopInv, Plain, IteratorsHeld, Walking
  PROVE  IteratorsHeld'
<1> DEFINE m == iteratorsAliasMap
           Its == IteratorsOf(prog)
<1>1. /\ prog' = prog
      /\ InBlock' => pos' = 1
      /\ ParseLoopPreheader \/ HeaderLoad \/ UNCHANGED m
      /\ prog \in Programs
  BY WalkingStep DEF LoopInv, TypeInv
<1>2. DOMAIN m' \subseteq Its /\ \A v \in DOMAIN m' : RegisterOf(v, m'[v])
  <2>1. CASE ParseLoopPreheader \/ HeaderLoad
    BY <2>1, IteratorLoads
  <2>2. CASE UNCHANGED m
    BY <2>2 DEF IteratorsHeld
  <2> QED BY <1>1, <2>1, <2>2
<1>3. pc' \in {"blocks", "done"} => Its \subseteq DOMAIN m'
  <2>1. CASE AllLoops
    <3>1. pc = "loops" /\ loop > Len(prog.loops) /\ UNCHANGED m
      BY <2>1 DEF AllLoops
    <3>2. loop = Len(prog.loops) + 1 /\ Len(prog.loops) \in Nat
      <4>1. loop \in 1..(Len(prog.loops) + 1) /\ Len(prog.loops) \in Nat
        BY <1>1, LoopsOfProgram DEF LoopInv, TypeInv, PlaceOK
      <4> QED BY <3>1, <4>1
    <3>3. Early /\ HeadersRead = 1..Len(prog.loops)
      BY <3>1, <3>2 DEF Early, HeadersRead
    <3>4. \A n \in Loops : IteratorOf(n) \in DOMAIN m
      BY <1>1, <3>3, PlainLoops, LoopsOfProgram DEF LoopInv, AliasesOK, Plain
    <3> QED BY <1>1, <3>1, <3>4, PlainLoops
  <2>2. CASE EnterBlock \/ LeaveBlock \/ AllBlocks
    BY <2>2 DEF EnterBlock, LeaveBlock, AllBlocks, IteratorsHeld
  <2>3. CASE ParseAllocas \/ ParseLoopPreheader \/ HeaderLoad \/ HeaderCompare
    <3>1. pc' = "loops" \/ pc' = "undefined" \/ pc' = "header"
      BY <2>3 DEF ParseAllocas, ParseLoopPreheader, HeaderLoad, HeaderCompare
    <3> QED BY <3>1
  <2> QED BY <2>1, <2>2, <2>3 DEF Walking
<1>4. InBlock' => \A v, r : ~Holds(Code', pos', v, r) /\ ~Extended(Code', pos', v, r)
  <2> SUFFICES ASSUME InBlock', NEW v, NEW r
               PROVE  ~Holds(Code', pos', v, r) /\ ~Extended(Code', pos', v, r)
    OBVIOUS
  <2>1. ~Holds(Code', 1, v, r) /\ ~Extended(Code', 1, v, r)
    BY NothingHeld
  <2>2. pos' = 1
    BY <1>1
  <2> QED BY <2>1, <2>2
<1> HIDE DEF m, Its
<1>5. InBlock' => \A v \in Its : \A r \in Nat :
        Holds(Code', pos', v, r) \/ Extended(Code', pos', v, r) => m'[v] = r
  BY <1>4
<1> QED BY <1>1, <1>2, <1>3, <1>5, SameLayout DEF IteratorsHeld, m, Its

(* The iterator in a register that the block has written.                  *)
LEMMA HeldIterator ==
  ASSUME TypeInv, IteratorsHeld, InBlock, NEW v \in IteratorsOf(prog), NEW r \in Nat,
         Holds(Code, pos, v, r) \/ Extended(Code, pos, v, r)
  PROVE  IteratorsIn(r) = {v}
<1>1. /\ prog \in Programs /\ DOMAIN iteratorsAliasMap = IteratorsOf(prog)
      /\ iteratorsAliasMap[v] = r
      /\ \A w \in IteratorsOf(prog) : RegisterOf(w, iteratorsAliasMap[w])
  BY DEF TypeInv, IteratorsHeld, InBlock
<1>2. ASSUME NEW w \in IteratorsOf(prog), iteratorsAliasMap[w] = r
      PROVE  w = v
  <2>1. RegisterOf(w, r) /\ RegisterOf(v, r)
    BY <1>1, <1>2
  <2> QED BY <1>1, <2>1, OneIterator
<1> QED BY <1>1, <1>2 DEF IteratorsIn

LEMMA NoIteratorInNoPtr ==
  ASSUME TypeInv, IteratorsHeld
  PROVE  IteratorsIn(NoPtr) = {}
<1> SUFFICES ASSUME NEW v \in DOMAIN iteratorsAliasMap, iteratorsAliasMap[v] = NoPtr
             PROVE  FALSE
  BY DEF IteratorsIn
<1>1. RegisterOf(v, NoPtr) /\ prog \in Programs
  BY DEF IteratorsHeld, TypeInv
<1>2. PICK J \in LoadsOf(v) : NoPtr = J.dst \/ \E K \in Extensions : K.src1 = J.dst /\ K.dst = NoPtr
  BY <1>1 DEF RegisterOf
<1>3. LoadsOf(v) \subseteq Writers /\ Extensions \subseteq Writers
  BY DEF LoadsOf, Extensions, Writers
<1>4. \A K \in Writers : K.dst # NoPtr
  BY <1>1, OneWriter
<1> QED BY <1>2, <1>3, <1>4

(* An addition that may become an index is entered with the iterators that *)
(* were loaded into its operands.                                          *)
EntersSum(x) ==
  \E e : /\ Index(e.iterators, e.constant) = x
         /\ combinedIteratorsMap' = Insert(combinedIteratorsMap, I.dst, e)

LEMMA SumEntered ==
  ASSUME TypeInv, IteratorsHeld, Add, NEW x, AddsUp(prog, Code, pos, x)
  PROVE  EntersSum(x)
<1> DEFINE first == IteratorsIn(I.src1)
           second == IteratorsIn(I.src2) \ first
           Entry(its, c) == Insert(combinedIteratorsMap, I.dst, IndexOp(its, c, "add"))
<1>1. /\ InBlock /\ I = Code[pos] /\ I.src1 \in Nat /\ I.src2 \in Nat
  BY ReadingStep DEF Reading, Instructions
<1>2. combinedIteratorsMap' =
        IF first # {} /\ second # {}
        THEN Entry(<<CHOOSE v \in first : TRUE, CHOOSE v \in second : TRUE>>, 0)
        ELSE IF first # {} /\ I.src2 = NoPtr
        THEN Entry(<<CHOOSE v \in first : TRUE>>, I.const)
        ELSE combinedIteratorsMap
  BY DEF Add
<1>3. \A v : (CHOOSE w \in {v} : TRUE) = v
  OBVIOUS
<1>4. \A its, c : /\ Index(IndexOp(its, c, "add").iterators, IndexOp(its, c, "add").constant) = Index(its, c)
  BY DEF IndexOp
<1>5. CASE \E v \in IteratorsOf(prog) : /\ Holds(Code, pos, v, I.src1) /\ I.src2 = NoPtr
                                        /\ x = Index(<<v>>, I.const)
  <2>1. PICK v \in IteratorsOf(prog) : /\ Holds(Code, pos, v, I.src1) /\ I.src2 = NoPtr
                                       /\ x = Index(<<v>>, I.const)
    BY <1>5
  <2>2. first = {v}
    BY <1>1, <2>1, HeldIterator
  <2>3. IteratorsIn(I.src2) = {}
    BY <2>1, NoIteratorInNoPtr
  <2>4. combinedIteratorsMap' = Entry(<<v>>, I.const)
    BY <1>2, <1>3, <2>1, <2>2, <2>3
  <2> QED BY <1>4, <2>1, <2>4 DEF EntersSum
<1>6. CASE \E v, w \in IteratorsOf(prog) : /\ v # w /\ Holds(Code, pos, v, I.src1)
                                           /\ Holds(Code, pos, w, I.src2) /\ x = Index(<<v, w>>, 0)
  <2>1. PICK v \in IteratorsOf(prog), w \in IteratorsOf(prog) :
          /\ v # w /\ Holds(Code, pos, v, I.src1)
          /\ Holds(Code, pos, w, I.src2) /\ x = Index(<<v, w>>, 0)
    BY <1>6
  <2>2. first = {v}
    BY <1>1, <2>1, HeldIterator
  <2>3. IteratorsIn(I.src2) = {w}
    BY <1>1, <2>1, HeldIterator
  <2>4. second = {w}
    BY <2>1, <2>2, <2>3
  <2>5. first # {} /\ second # {}
    BY <2>2, <2>4
  <2>6. (CHOOSE u \in first : TRUE) = v /\ (CHOOSE u \in second : TRUE) = w
    BY <1>3, <2>2, <2>4
  <2>7. combinedIteratorsMap' = Entry(<<v, w>>, 0)
    BY <1>2, <2>5, <2>6
  <2> QED BY <1>4, <2>1, <2>7 DEF EntersSum
<1> QED BY <1>1, <1>5, <1>6 DEF AddsUp

LEMMA SumsWalk ==
  ASSUME TypeInv, SumsHeld, Walking
  PROVE  SumsHeld'
<1>1. prog' = prog /\ combinedIteratorsMap' = combinedIteratorsMap
  BY WalkingStep
<1>2. InBlock' => 1..(pos' - 1) = {}
  <2>1. InBlock' => pos' = 1
    BY WalkingStep
  <2>2. 1..(1 - 1) = {}
    OBVIOUS
  <2> QED BY <2>1, <2>2
<1>3. \A k, b, a : SumIn(k, b, a)' <=> SumIn(k, b, a)
  BY <1>1, SameLayout, Zenon
<1>4. \A k \in DOMAIN combinedIteratorsMap' :
        \E b \in DOMAIN prog'.code : \E a \in DOMAIN prog'.code[b] :
          /\ SumIn(k, b, a)'
          /\ \A x : AddsUp(prog', prog'.code[b], a, x) =>
               Index(combinedIteratorsMap'[k].iterators, combinedIteratorsMap'[k].constant) = x
  <2> SUFFICES ASSUME NEW k \in DOMAIN combinedIteratorsMap
               PROVE  \E b \in DOMAIN prog.code : \E a \in DOMAIN prog.code[b] :
                        /\ SumIn(k, b, a)'
                        /\ \A x : AddsUp(prog, prog.code[b], a, x) =>
                             Index(combinedIteratorsMap[k].iterators,
                                   combinedIteratorsMap[k].constant) = x
    BY <1>1, Zenon
  <2>1. \E b \in DOMAIN prog.code : \E a \in DOMAIN prog.code[b] :
          /\ SumIn(k, b, a)
          /\ \A x : AddsUp(prog, prog.code[b], a, x) =>
               Index(combinedIteratorsMap[k].iterators, combinedIteratorsMap[k].constant) = x
    BY Zenon DEF SumsHeld
  <2> QED BY <1>3, <2>1, Zenon
<1> QED BY <1>2, <1>4, Zenon DEF SumsHeld

(* What an instruction makes of combinedIteratorsMap.                      *)
LEMMA SumsMoved ==
  ASSUME TypeInv, Reading
  PROVE  \/ combinedIteratorsMap' = combinedIteratorsMap /\ I.op # "sext"
         \/ I.op = "sext" /\ I.src1 \notin DOMAIN combinedIteratorsMap
            /\ combinedIteratorsMap' = combinedIteratorsMap
         \/ /\ Add /\ I.op = "add"
            /\ \E e : combinedIteratorsMap' = Insert(combinedIteratorsMap, I.dst, e)
         \/ /\ I.op = "sext" /\ I.src1 \in DOMAIN combinedIteratorsMap
            /\ combinedIteratorsMap' = Insert(Erase(combinedIteratorsMap, I.src1), I.dst,
                                              combinedIteratorsMap[I.src1])
<1>1. CASE Store \/ LoadIterator \/ Load \/ Other \/ Pointer \/ OtherPointer
  BY <1>1 DEF Store, LoadIterator, Load, Other, Pointer, OtherPointer, combined, Reads
<1>2. CASE SignExtend
  BY <1>2 DEF SignExtend, combined, Reads
<1>3. CASE Add
  BY <1>3 DEF Add, Reads
<1> QED BY <1>1, <1>2, <1>3 DEF Reading

SumOf(k, e) ==
  \E b \in DOMAIN prog.code : \E a \in DOMAIN prog.code[b] :
    /\ SumIn(k, b, a)
    /\ \A x : AddsUp(prog, prog.code[b], a, x) => Index(e.iterators, e.constant) = x

LEMMA SumsReadKeys ==
  ASSUME TypeInv, IteratorsHeld, SumsHeld, Reading, NEW k \in DOMAIN combinedIteratorsMap'
  PROVE  SumOf(k, combinedIteratorsMap'[k])
<1> DEFINE m == combinedIteratorsMap
<1>1. /\ InBlock /\ BlockId \in DOMAIN prog.code /\ Code = prog.code[BlockId]
      /\ pos \in DOMAIN Code /\ I = Code[pos] /\ I \in InstructionsOf(prog)
      /\ prog \in Programs
  BY ReadingStep DEF TypeInv
<1>2. \A j \in DOMAIN m : SumOf(j, m[j])
  BY DEF SumsHeld, SumOf
<1>3. CASE k \in DOMAIN m /\ m'[k] = m[k]
  BY <1>2, <1>3
<1>4. CASE /\ Add /\ I.op = "add" /\ k = I.dst /\ k \notin DOMAIN m
           /\ \E e : m' = Insert(m, I.dst, e)
  <2>1. SumIn(k, BlockId, pos)
    BY <1>1, <1>4 DEF SumIn
  <2>2. ASSUME NEW x, AddsUp(prog, Code, pos, x)
        PROVE  Index(m'[k].iterators, m'[k].constant) = x
    <3>1. EntersSum(x)
      BY <1>4, <2>2, SumEntered
    <3>2. PICK e : Index(e.iterators, e.constant) = x /\ m' = Insert(m, I.dst, e)
      BY <3>1 DEF EntersSum
    <3>3. m'[k] = e
      BY <1>4, <3>2 DEF Insert
    <3> QED BY <3>2, <3>3
  <2> QED BY <1>1, <2>1, <2>2 DEF SumOf
<1>5. CASE /\ I.op = "sext" /\ I.src1 \in DOMAIN m /\ k = I.dst /\ m'[k] = m[I.src1]
  <2>1. PICK b \in DOMAIN prog.code : \E a \in DOMAIN prog.code[b] :
          /\ SumIn(I.src1, b, a)
          /\ \A x : AddsUp(prog, prog.code[b], a, x) =>
               Index(m[I.src1].iterators, m[I.src1].constant) = x
    BY <1>2, <1>5 DEF SumOf
  <2>2. PICK a \in DOMAIN prog.code[b] :
          /\ SumIn(I.src1, b, a)
          /\ \A x : AddsUp(prog, prog.code[b], a, x) =>
               Index(m[I.src1].iterators, m[I.src1].constant) = x
    BY <2>1
  <2>3. I \in Extensions
    BY <1>1, <1>5 DEF Extensions
  <2>4. prog.code[b][a].op = "add" /\ prog.code[b][a] \in InstructionsOf(prog)
    BY <2>2, PlaceOfInstruction DEF SumIn
  <2>5. \A K \in Extensions : K.src1 = prog.code[b][a].dst => K.dst # I.src1
    BY <1>1, <2>3, <2>4, Extending
  <2>6. I.src1 = prog.code[b][a].dst
    BY <2>2, <2>5 DEF SumIn
  <2>7. SumIn(k, b, a)
    BY <1>5, <2>3, <2>4, <2>6 DEF SumIn
  <2> HIDE DEF m
  <2>8. \A x : AddsUp(prog, prog.code[b], a, x) =>
               Index(m'[k].iterators, m'[k].constant) = x
    BY <1>5, <2>2
  <2> QED BY <2>7, <2>8 DEF SumOf, m
<1>6. \/ m' = m
      \/ /\ Add /\ I.op = "add"
         /\ \E e : m' = Insert(m, I.dst, e)
      \/ /\ I.op = "sext" /\ I.src1 \in DOMAIN m
         /\ m' = Insert(Erase(m, I.src1), I.dst, m[I.src1])
  BY SumsMoved
<1>7. CASE m' = m
  BY <1>3, <1>7
<1>8. CASE Add /\ I.op = "add" /\ \E e : m' = Insert(m, I.dst, e)
  <2>1. PICK e : m' = Insert(m, I.dst, e)
    BY <1>8
  <2> HIDE DEF m
  <2>2. (k \in DOMAIN m /\ m'[k] = m[k]) \/ (k = I.dst /\ k \notin DOMAIN m)
    <3>1. k \in DOMAIN m'
      BY DEF m
    <3>2. m' = [z \in DOMAIN m \cup {I.dst} |-> IF z \in DOMAIN m THEN m[z] ELSE e]
      BY <2>1 DEF Insert
    <3> QED BY <3>1, <3>2
  <2> QED BY <1>3, <1>4, <1>8, <2>2
<1>9. CASE /\ I.op = "sext" /\ I.src1 \in DOMAIN m
           /\ m' = Insert(Erase(m, I.src1), I.dst, m[I.src1])
  <2> HIDE DEF m
  <2>1. DOMAIN m' = (DOMAIN m \ {I.src1}) \cup {I.dst}
    BY <1>9 DEF Insert, Erase
  <2>2. k \in DOMAIN m'
    BY DEF m
  <2>3. k \in DOMAIN m \ {I.src1} => m'[k] = m[k]
    BY <1>9 DEF Insert, Erase
  <2>4. k \notin DOMAIN m \ {I.src1} => k = I.dst /\ m'[k] = m[I.src1]
    BY <1>9, <2>1, <2>2 DEF Insert, Erase
  <2> QED BY <1>3, <1>5, <1>9, <2>3, <2>4
<1> QED BY <1>6, <1>7, <1>8, <1>9

(* The sum of addition a of the block is in the register it was last       *)
(* written to, before instruction q.                                       *)
SumPresent(a, q, m) ==
  /\ (\A e \in (a + 1)..(q - 1) : ~ExtendedAt(e, a)) => Code[a].dst \in DOMAIN m
  /\ \A e \in (a + 1)..(q - 1) : ExtendedAt(e, a) => Code[e].dst \in DOMAIN m

LEMMA SumsReadBlock ==
  ASSUME TypeInv, IteratorsHeld, SumsHeld, Reading,
         NEW a \in 1..pos, NEW x, AddsUp(prog, Code, a, x)
  PROVE  SumPresent(a, pos + 1, combinedIteratorsMap')
<1> DEFINE m == combinedIteratorsMap
<1>1. /\ InBlock /\ BlockId \in DOMAIN prog.code /\ Code = prog.code[BlockId]
      /\ pos \in DOMAIN Code /\ pos \in Nat \ {0} /\ I = Code[pos] /\ I \in InstructionsOf(prog)
      /\ prog \in Programs
  BY ReadingStep DEF TypeInv
<1>2. DOMAIN Code = 1..Len(Code) /\ Len(Code) \in Nat
  <2>1. Code \in Seq(Instructions)
    BY <1>1, ProgramsAssumption
  <2> QED BY <2>1
<1>3. a < pos => SumPresent(a, pos, m)
  <2> HAVE a < pos
  <2>1. a \in 1..(pos - 1)
    BY <1>1
  <2> QED BY <1>1, <2>1 DEF SumsHeld, SumPresent
<1>4. Code[a].op = "add" /\ a \in DOMAIN Code
  BY <1>1, <1>2 DEF AddsUp
<1>5. (pos + 1) - 1 = pos /\ (a = pos \/ a < pos)
  BY <1>1
<1>6. CASE I.op # "sext" /\ DOMAIN m \subseteq DOMAIN m' /\ (a = pos => I.dst \in DOMAIN m')
  <2>1. CASE a = pos
    <3>1. (a + 1)..pos = {}
      BY <1>1, <2>1
    <3> QED BY <1>1, <1>5, <1>6, <2>1, <3>1 DEF SumPresent
  <2>2. CASE a < pos
    <3>1. /\ (a + 1)..(pos - 1) \subseteq (a + 1)..pos
          /\ \A e \in (a + 1)..pos : e = pos \/ e \in (a + 1)..(pos - 1)
      BY <1>1
    <3>2. ~ExtendedAt(pos, a)
      BY <1>1, <1>6 DEF ExtendedAt
    <3> QED BY <1>3, <1>5, <1>6, <2>2, <3>1, <3>2 DEF SumPresent
  <2> QED BY <1>5, <2>1, <2>2
<1>7. CASE I.op = "sext"
  <2>1. a < pos
    BY <1>1, <1>4, <1>5, <1>7
  <2>2. /\ (a + 1)..(pos - 1) \subseteq (a + 1)..pos
        /\ pos \in (a + 1)..pos
        /\ \A e \in (a + 1)..pos : e = pos \/ e \in (a + 1)..(pos - 1)
        /\ \A e \in (a + 1)..(pos - 1) : e \in DOMAIN Code /\ e # pos
    BY <1>1, <1>2, <2>1
  <2>3. DOMAIN m \ {I.src1} \subseteq DOMAIN m' /\ (I.src1 \in DOMAIN m => I.dst \in DOMAIN m')
    <3> HIDE DEF m
    <3>1. \/ m' = m /\ I.src1 \notin DOMAIN m
          \/ m' = Insert(Erase(m, I.src1), I.dst, m[I.src1])
      BY <1>7, SumsMoved DEF m
    <3> QED BY <3>1 DEF Insert, Erase
  <2>4. I \in Extensions
    BY <1>1, <1>7 DEF Extensions
  <2>5. ASSUME NEW e \in (a + 1)..(pos - 1), ExtendedAt(e, a)
        PROVE  Code[e].dst # I.src1 /\ I.src1 # Code[a].dst
    <3>1. Code[e] \in Extensions
      BY <1>1, <2>2, <2>5, PlaceOfInstruction DEF Extensions, ExtendedAt
    <3>2. Code[a] \in InstructionsOf(prog)
      BY <1>1, <1>4, PlaceOfInstruction
    <3>3. Code[e].src1 = Code[a].dst /\ Code[e].op = "sext"
      BY <2>5 DEF ExtendedAt
    <3>4. I.src1 # Code[e].dst
      BY <1>1, <1>4, <2>4, <3>1, <3>2, <3>3, Extending
    <3>5. ASSUME I.src1 = Code[a].dst
          PROVE  FALSE
      <4>1. Code[e] = I
        BY <1>1, <2>4, <3>1, <3>3, <3>5, Extending
      <4>2. prog.code[BlockId][e].dst = prog.code[BlockId][pos].dst
            /\ prog.code[BlockId][e].op = "sext"
        BY <1>1, <3>3, <4>1
      <4>3. e \in DOMAIN prog.code[BlockId] /\ pos \in DOMAIN prog.code[BlockId]
        BY <1>1, <2>2
      <4>4. e = pos
        BY <1>1, <4>2, <4>3, OnePlace
      <4> QED BY <2>2, <4>4
    <3> QED BY <3>4, <3>5
  <2>6. SumPresent(a, pos, m)
    BY <1>3, <2>1
  <2>7. CASE ExtendedAt(pos, a)
    <3>1. I.src1 = Code[a].dst
      BY <1>1, <2>7 DEF ExtendedAt
    <3>2. \A e \in (a + 1)..(pos - 1) : ~ExtendedAt(e, a)
      BY <2>5, <3>1
    <3>3. I.dst \in DOMAIN m'
      BY <2>3, <2>6, <3>1, <3>2 DEF SumPresent
    <3> QED BY <1>1, <1>5, <2>2, <2>7, <3>2, <3>3 DEF SumPresent
  <2>8. CASE ~ExtendedAt(pos, a)
    <3>1. I.src1 # Code[a].dst
      BY <1>1, <1>7, <2>8 DEF ExtendedAt
    <3>2. ASSUME NEW e \in (a + 1)..pos, ExtendedAt(e, a)
          PROVE  Code[e].dst \in DOMAIN m'
      <4>1. e \in (a + 1)..(pos - 1)
        BY <2>2, <2>8, <3>2
      <4> QED BY <2>3, <2>5, <2>6, <3>2, <4>1 DEF SumPresent
    <3>3. (\A e \in (a + 1)..pos : ~ExtendedAt(e, a)) => Code[a].dst \in DOMAIN m'
      BY <2>2, <2>3, <2>6, <3>1 DEF SumPresent
    <3> QED BY <1>5, <3>2, <3>3 DEF SumPresent
  <2> QED BY <2>7, <2>8
<1>8. CASE I.op # "sext"
  <2>1. (m' = m) \/ (Add /\ \E e : m' = Insert(m, I.dst, e))
    BY <1>8, SumsMoved
  <2>2. DOMAIN m \subseteq DOMAIN m'
    <3> HIDE DEF m
    <3> QED BY <2>1 DEF Insert
  <2>3. a = pos => I.dst \in DOMAIN m'
    <3> HAVE a = pos
    <3>1. Add
      <4>1. I.op = "add"
        BY <1>1, <1>4
      <4> QED BY <4>1 DEF Reading, Store, LoadIterator, Load, SignExtend, Other, Pointer, OtherPointer, Reads
    <3>2. EntersSum(x)
      BY <3>1, SumEntered
    <3>3. PICK e : m' = Insert(m, I.dst, e)
      BY <3>2 DEF EntersSum
    <3> HIDE DEF m
    <3> QED BY <3>3 DEF Insert
  <2> QED BY <1>6, <1>8, <2>2, <2>3
<1> QED BY <1>7, <1>8

LEMMA SumsRead ==
  ASSUME TypeInv, IteratorsHeld, SumsHeld, Reading
  PROVE  SumsHeld'
<1> DEFINE m == combinedIteratorsMap
<1>1. /\ prog' = prog /\ Code' = Code /\ pos' = pos + 1 /\ pos \in Nat
  BY ReadingStep
<1>2. \A k \in DOMAIN m' : SumOf(k, m'[k])
  BY SumsReadKeys
<1>3. \A a \in 1..pos : (\E x : AddsUp(prog, Code, a, x)) => SumPresent(a, pos + 1, m')
  BY SumsReadBlock
<1>4. 1..(pos' - 1) = 1..pos
  BY <1>1
<1>5. \A e, a : ExtendedAt(e, a)' = ExtendedAt(e, a)
  BY <1>1 DEF ExtendedAt
<1>6. \A k, b, a : SumIn(k, b, a)' = SumIn(k, b, a)
  BY <1>1, SameLayout
<1> HIDE DEF m
<1>7. \A k \in DOMAIN m' :
       \E b \in DOMAIN prog'.code : \E a \in DOMAIN prog'.code[b] :
         /\ SumIn(k, b, a)'
         /\ \A x : AddsUp(prog', prog'.code[b], a, x) =>
              Index(m'[k].iterators, m'[k].constant) = x
  BY <1>1, <1>2, <1>6 DEF SumOf
<1>8. \A a \in 1..(pos' - 1) : (\E x : AddsUp(prog', Code', a, x)) =>
       /\ (\A e \in (a + 1)..(pos' - 1) : ~ExtendedAt(e, a)') => Code'[a].dst \in DOMAIN m'
       /\ \A e \in (a + 1)..(pos' - 1) : ExtendedAt(e, a)' => Code'[e].dst \in DOMAIN m'
  BY <1>1, <1>3, <1>4, <1>5 DEF SumPresent
<1> QED BY <1>7, <1>8 DEF SumsHeld, m

(* The index of a pointer.                                                 *)
FindsIndex(x) == \E f : FoundIndex = {f} /\ Index(f.iterators, f.constant) = x

LEMMA SumInRegister ==
  ASSUME prog \in Programs, NEW b \in DOMAIN prog.code, NEW a \in DOMAIN prog.code[b],
         NEW k, SumIn(k, b, a)
  PROVE  k # NoPtr
<1>1. prog.code[b][a] \in Writers /\ Extensions \subseteq Writers
  BY PlaceOfInstruction DEF SumIn, Writers, Extensions
<1>2. \A J \in Writers : J.dst # NoPtr
  BY OneWriter
<1> QED BY <1>1, <1>2 DEF SumIn

LEMMA IndexFound ==
  ASSUME TypeInv, IteratorsHeld, SumsHeld, InBlock, pos \in DOMAIN Code,
         NEW x, ReadsIndex(prog, Code, pos, x)
  PROVE  FindsIndex(x)
<1> DEFINE m == combinedIteratorsMap
<1>1. /\ prog \in Programs /\ BlockId \in DOMAIN prog.code /\ Code = prog.code[BlockId]
      /\ DOMAIN Code = 1..Len(Code) /\ Len(Code) \in Nat /\ I = Code[pos]
      /\ I \in Instructions /\ pos \in Nat \ {0}
  <2>1. prog \in Programs /\ BlockId \in DOMAIN prog.code /\ Code = prog.code[BlockId]
    BY Program DEF TypeInv, InBlock, PlaceOK, BlockId, Code
  <2>2. Code \in Seq(Instructions)
    BY <2>1, ProgramsAssumption
  <2>3. DOMAIN Code = 1..Len(Code) /\ Len(Code) \in Nat /\ Code[pos] \in Instructions
    BY <2>2
  <2> QED BY <2>1, <2>3 DEF I
<1>2. I.src2 \in Nat
  BY <1>1 DEF Instructions
<1>3. \A k \in DOMAIN m : SumOf(k, m[k])
  BY DEF SumsHeld, SumOf
<1>4. NoPtr \notin DOMAIN m
  <2> SUFFICES ASSUME NoPtr \in DOMAIN m
               PROVE  FALSE
    OBVIOUS
  <2>1. PICK b \in DOMAIN prog.code : \E a \in DOMAIN prog.code[b] : SumIn(NoPtr, b, a)
    BY <1>3 DEF SumOf
  <2>2. PICK a \in DOMAIN prog.code[b] : SumIn(NoPtr, b, a)
    BY <2>1
  <2> QED BY <1>1, <2>2, SumInRegister
<1>5. \A its, c : LET f == IndexOp(its, c, "none")
                 IN Index(f.iterators, f.constant) = Index(its, c)
  BY DEF IndexOp
<1>6. CASE I.src2 = NoPtr /\ x = Index(<< >>, I.const)
  <2>1. FoundIndex = {IndexOp(<< >>, I.const, "none")}
    BY <1>4, <1>6 DEF FoundIndex
  <2> QED BY <1>6, <1>5, <2>1 DEF FindsIndex
<1>7. CASE \E v \in IteratorsOf(prog) : Extended(Code, pos, v, I.src2) /\ x = Index(<<v>>, 0)
  <2>1. PICK v \in IteratorsOf(prog) : Extended(Code, pos, v, I.src2) /\ x = Index(<<v>>, 0)
    BY <1>7
  <2>2. IteratorsIn(I.src2) = {v}
    BY <1>2, <2>1, HeldIterator
  <2>3. I.src2 # NoPtr
    BY <2>2, NoIteratorInNoPtr
  <2>4. v \in DOMAIN iteratorsAliasMap /\ iteratorsAliasMap[v] = I.src2
    BY <2>2 DEF IteratorsIn
  <2>5. RegisterOf(v, I.src2)
    BY <2>4 DEF IteratorsHeld
  <2>6. PICK J \in LoadsOf(v) : I.src2 = J.dst
                                \/ \E K \in Extensions : K.src1 = J.dst /\ K.dst = I.src2
    BY <2>5 DEF RegisterOf
  <2>7. I.src2 \notin DOMAIN m
    <3> SUFFICES ASSUME I.src2 \in DOMAIN m
                 PROVE  FALSE
      OBVIOUS
    <3>1. PICK b \in DOMAIN prog.code : \E a \in DOMAIN prog.code[b] : SumIn(I.src2, b, a)
      BY <1>3 DEF SumOf
    <3>2. PICK a \in DOMAIN prog.code[b] : SumIn(I.src2, b, a)
      BY <3>1
    <3>3. /\ I.src2 # J.dst
          /\ \A K \in Extensions : K.src1 = J.dst => K.dst # I.src2
      <4>1. prog \in Programs /\ J \in LoadsOf(v)
        BY <1>1
      <4> QED BY <3>2, <4>1, SumIsNoLoad
    <3> QED BY <2>6, <3>3
  <2>8. FoundIndex = {IndexOp(<<v>>, 0, "none")}
    BY <2>2, <2>3, <2>7 DEF FoundIndex
  <2> QED BY <1>5, <2>1, <2>8 DEF FindsIndex
<1>8. CASE \E a, e \in 1..(pos - 1) : /\ a < e /\ AddsUp(prog, Code, a, x)
                                      /\ Code[e].op = "sext" /\ Code[e].src1 = Code[a].dst
                                      /\ Code[e].dst = I.src2
  <2>1. PICK a \in 1..(pos - 1), e \in 1..(pos - 1) :
          /\ a < e /\ AddsUp(prog, Code, a, x)
          /\ Code[e].op = "sext" /\ Code[e].src1 = Code[a].dst /\ Code[e].dst = I.src2
    BY <1>8
  <2>2. e \in (a + 1)..(pos - 1) /\ a \in DOMAIN Code /\ e \in DOMAIN Code
    BY <1>1, <2>1
  <2>3. I.src2 \in DOMAIN m
    BY <2>1, <2>2 DEF SumsHeld, ExtendedAt
  <2>4. PICK b \in DOMAIN prog.code : \E d \in DOMAIN prog.code[b] :
          /\ SumIn(I.src2, b, d)
          /\ \A y : AddsUp(prog, prog.code[b], d, y) =>
               Index(m[I.src2].iterators, m[I.src2].constant) = y
    BY <1>3, <2>3 DEF SumOf
  <2>5. PICK d \in DOMAIN prog.code[b] :
          /\ SumIn(I.src2, b, d)
          /\ \A y : AddsUp(prog, prog.code[b], d, y) =>
               Index(m[I.src2].iterators, m[I.src2].constant) = y
    BY <2>4
  <2> DEFINE A == prog.code[b][d]
             E == Code[e]
  <2>6. /\ A \in Writers /\ E \in Writers /\ Extensions \subseteq Writers
        /\ A.op = "add" /\ E.op = "sext"
    BY <1>1, <2>1, <2>2, <2>5, PlaceOfInstruction DEF SumIn, Writers, Extensions
  <2>7. \A J, K \in Writers : J.dst = K.dst => J = K
    BY <1>1, OneWriter DEF Writers
  <2>8. A.dst # I.src2
    BY <2>1, <2>6, <2>7
  <2>9. PICK K \in Extensions : K.src1 = A.dst /\ K.dst = I.src2
    BY <2>5, <2>8 DEF SumIn
  <2>10. K = E
    BY <2>1, <2>6, <2>7, <2>9
  <2>11. A.dst = prog.code[BlockId][a].dst
    BY <1>1, <2>1, <2>9, <2>10
  <2>12. a \in DOMAIN prog.code[BlockId]
    BY <1>1, <2>2
  <2>13. b = BlockId /\ d = a
    BY <1>1, <2>6, <2>11, <2>12, OnePlace
  <2>14. Index(m[I.src2].iterators, m[I.src2].constant) = x
    BY <1>1, <2>1, <2>5, <2>13
  <2>15. FoundIndex = {m[I.src2]}
    BY <2>3 DEF FoundIndex
  <2> QED BY <2>14, <2>15 DEF FindsIndex
<1> QED BY <1>1, <1>6, <1>7, <1>8 DEF ReadsIndex

-----------------------------------------------------------------------------
(* An alias belongs to one alloca.                                         *)
LEMMA OneOwner ==
  ASSUME prog \in Programs, NEW r, NEW a \in DOMAIN prog.dims \cup prog.scalars,
         NEW b \in DOMAIN prog.dims \cup prog.scalars, Owns(a, r), Owns(b, r)
  PROVE  a = b /\ r \notin DOMAIN prog.dims \cup prog.scalars
<1>1. PICK J \in InstructionsOf(prog) :
        /\ J.dst = r /\ J.op \in {"load", "ptr"}
        /\ \/ J.src1 = a
           \/ J.op = "ptr" /\ \E K \in Pointers : J.src1 = K.dst /\ K.src1 = a
  BY DEF Owns
<1>2. PICK M \in InstructionsOf(prog) :
        /\ M.dst = r /\ M.op \in {"load", "ptr"}
        /\ \/ M.src1 = b
           \/ M.op = "ptr" /\ \E K \in Pointers : M.src1 = K.dst /\ K.src1 = b
  BY DEF Owns
<1>3. J \in Writers /\ M \in Writers
  BY <1>1, <1>2 DEF Writers
<1>4. Pointers \subseteq Writers /\ Pointers \subseteq InstructionsOf(prog)
  BY Pointing DEF Writers
<1>5. \A A, B \in Writers : A.dst = B.dst => A = B
  BY OneWriter DEF Writers
<1>6. \A A \in Writers : A \in InstructionsOf(prog) => A.dst \notin DOMAIN prog.dims \cup prog.scalars
  BY OneWriter
<1>7. J = M
  BY <1>1, <1>2, <1>3, <1>5
<1>8. \A K \in Pointers : K.dst # a /\ K.dst # b
  BY <1>4, <1>6
<1>9. CASE J.src1 = a
  BY <1>1, <1>2, <1>3, <1>6, <1>7, <1>8, <1>9
<1>10. CASE \E K \in Pointers : J.src1 = K.dst /\ K.src1 = a
  <2>1. PICK K \in Pointers : J.src1 = K.dst /\ K.src1 = a
    BY <1>10
  <2>2. PICK N \in Pointers : J.src1 = N.dst /\ N.src1 = b
    BY <1>2, <1>7, <1>8, <2>1
  <2>3. K = N
    BY <1>4, <1>5, <2>1, <2>2
  <2> QED BY <1>1, <1>3, <1>6, <2>1, <2>2, <2>3
<1> QED BY <1>1, <1>3, <1>6, <1>9, <1>10

LEMMA Owner ==
  ASSUME TypeInv, ArraysHeld, NEW a \in DOMAIN aliasInfoMap, NEW r \in Range(aliasInfoMap[a])
  PROVE  getAllocatedReg(aliasInfoMap, r) = a
<1>1. /\ prog \in Programs
      /\ DOMAIN aliasInfoMap \subseteq DOMAIN prog.dims \cup prog.scalars
      /\ \A b \in DOMAIN aliasInfoMap : \A s \in Range(aliasInfoMap[b]) : Owns(b, s)
  BY DEF TypeInv, ArraysHeld
<1>2. Owns(a, r) /\ r \notin DOMAIN aliasInfoMap
  BY <1>1, OneOwner
<1>3. ASSUME NEW b \in DOMAIN aliasInfoMap, r = b \/ r \in Range(aliasInfoMap[b])
      PROVE  b = a
  <2>1. Owns(b, r)
    BY <1>1, <1>2, <1>3
  <2> QED BY <1>1, <1>2, <2>1, OneOwner
<1>4. \A b \in DOMAIN aliasInfoMap : (r = b \/ r \in Range(aliasInfoMap[b])) <=> b = a
  BY <1>3
<1> QED BY <1>4 DEF getAllocatedReg

(* What a pointer does: an element of a vector, an element of a row, or a  *)
(* new row.                                                                *)
ToVector ==
  /\ IsVector(I.src1) /\ arraysInfoMap[I.src1] = Dimensions(prog.dims[I.src1])
  /\ tmpPointerStruct' = Indexed(TRUE, FALSE)
  /\ aliasInfoMap' = AddAlias(aliasInfoMap, I.src1, I.dst)
  /\ SetPointerInfo(I.dst, Indexed(TRUE, FALSE), arraysInfoMap[I.src1])
  /\ UNCHANGED arraysInfoMap
ToElement ==
  LET array == getAllocatedReg(aliasInfoMap, I.src1)
  IN /\ I.src1 \in {K.dst : K \in Pointers} /\ FoundIndex # {}
     /\ tmpPointerStruct' = Indexed(FALSE, TRUE)
     /\ aliasInfoMap' = AddAlias(aliasInfoMap, array, I.dst)
     /\ SetPointerInfo(I.dst, Indexed(FALSE, TRUE), arraysInfoMap[array])
     /\ UNCHANGED arraysInfoMap
ToRow ==
  /\ \/ /\ I.src1 \in DOMAIN prog.dims /\ ~IsVector(I.src1)
        /\ tmpPointerStruct' = Indexed(FALSE, FALSE)
     \/ /\ I.src1 \in {K.dst : K \in Pointers} /\ FoundIndex = {}
        /\ tmpPointerStruct' = Indexed(FALSE, TRUE)
  /\ aliasInfoMap' = AddAlias(aliasInfoMap, I.src1, I.dst)
  /\ arraysInfoMap' = Insert(arraysInfoMap, I.dst, << >>)
  /\ UNCHANGED <<pc, pointerInfoMap>>

LEMMA PointerCases ==
  ASSUME TypeInv, Pointer
  PROVE  /\ I.src1 \in DOMAIN arraysInfoMap /\ I \in Pointers
         /\ ToVector \/ ToElement \/ ToRow
<1> DEFINE sizes == arraysInfoMap[I.src1]
           second == sizes = << >>
           vector == ~second /\ sizes[1] = 1
           struct == Indexed(vector, second)
           array == getAllocatedReg(aliasInfoMap, I.src1)
<1>1. Reads({"ptr"}) /\ I.src1 \in DOMAIN arraysInfoMap
  BY DEF Pointer
<1>2. I \in Pointers /\ prog \in Programs /\ ~ptrValid
  <2>1. I \in Pointers
    BY <1>1, ReadsInstruction
  <2> QED BY <2>1 DEF TypeInv, ArraysOK
<1>3. \/ I.src1 \in DOMAIN prog.dims /\ sizes = Dimensions(prog.dims[I.src1])
      \/ I.src1 \in {K.dst : K \in Pointers} /\ sizes = << >>
  BY <1>1 DEF TypeInv, ArraysOK
<1>4. \A d : Dimensions(d) # << >> /\ (Dimensions(d)[1] = 1 <=> Len(d) = 1 \/ d[2] = 1)
  BY DEF Dimensions
<1>5. vector => IsVector(I.src1) /\ sizes = Dimensions(prog.dims[I.src1])
  <2> HAVE vector
  <2>1. /\ I.src1 \in DOMAIN prog.dims /\ (Len(prog.dims[I.src1]) = 1 \/ prog.dims[I.src1][2] = 1)
        /\ sizes = Dimensions(prog.dims[I.src1])
    BY <1>3, <1>4
  <2> QED BY <1>2, <2>1, Program DEF IsVector
<1>6. second => I.src1 \in {K.dst : K \in Pointers}
  BY <1>3, <1>4
<1>7. ~vector /\ ~second => I.src1 \in DOMAIN prog.dims /\ ~IsVector(I.src1)
  <2> HAVE ~vector /\ ~second
  <2>1. I.src1 \in DOMAIN prog.dims /\ sizes = Dimensions(prog.dims[I.src1])
    BY <1>3
  <2> QED BY <1>4, <2>1 DEF IsVector
<1>8. /\ tmpPointerStruct' = struct
      /\ \/ /\ vector /\ aliasInfoMap' = AddAlias(aliasInfoMap, I.src1, I.dst)
            /\ SetPointerInfo(I.dst, struct, sizes) /\ UNCHANGED arraysInfoMap
         \/ /\ ~vector /\ second /\ FoundIndex # {}
            /\ aliasInfoMap' = AddAlias(aliasInfoMap, array, I.dst)
            /\ SetPointerInfo(I.dst, struct, arraysInfoMap[array]) /\ UNCHANGED arraysInfoMap
         \/ /\ ~vector /\ ~(second /\ FoundIndex # {})
            /\ aliasInfoMap' = AddAlias(aliasInfoMap, I.src1, I.dst)
            /\ arraysInfoMap' = Insert(arraysInfoMap, I.dst, << >>)
            /\ UNCHANGED <<pc, pointerInfoMap>>
  BY <1>2 DEF Pointer
<1> HIDE DEF sizes, array
<1>9. (vector => vector = TRUE /\ second = FALSE) /\ (~vector => vector = FALSE)
      /\ (second => second = TRUE) /\ (~second => second = FALSE)
  OBVIOUS
<1>10. /\ vector => struct = Indexed(TRUE, FALSE)
       /\ ~vector /\ second => struct = Indexed(FALSE, TRUE)
       /\ ~vector /\ ~second => struct = Indexed(FALSE, FALSE)
  BY <1>9
<1> HIDE DEF second, vector, struct
<1>11. CASE /\ vector /\ aliasInfoMap' = AddAlias(aliasInfoMap, I.src1, I.dst)
            /\ SetPointerInfo(I.dst, struct, sizes) /\ UNCHANGED arraysInfoMap
  BY <1>1, <1>2, <1>5, <1>8, <1>10, <1>11 DEF ToVector, sizes
<1>12. CASE /\ ~vector /\ second /\ FoundIndex # {}
            /\ aliasInfoMap' = AddAlias(aliasInfoMap, array, I.dst)
            /\ SetPointerInfo(I.dst, struct, arraysInfoMap[array]) /\ UNCHANGED arraysInfoMap
  BY <1>1, <1>2, <1>6, <1>8, <1>10, <1>12 DEF ToElement, array
<1>13. CASE /\ ~vector /\ ~(second /\ FoundIndex # {})
            /\ aliasInfoMap' = AddAlias(aliasInfoMap, I.src1, I.dst)
            /\ arraysInfoMap' = Insert(arraysInfoMap, I.dst, << >>)
            /\ UNCHANGED <<pc, pointerInfoMap>>
  BY <1>1, <1>2, <1>6, <1>7, <1>8, <1>10, <1>13 DEF ToRow
<1> QED BY <1>1, <1>2, <1>8, <1>11, <1>12, <1>13

(* The array that a row belongs to.                                        *)
LEMMA RowOwner ==
  ASSUME TypeInv, ArraysHeld, pc = "blocks", I \in Pointers, I.src1 \in DOMAIN arraysInfoMap,
         NEW K \in Pointers, I.src1 = K.dst
  PROVE  /\ K.src1 \in DOMAIN prog.dims /\ K.src1 \in DOMAIN aliasInfoMap
         /\ K.src1 \in DOMAIN arraysInfoMap
         /\ getAllocatedReg(aliasInfoMap, I.src1) = K.src1
<1>1. prog \in Programs
  BY DEF TypeInv
<1>2. \A M \in Pointers : K.src1 # M.dst
  BY <1>1, Pointing
<1>3. K.src1 \in DOMAIN arraysInfoMap
  BY DEF ArraysHeld
<1>4. K.src1 \in DOMAIN prog.dims
  BY <1>2, <1>3 DEF TypeInv, ArraysOK
<1>5. K.src1 \in DOMAIN aliasInfoMap /\ K.dst \in Range(aliasInfoMap[K.src1])
  BY <1>4 DEF ArraysHeld
<1>6. getAllocatedReg(aliasInfoMap, K.dst) = K.src1
  BY <1>5, Owner
<1> QED BY <1>3, <1>4, <1>5, <1>6

LEMMA RangeAppended ==
  ASSUME NEW s \in Seq(Nat), NEW e \in Nat
  PROVE  Append(s, e) \in Seq(Nat) /\ Range(Append(s, e)) = Range(s) \cup {e}
<1>1. /\ Append(s, e) \in Seq(Nat) /\ Len(s) \in Nat
      /\ DOMAIN Append(s, e) = 1..(Len(s) + 1) /\ DOMAIN s = 1..Len(s)
  OBVIOUS
<1>2. /\ \A n \in 1..Len(s) : Append(s, e)[n] = s[n]
      /\ Append(s, e)[Len(s) + 1] = e
  OBVIOUS
<1>3. Range(Append(s, e)) = {Append(s, e)[n] : n \in 1..(Len(s) + 1)}
      /\ Range(s) = {s[n] : n \in 1..Len(s)}
  BY <1>1 DEF Range
<1>4. 1..(Len(s) + 1) = 1..Len(s) \cup {Len(s) + 1}
  BY <1>1
<1> QED BY <1>1, <1>2, <1>3, <1>4

(* What an instruction adds to the aliases of an alloca.                   *)
AliasKept(a) ==
  \/ aliasInfoMap'[a] = aliasInfoMap[a]
  \/ aliasInfoMap'[a] = Append(aliasInfoMap[a], I.dst) /\ Owns(a, I.dst)

LEMMA AliasesRead ==
  ASSUME TypeInv, ArraysHeld, Reading
  PROVE  DOMAIN aliasInfoMap' = DOMAIN aliasInfoMap /\ \A a \in DOMAIN aliasInfoMap : AliasKept(a)
<1>1. I \in InstructionsOf(prog) /\ pc = "blocks"
  BY ReadingStep DEF InBlock
<1>2. CASE Store \/ LoadIterator \/ Add \/ SignExtend \/ Other \/ OtherPointer
  BY <1>2 DEF Store, LoadIterator, Add, SignExtend, Other, OtherPointer, AliasKept
<1>3. ASSUME aliasInfoMap' = AddAlias(aliasInfoMap, I.src1, I.dst), I.op \in {"load", "ptr"}
      PROVE  DOMAIN aliasInfoMap' = DOMAIN aliasInfoMap /\ \A a \in DOMAIN aliasInfoMap : AliasKept(a)
  <2>1. Owns(I.src1, I.dst)
    BY <1>1, <1>3 DEF Owns
  <2> QED BY <1>3, <2>1 DEF AliasKept, AddAlias, PushBack, ListAt
<1>4. CASE Load
  BY <1>3, <1>4 DEF Load, Reads
<1>5. CASE Pointer
  <2>1. I \in Pointers /\ I.src1 \in DOMAIN arraysInfoMap /\ I.op = "ptr"
    BY <1>5, PointerCases DEF Pointers
  <2>2. CASE ToVector \/ ToRow
    BY <1>3, <2>1, <2>2 DEF ToVector, ToRow
  <2>3. CASE ToElement
    <3> DEFINE array == getAllocatedReg(aliasInfoMap, I.src1)
    <3>1. PICK K \in Pointers : I.src1 = K.dst
      BY <2>3 DEF ToElement
    <3>2. array = K.src1
      BY <1>1, <2>1, <3>1, RowOwner
    <3>3. Owns(array, I.dst)
      BY <1>1, <2>1, <3>1, <3>2 DEF Owns
    <3>4. aliasInfoMap' = AddAlias(aliasInfoMap, array, I.dst)
      BY <2>3 DEF ToElement
    <3> HIDE DEF array
    <3> QED BY <3>3, <3>4 DEF AliasKept, AddAlias, PushBack, ListAt
  <2> QED BY <1>5, <2>2, <2>3, PointerCases
<1> QED BY <1>2, <1>4, <1>5 DEF Reading

LEMMA ArraysRead ==
  ASSUME TypeInv, ArraysHeld, Reading
  PROVE  ArraysHeld'
<1>1. /\ prog' = prog /\ pc = "blocks" /\ I \in InstructionsOf(prog) /\ I.dst \in Nat
      /\ prog \in Programs
  BY ReadingStep DEF InBlock, Instructions, TypeInv
<1>2. /\ DOMAIN prog.dims \subseteq DOMAIN aliasInfoMap
      /\ DOMAIN prog.dims \subseteq DOMAIN arraysInfoMap
      /\ DOMAIN aliasInfoMap \subseteq DOMAIN prog.dims \cup prog.scalars
      /\ \A a \in DOMAIN aliasInfoMap : aliasInfoMap[a] \in Seq(Nat)
      /\ \A a \in DOMAIN aliasInfoMap : \A r \in Range(aliasInfoMap[a]) : Owns(a, r)
  BY <1>1 DEF ArraysHeld
<1>3. DOMAIN aliasInfoMap' = DOMAIN aliasInfoMap /\ \A a \in DOMAIN aliasInfoMap : AliasKept(a)
  BY AliasesRead
<1>4. ASSUME NEW a \in DOMAIN aliasInfoMap
      PROVE  /\ aliasInfoMap'[a] \in Seq(Nat)
             /\ Range(aliasInfoMap[a]) \subseteq Range(aliasInfoMap'[a])
             /\ \A r \in Range(aliasInfoMap'[a]) : Owns(a, r)
  <2>1. CASE aliasInfoMap'[a] = aliasInfoMap[a]
    BY <1>2, <2>1
  <2>2. CASE aliasInfoMap'[a] = Append(aliasInfoMap[a], I.dst) /\ Owns(a, I.dst)
    BY <1>1, <1>2, <2>2, RangeAppended
  <2> QED BY <1>3, <2>1, <2>2 DEF AliasKept
<1>5. \/ UNCHANGED arraysInfoMap
      \/ /\ arraysInfoMap' = Insert(arraysInfoMap, I.dst, << >>) /\ I \in Pointers
         /\ I.src1 \in DOMAIN arraysInfoMap
         /\ aliasInfoMap' = AddAlias(aliasInfoMap, I.src1, I.dst)
  <2>1. CASE Store \/ LoadIterator \/ Load \/ Add \/ SignExtend \/ Other \/ OtherPointer
    BY <2>1 DEF Store, LoadIterator, Load, Add, SignExtend, Other, OtherPointer
  <2>2. CASE Pointer
    BY <2>2, PointerCases DEF ToVector, ToElement, ToRow
  <2> QED BY <2>1, <2>2 DEF Reading
<1>6. DOMAIN arraysInfoMap \subseteq DOMAIN arraysInfoMap'
  BY <1>5 DEF Insert
<1>7. ASSUME NEW K \in Pointers, K.dst \in DOMAIN arraysInfoMap'
      PROVE  /\ K.src1 \in DOMAIN arraysInfoMap'
             /\ K.src1 \in DOMAIN prog.dims => K.dst \in Range(aliasInfoMap'[K.src1])
  <2>1. CASE K.dst \in DOMAIN arraysInfoMap
    <3>1. /\ K.src1 \in DOMAIN arraysInfoMap
          /\ K.src1 \in DOMAIN prog.dims => K.dst \in Range(aliasInfoMap[K.src1])
      BY <2>1 DEF ArraysHeld
    <3> QED BY <1>2, <1>4, <1>6, <3>1
  <2>2. CASE K.dst \notin DOMAIN arraysInfoMap
    <3>1. /\ arraysInfoMap' = Insert(arraysInfoMap, I.dst, << >>) /\ I \in Pointers
          /\ I.src1 \in DOMAIN arraysInfoMap
          /\ aliasInfoMap' = AddAlias(aliasInfoMap, I.src1, I.dst)
      BY <1>5, <1>7, <2>2
    <3>2. K.dst = I.dst
      BY <1>7, <2>2, <3>1 DEF Insert
    <3>3. K \in Writers /\ I \in Writers /\ K \in InstructionsOf(prog)
      BY <1>1, <3>1, Pointing DEF Writers
    <3>4. K = I
      BY <1>1, <3>2, <3>3, OneWriter
    <3>5. ASSUME I.src1 \in DOMAIN prog.dims
          PROVE  I.dst \in Range(aliasInfoMap'[I.src1])
      <4>1. aliasInfoMap'[I.src1] = Append(aliasInfoMap[I.src1], I.dst)
        BY <1>2, <3>1, <3>5 DEF AddAlias, PushBack, ListAt
      <4>2. aliasInfoMap[I.src1] \in Seq(Nat)
        BY <1>2, <3>5
      <4> QED BY <1>1, <4>1, <4>2, RangeAppended
    <3> QED BY <1>6, <3>1, <3>4, <3>5
  <2> QED BY <2>1, <2>2
<1>8. Pointers' = Pointers /\ \A a, r : Owns(a, r)' = Owns(a, r)
  BY <1>1, SameLayout
<1> QED BY <1>1, <1>2, <1>3, <1>4, <1>6, <1>7, <1>8 DEF ArraysHeld

(* Before the blocks no array loses an alias.                              *)
LEMMA AliasesWalk ==
  ASSUME LoopInv, Plain, ArraysHeld, Walking, ~ParseAllocas
  PROVE  /\ pc # "alloca" /\ UNCHANGED arraysInfoMap
         /\ DOMAIN aliasInfoMap' \subseteq DOMAIN aliasInfoMap
         /\ \A a \in DOMAIN prog.dims : a \in DOMAIN aliasInfoMap'
         /\ \A a \in DOMAIN aliasInfoMap' : aliasInfoMap'[a] = aliasInfoMap[a]
<1>1. pc # "alloca"
  BY DEF Walking, ParseLoopPreheader, HeaderLoad, HeaderCompare, AllLoops, EnterBlock,
         LeaveBlock, AllBlocks
<1>2. UNCHANGED arraysInfoMap /\ (HeaderLoad \/ UNCHANGED aliasInfoMap)
  BY WalkingStep DEF LoopInv
<1>3. DOMAIN prog.dims \subseteq DOMAIN aliasInfoMap
  BY <1>1 DEF ArraysHeld
<1>4. CASE UNCHANGED aliasInfoMap
  BY <1>1, <1>2, <1>3, <1>4
<1>5. CASE HeaderLoad
  <2> DEFINE v == L.loads[pos].src1
  <2>1. aliasInfoMap' = aliasInfoMap \/ aliasInfoMap' = Erase(aliasInfoMap, v)
    BY <1>5 DEF HeaderLoad
  <2>2. v \notin DOMAIN prog.dims
    <3>1. /\ prog \in Programs /\ loop \in Loops /\ L = prog.loops[loop]
          /\ pos \in 1..(Len(L.loads) + 1) /\ pos <= Len(L.loads)
      <4>1. prog \in Programs /\ loop \in Nat \ {0} /\ loop <= Len(prog.loops)
        BY <1>5, Program DEF LoopInv, TypeInv, PlaceOK, HeaderLoad
      <4>2. pos \in 1..(Len(L.loads) + 1) /\ pos <= Len(L.loads)
        BY <1>5 DEF LoopInv, HeaderOK, HeaderLoad
      <4> QED BY <4>1, <4>2, LoopsOfProgram DEF L
    <3>2. DOMAIN L.loads = 1..1 /\ L.loads[1].src1 = IteratorOf(loop) /\ Len(L.loads) = 1
      BY <3>1, PlainLoops, LoopsOfProgram DEF Plain, PlainLoop
    <3>3. pos = 1
      BY <3>1, <3>2
    <3>4. v \in IteratorsOf(prog)
      BY <3>1, <3>2, <3>3 DEF IteratorsOf, IteratorOf, Loops
    <3> QED BY <3>1, <3>4, OneWriter
  <2> HIDE DEF v
  <2> QED BY <1>1, <1>2, <1>3, <2>1, <2>2 DEF Erase
<1> QED BY <1>2, <1>4, <1>5

LEMMA ArraysWalk ==
  ASSUME LoopInv, Plain, ArraysHeld, Walking
  PROVE  ArraysHeld'
<1>1. prog' = prog /\ prog \in Programs
  BY WalkingStep DEF LoopInv, TypeInv
<1>2. Pointers' = Pointers /\ \A a, r : Owns(a, r)' = Owns(a, r)
  BY <1>1, SameLayout
<1>3. CASE ParseAllocas
  <2>1. /\ arraysInfoMap' = [a \in DOMAIN prog.dims |-> Dimensions(prog.dims[a])]
        /\ aliasInfoMap' = [a \in DOMAIN prog.dims \cup prog.scalars |-> << >>]
    BY <1>3 DEF ParseAllocas
  <2>2. << >> \in Seq(Nat) /\ Range(<< >>) = {}
    BY DEF Range
  <2>3. \A K \in Pointers : K.dst \notin DOMAIN prog.dims
    BY <1>1, Pointing, OneWriter DEF Writers
  <2> QED BY <1>1, <1>2, <2>1, <2>2, <2>3 DEF ArraysHeld
<1>4. CASE ~ParseAllocas
  <2>1. /\ pc # "alloca" /\ arraysInfoMap' = arraysInfoMap
        /\ DOMAIN aliasInfoMap' \subseteq DOMAIN aliasInfoMap
        /\ \A a \in DOMAIN prog.dims : a \in DOMAIN aliasInfoMap'
        /\ \A a \in DOMAIN aliasInfoMap' : aliasInfoMap'[a] = aliasInfoMap[a]
    BY <1>4, AliasesWalk
  <2>2. /\ DOMAIN prog.dims \subseteq DOMAIN arraysInfoMap
        /\ DOMAIN aliasInfoMap' \subseteq DOMAIN prog.dims \cup prog.scalars
        /\ \A a \in DOMAIN aliasInfoMap' : aliasInfoMap'[a] \in Seq(Nat)
        /\ \A a \in DOMAIN aliasInfoMap' : \A r \in Range(aliasInfoMap'[a]) : Owns(a, r)
    BY <2>1 DEF ArraysHeld
  <2>3. \A K \in Pointers : K.dst \in DOMAIN arraysInfoMap =>
          /\ K.src1 \in DOMAIN arraysInfoMap
          /\ K.src1 \in DOMAIN prog.dims => K.dst \in Range(aliasInfoMap'[K.src1])
    BY <2>1 DEF ArraysHeld
  <2> QED BY <1>1, <1>2, <2>1, <2>2, <2>3 DEF ArraysHeld
<1> QED BY <1>3, <1>4

LEMMA RowsWalk ==
  ASSUME TypeInv, RowHeld, Walking
  PROVE  RowHeld'
<1>1. tmpPointerStruct' = tmpPointerStruct
  BY WalkingStep
<1>2. InBlock' => 1..(pos' - 1) = {}
  <2>1. InBlock' => pos' = 1
    BY WalkingStep
  <2>2. 1..(1 - 1) = {}
    OBVIOUS
  <2> QED BY <2>1, <2>2
<1> QED BY <1>1, <1>2 DEF RowHeld

LEMMA PointersWalk ==
  ASSUME LoopInv, Plain, ArraysHeld, PointersHeld, Walking
  PROVE  PointersHeld'
<1>1. /\ prog' = prog /\ pointerInfoMap' = pointerInfoMap /\ pc' # "alloca"
  BY WalkingStep DEF LoopInv
<1>2. CASE ParseAllocas
  <2>1. DOMAIN pointerInfoMap = {}
    BY <1>2 DEF PointersHeld, ParseAllocas
  <2> QED BY <1>1, <2>1 DEF PointersHeld
<1>3. CASE ~ParseAllocas
  <2>1. \A a \in DOMAIN prog.dims : aliasInfoMap'[a] = aliasInfoMap[a]
    BY <1>3, AliasesWalk
  <2>2. ASSUME NEW p \in DOMAIN pointerInfoMap, Handled(p)
        PROVE  RecordHeld(p)'
    <3>1. RecordHeld(p)
      BY <2>2 DEF PointersHeld
    <3>2. prog.access[p].array \in DOMAIN prog.dims
      BY <2>2 DEF Handled, HandledIn
    <3>3. aliasInfoMap'[prog.access[p].array] = aliasInfoMap[prog.access[p].array]
      BY <2>1, <3>2
    <3>4. \A n : IteratorOf(n)' = IteratorOf(n)
      BY <1>1 DEF IteratorOf
    <3> QED BY <1>1, <3>1, <3>3, <3>4 DEF RecordHeld, Loops
  <2>3. \A p : Handled(p)' = Handled(p)
    BY <1>1, SameLayout
  <2> QED BY <1>1, <2>2, <2>3 DEF PointersHeld
<1> QED BY <1>2, <1>3

(* The index that was found is the first or the second one.                *)
LEMMA IndexedFields ==
  ASSUME DOMAIN tmpPointerStruct = {"first", "second"}
  PROVE  /\ \A a, b \in BOOLEAN : DOMAIN Indexed(a, b) = {"first", "second"}
         /\ \A f : FoundIndex = {f} =>
              /\ Indexed(TRUE, FALSE).first = f /\ Indexed(FALSE, FALSE).first = f
              /\ Indexed(FALSE, TRUE).second = f
              /\ Indexed(FALSE, TRUE).first = tmpPointerStruct.first
<1>1. ASSUME NEW a \in BOOLEAN, NEW b \in BOOLEAN
      PROVE  DOMAIN Indexed(a, b) = {"first", "second"}
  BY DEF Indexed
<1>2. ASSUME NEW f, FoundIndex = {f}
      PROVE  /\ Indexed(TRUE, FALSE).first = f /\ Indexed(FALSE, FALSE).first = f
             /\ Indexed(FALSE, TRUE).second = f
             /\ Indexed(FALSE, TRUE).first = tmpPointerStruct.first
  <2>1. FoundIndex # {} /\ (CHOOSE x \in FoundIndex : TRUE) = f
    BY <1>2
  <2> QED BY <2>1 DEF Indexed
<1> QED BY <1>1, <1>2

(* A pointer into a matrix becomes a row with the index that it reads.     *)
IsRow(J) == J.op = "ptr" /\ J.src1 \in DOMAIN prog.dims /\ Len(prog.dims[J.src1]) = 2
RowIndex(g) ==
  \A x : ReadsIndex(prog, Code, g, x) =>
    Index(tmpPointerStruct.first.iterators, tmpPointerStruct.first.constant) = x

LEMMA MatrixSizes ==
  ASSUME prog \in Programs, NEW a \in DOMAIN prog.dims
  PROVE  /\ Len(prog.dims[a]) \in {1, 2}
         /\ Len(prog.dims[a]) = 1 => Dimensions(prog.dims[a])[1] = 1
         /\ Len(prog.dims[a]) = 2 => Dimensions(prog.dims[a])[1] > 1
<1>1. prog.dims[a] \in Seq(Nat \ {0}) /\ Len(prog.dims[a]) \in {1, 2}
  BY Pointing
<1>2. Len(prog.dims[a]) # 1 => prog.dims[a][2] # 1
  BY Program DEF IsVector
<1>3. Len(prog.dims[a]) = 2 => prog.dims[a][2] \in Nat \ {0}
  BY <1>1
<1> QED BY <1>1, <1>2, <1>3 DEF Dimensions

LEMMA NewRow ==
  ASSUME TypeInv, IteratorsHeld, SumsHeld, ArraysHeld, RowHeld, Reading, NEW g, g = pos,
         IsRow(Code[g])
  PROVE  Code[g].dst \in DOMAIN arraysInfoMap' /\ RowIndex(g)'
<1>1. /\ InBlock /\ pc = "blocks" /\ prog' = prog /\ Code' = Code /\ pos \in DOMAIN Code
      /\ I = Code[g] /\ I \in InstructionsOf(prog) /\ prog \in Programs
      /\ IsRow(I)
  BY ReadingStep DEF InBlock, TypeInv
<1>2. I.src1 \in DOMAIN arraysInfoMap
  BY <1>1 DEF ArraysHeld, IsRow
<1>3. Pointer
  <2>1. I.op = "ptr"
    BY <1>1 DEF IsRow
  <2> QED BY <1>2, <2>1 DEF Reading, Store, LoadIterator, Load, Add, SignExtend, Other,
                            OtherPointer, Reads
<1>4. I \in Pointers
  BY <1>3, PointerCases
<1>5. ~IsVector(I.src1) /\ I.src1 \in DOMAIN prog.dims
  BY <1>1 DEF IsVector, IsRow
<1>6. I.src1 \notin {K.dst : K \in Pointers}
  BY <1>1, <1>5, Pointing, OneWriter DEF Writers
<1>7. ToRow /\ tmpPointerStruct' = Indexed(FALSE, FALSE)
  BY <1>3, <1>5, <1>6, PointerCases DEF ToVector, ToElement, ToRow
<1>8. I.dst \in DOMAIN arraysInfoMap'
  BY <1>7 DEF ToRow, Insert
<1>9. ASSUME NEW x, ReadsIndex(prog, Code, g, x)
      PROVE  Index(tmpPointerStruct'.first.iterators, tmpPointerStruct'.first.constant) = x
  <2>1. FindsIndex(x)
    BY <1>1, <1>9, IndexFound
  <2>2. PICK f : FoundIndex = {f} /\ Index(f.iterators, f.constant) = x
    BY <2>1 DEF FindsIndex
  <2>3. Indexed(FALSE, FALSE).first = f
    BY <2>2, IndexedFields DEF RowHeld
  <2>4. tmpPointerStruct'.first = f
    BY <1>7, <2>3
  <2> QED BY <2>2, <2>4
<1>10. RowIndex(g)'
  <2> SUFFICES ASSUME NEW x, ReadsIndex(prog', Code', g, x)
               PROVE  Index(tmpPointerStruct'.first.iterators, tmpPointerStruct'.first.constant) = x
    BY DEF RowIndex
  <2> QED BY <1>1, <1>9
<1> QED BY <1>1, <1>8, <1>10

LEMMA RowsRead ==
  ASSUME TypeInv, IteratorsHeld, SumsHeld, ArraysHeld, RowHeld, Reading
  PROVE  RowHeld'
<1>1. /\ prog' = prog /\ Code' = Code /\ pos' = pos + 1 /\ pos \in Nat \ {0} /\ InBlock
      /\ I = Code[pos]
  BY ReadingStep
<1>2. \/ Pointer
      \/ I.op # "ptr" /\ UNCHANGED <<arraysInfoMap, tmpPointerStruct>>
      \/ OtherPointer /\ UNCHANGED <<arraysInfoMap, tmpPointerStruct>>
  BY DEF Reading, Store, LoadIterator, Load, Add, SignExtend, Other, OtherPointer, Reads, pointers
<1>3. DOMAIN tmpPointerStruct' = {"first", "second"}
  <2>1. CASE Pointer
    <3>1. \E a, b \in BOOLEAN : tmpPointerStruct' = Indexed(a, b)
      BY <2>1, PointerCases DEF ToVector, ToElement, ToRow
    <3> QED BY <3>1, IndexedFields DEF RowHeld
  <2>2. CASE UNCHANGED <<arraysInfoMap, tmpPointerStruct>>
    BY <2>2 DEF RowHeld
  <2> QED BY <1>2, <2>1, <2>2
<1>4. ASSUME NEW g \in 1..pos, IsRow(Code[g]), \A k \in (g + 1)..pos : Code[k].op # "ptr"
      PROVE  Code[g].dst \in DOMAIN arraysInfoMap' /\ RowIndex(g)'
  <2>1. CASE g = pos
    BY <1>4, <2>1, NewRow
  <2>2. CASE g # pos
    <3>1. /\ g \in 1..(pos - 1) /\ pos \in (g + 1)..pos
          /\ (g + 1)..(pos - 1) \subseteq (g + 1)..pos
      BY <1>1, <2>2
    <3>2. I.op # "ptr"
      BY <1>1, <1>4, <3>1
    <3>3. UNCHANGED <<arraysInfoMap, tmpPointerStruct>>
      BY <1>2, <3>2 DEF Pointer, OtherPointer, Reads
    <3>4. Code[g].dst \in DOMAIN arraysInfoMap /\ RowIndex(g)
      BY <1>1, <1>4, <3>1 DEF RowHeld, IsRow, RowIndex
    <3> QED BY <1>1, <3>3, <3>4 DEF RowIndex
  <2> QED BY <2>1, <2>2
<1>5. (pos' - 1) = pos
  BY <1>1
<1>6. \A g \in 1..pos : IsRow(Code[g]) /\ (\A k \in (g + 1)..pos : Code[k].op # "ptr") =>
        Code[g].dst \in DOMAIN arraysInfoMap' /\ RowIndex(g)'
  BY <1>4
<1>7. InBlock' => \A g \in 1..(pos' - 1) :
       (/\ Code'[g].op = "ptr" /\ \A k \in (g + 1)..(pos' - 1) : Code'[k].op # "ptr"
        /\ Code'[g].src1 \in DOMAIN prog'.dims /\ Len(prog'.dims[Code'[g].src1]) = 2) =>
         /\ Code'[g].dst \in DOMAIN arraysInfoMap'
         /\ \A x : ReadsIndex(prog', Code', g, x) =>
              Index(tmpPointerStruct'.first.iterators, tmpPointerStruct'.first.constant) = x
  BY <1>1, <1>5, <1>6 DEF IsRow, RowIndex
<1> QED BY <1>3, <1>7 DEF RowHeld

(* What setPointerInfo records.                                            *)
Recorded(reg, struct, sizes) ==
  /\ pointerInfoMap'[reg].indexes = IF sizes[1] > 1 THEN <<struct.first, struct.second>>
                                    ELSE <<struct.first>>
  /\ pointerInfoMap'[reg].arrayRows = sizes[1] /\ pointerInfoMap'[reg].arrayCols = sizes[2]
  /\ pointerInfoMap'[reg].loopIterator \in DOMAIN loopInfoMap
  /\ BlockId \in Range(loopInfoMap[pointerInfoMap'[reg].loopIterator].body)

LEMMA PointerRecorded ==
  ASSUME NEW reg, NEW struct, NEW sizes, SetPointerInfo(reg, struct, sizes)
  PROVE  /\ DOMAIN pointerInfoMap' \subseteq DOMAIN pointerInfoMap \cup {reg}
         /\ DOMAIN pointerInfoMap \subseteq DOMAIN pointerInfoMap'
         /\ \A p \in DOMAIN pointerInfoMap : pointerInfoMap'[p] = pointerInfoMap[p]
         /\ reg \in DOMAIN pointerInfoMap' \ DOMAIN pointerInfoMap => Recorded(reg, struct, sizes)
<1> DEFINE indexes == IF sizes[1] > 1 THEN <<struct.first, struct.second>> ELSE <<struct.first>>
           v == CHOOSE w \in getLoopIteratorFromLoopBody(BlockId) : TRUE
           matrix == IncrementMatrix(indexes, getIterationVector(v))
           zeros == detectZeroCols(matrix)
           geometry == Geometry(indexes)
           record(heap) ==
             [loopIterator |-> v, indexes |-> indexes,
              arrayRows |-> sizes[1], arrayCols |-> sizes[2],
              type |-> detectAccessPatternType(matrix, heap),
              initZeros |-> zeros.initZeros, finalZeros |-> zeros.finalZeros,
              measured |-> geometry.measured, X |-> geometry.X, Y |-> geometry.Y]
<1>1. \/ UNCHANGED pointerInfoMap
      \/ Known(indexes) /\ \E heap \in HeapContents(matrix) :
                             pointerInfoMap' = Insert(pointerInfoMap, reg, record(heap))
  BY DEF SetPointerInfo
<1>2. \A heap : /\ record(heap).loopIterator = v /\ record(heap).indexes = indexes
                /\ record(heap).arrayRows = sizes[1] /\ record(heap).arrayCols = sizes[2]
  OBVIOUS
<1>3. Known(indexes) => v \in DOMAIN loopInfoMap /\ BlockId \in Range(loopInfoMap[v].body)
  <2> HAVE Known(indexes)
  <2>1. getLoopIteratorFromLoopBody(BlockId) # {}
    BY DEF Known
  <2>2. v \in getLoopIteratorFromLoopBody(BlockId)
    BY <2>1
  <2> HIDE DEF v
  <2> QED BY <2>2 DEF getLoopIteratorFromLoopBody
<1> HIDE DEF v, record, matrix
<1>4. CASE UNCHANGED pointerInfoMap
  BY <1>4
<1>5. CASE Known(indexes) /\ \E heap \in HeapContents(matrix) :
                               pointerInfoMap' = Insert(pointerInfoMap, reg, record(heap))
  <2>1. PICK heap : pointerInfoMap' = Insert(pointerInfoMap, reg, record(heap))
    BY <1>5
  <2>2. reg \notin DOMAIN pointerInfoMap => pointerInfoMap'[reg] = record(heap)
    BY <2>1 DEF Insert
  <2>3. reg \notin DOMAIN pointerInfoMap => Recorded(reg, struct, sizes)
    BY <1>2, <1>3, <1>5, <2>2 DEF Recorded
  <2>4. /\ DOMAIN pointerInfoMap' = DOMAIN pointerInfoMap \cup {reg}
        /\ \A p \in DOMAIN pointerInfoMap : pointerInfoMap'[p] = pointerInfoMap[p]
    BY <2>1 DEF Insert
  <2> QED BY <2>3, <2>4
<1> QED BY <1>1, <1>4, <1>5

(* The loop of a block, where every loop is a plain one.                   *)
LEMMA LoopOfBlock ==
  ASSUME LoopInv, Plain, NEW v \in DOMAIN loopInfoMap, NEW b \in Range(loopInfoMap[v].body)
  PROVE  \E n \in Loops : v = IteratorOf(n) /\ b \in Range(prog.loops[n].body)
<1>1. prog \in Programs /\ Len(loopIteratorMap) = loop - 1 /\ loop \in 1..(Len(prog.loops) + 1)
  BY DEF LoopInv, TypeInv, PlaceOK, RecordsOK
<1>2. PICK n \in DOMAIN loopIteratorMap : loopIteratorMap[n] = v
  BY DEF LoopInv, TypeInv, LoopTablesOK
<1>3. n \in Loops
  <2>1. DOMAIN loopIteratorMap = 1..Len(loopIteratorMap)
    BY DEF LoopInv, TypeInv, LoopTablesOK
  <2>2. Len(prog.loops) \in Nat /\ Loops = 1..Len(prog.loops)
    BY <1>1, LoopsOfProgram
  <2> QED BY <1>1, <1>2, <2>1, <2>2
<1>4. RecordOK(n)
  <2>1. OwnIterators
    BY <1>1, PlainLoops
  <2> QED BY <1>2, <1>3, <2>1 DEF LoopInv, RecordsOK, Plain
<1>5. v = IteratorOf(n) /\ loopInfoMap[v].body = prog.loops[n].body
  BY <1>2, <1>4 DEF RecordOK
<1> QED BY <1>3, <1>5

(* What the assumption says of the access that is read.                    *)
LEMMA AccessRead ==
  ASSUME TypeInv, Reading, I.op = "ptr", I.dst \in DOMAIN prog.access, Handled(I.dst)
  PROVE  /\ ReadsElement(prog, Code, pos, prog.access[I.dst])
         /\ \A n \in Loops : BlockId \in Range(prog.loops[n].body) => n = prog.access[I.dst].loop
<1>1. /\ BlockId \in DOMAIN prog.code /\ Code = prog.code[BlockId]
      /\ pos \in DOMAIN prog.code[BlockId] /\ I = prog.code[BlockId][pos] /\ prog \in Programs
  BY ReadingStep DEF TypeInv
<1>2. LET r == prog.code[BlockId][pos].dst
      IN (prog.code[BlockId][pos].op = "ptr" /\ r \in DOMAIN prog.access /\ HandledIn(prog, r)) =>
           /\ ReadsElement(prog, prog.code[BlockId], pos, prog.access[r])
           /\ \A n \in DOMAIN prog.loops :
                BlockId \in Range(prog.loops[n].body) => n = prog.access[r].loop
  <2>1. ASSUME NEW p \in Programs, NEW b \in DOMAIN p.code, NEW q \in DOMAIN p.code[b]
        PROVE  LET r == p.code[b][q].dst
               IN (p.code[b][q].op = "ptr" /\ r \in DOMAIN p.access /\ HandledIn(p, r)) =>
                    /\ ReadsElement(p, p.code[b], q, p.access[r])
                    /\ \A n \in DOMAIN p.loops :
                         b \in Range(p.loops[n].body) => n = p.access[r].loop
    <3>1. \A e \in DOMAIN p.code : \A k \in DOMAIN p.code[e] :
            LET r == p.code[e][k].dst
            IN (p.code[e][k].op = "ptr" /\ r \in DOMAIN p.access /\ HandledIn(p, r)) =>
                 /\ ReadsElement(p, p.code[e], k, p.access[r])
                 /\ \A n \in DOMAIN p.loops :
                      e \in Range(p.loops[n].body) => n = p.access[r].loop
      BY AccessesAssumption, Zenon
    <3> QED BY <3>1, Zenon
  <2> QED BY <1>1, <2>1
<1> QED BY <1>1, <1>2 DEF Handled, Loops

LEMMA IndexesOfAccess ==
  ASSUME prog \in Programs, NEW r \in DOMAIN prog.access
  PROVE  /\ DOMAIN prog.access[r].indexes = 1..Len(prog.access[r].indexes)
         /\ Len(prog.access[r].indexes) \in Nat
         /\ \A n \in DOMAIN prog.access[r].indexes :
              /\ prog.access[r].indexes[n].iterators \in Seq(Nat)
              /\ prog.access[r].indexes[n].constant \in Int
<1> DEFINE s == prog.access[r].indexes
           S == [iterators : Seq(Nat), constant : Int]
<1>1. s \in Seq(S)
  BY AccessesAssumption
<1> HIDE DEF s, S
<1>2. DOMAIN s = 1..Len(s) /\ Len(s) \in Nat /\ \A n \in DOMAIN s : s[n] \in S
  BY <1>1
<1>3. \A x \in S : x.iterators \in Seq(Nat) /\ x.constant \in Int
  BY DEF S
<1> QED BY <1>2, <1>3 DEF s

LEMMA RecordOfVector ==
  ASSUME TypeInv, IteratorsHeld, SumsHeld, ArraysHeld, RowHeld, Reading, Pointer, ToVector,
         NEW p, p = I.dst, p \in DOMAIN prog.access, Handled(p),
         pointerInfoMap'[p].indexes = <<Indexed(TRUE, FALSE).first>>
  PROVE  LET acc == prog.access[p]
             indexes == pointerInfoMap'[p].indexes
         IN /\ p \in Range(aliasInfoMap'[acc.array])
            /\ arraysInfoMap[I.src1] = Dimensions(prog.dims[acc.array])
            /\ Len(prog.dims[acc.array]) = Len(acc.indexes)
            /\ Len(indexes) = Len(acc.indexes)
            /\ \A n \in DOMAIN acc.indexes :
                 Index(indexes[n].iterators, indexes[n].constant) = acc.indexes[n]
<1> DEFINE acc == prog.access[p]
<1>1. /\ InBlock /\ pc = "blocks" /\ pos \in DOMAIN Code /\ I = Code[pos] /\ I.dst \in Nat
      /\ prog \in Programs /\ BlockId \in DOMAIN prog.code /\ Code = prog.code[BlockId]
      /\ I \in InstructionsOf(prog) /\ I.op = "ptr"
  BY ReadingStep DEF InBlock, TypeInv, Instructions, Pointer, Reads
<1>2. ReadsElement(prog, Code, pos, acc)
  BY <1>1, AccessRead
<1>3. \A g \in 1..(pos - 1) : Code[g].op = "ptr" => I.src1 # Code[g].dst
  <2> TAKE g \in 1..(pos - 1)
  <2> HAVE Code[g].op = "ptr"
  <2>1. g \in DOMAIN Code
    BY <1>1, Program
  <2>2. Code[g] \in InstructionsOf(prog)
    BY <1>1, <2>1, PlaceOfInstruction
  <2>3. Code[g].dst \notin DOMAIN prog.dims
    BY <1>1, <2>2, OneWriter DEF Writers
  <2> QED BY <2>3 DEF ToVector, IsVector
<1>4. /\ Len(prog.dims[acc.array]) = 1 /\ Len(acc.indexes) = 1 /\ I.src1 = acc.array
      /\ ReadsIndex(prog, Code, pos, acc.indexes[1])
  BY <1>1, <1>2, <1>3, Zenon DEF ReadsElement
<1>5. FindsIndex(acc.indexes[1])
  BY <1>1, <1>4, IndexFound, Zenon
<1>6. PICK f : FoundIndex = {f} /\ Index(f.iterators, f.constant) = acc.indexes[1]
  BY <1>5 DEF FindsIndex
<1>7. Indexed(TRUE, FALSE).first = f
  BY <1>6, IndexedFields, Zenon DEF RowHeld
<1>8. p \in Range(aliasInfoMap'[acc.array])
  <2>1. acc.array \in DOMAIN aliasInfoMap /\ aliasInfoMap[acc.array] \in Seq(Nat)
    <3>1. IsVector(acc.array)
      <4>1. IsVector(I.src1)
        BY Zenon DEF ToVector
      <4> QED BY <1>4, <4>1, Zenon
    <3> HIDE DEF acc
    <3>2. pc # "alloca"
      BY <1>1
    <3> QED BY <3>1, <3>2, Zenon DEF ArraysHeld, IsVector
  <2>2. aliasInfoMap'[acc.array] = Append(aliasInfoMap[acc.array], p)
    <3>1. aliasInfoMap' = AddAlias(aliasInfoMap, acc.array, p)
      BY <1>4 DEF ToVector
    <3> HIDE DEF acc
    <3> QED BY <2>1, <3>1 DEF AddAlias, PushBack, ListAt
  <2> HIDE DEF acc
  <2>3. p \in Nat
    BY <1>1
  <2>4. Range(Append(aliasInfoMap[acc.array], p)) = Range(aliasInfoMap[acc.array]) \cup {p}
    BY <2>1, <2>3, RangeAppended
  <2> QED BY <2>2, <2>4
<1> HIDE DEF acc
<1>9. DOMAIN acc.indexes = 1..1
  BY <1>1, <1>4, IndexesOfAccess, Zenon DEF acc
<1>10. pointerInfoMap'[p].indexes = <<f>>
  BY <1>7
<1>11. Len(<<f>>) = 1 /\ <<f>>[1] = f
  OBVIOUS
<1>12. \A n \in DOMAIN acc.indexes : n = 1
  BY <1>9
<1>13. \A n \in DOMAIN acc.indexes :
         Index(<<f>>[n].iterators, <<f>>[n].constant) = acc.indexes[n]
  BY <1>6, <1>11, <1>12
<1>14. arraysInfoMap[I.src1] = Dimensions(prog.dims[acc.array])
  <2>1. arraysInfoMap[I.src1] = Dimensions(prog.dims[I.src1])
    BY Zenon DEF ToVector
  <2> QED BY <1>4, <2>1, Zenon
<1> QED BY <1>4, <1>8, <1>10, <1>11, <1>13, <1>14 DEF acc

LEMMA RecordOfElement ==
  ASSUME TypeInv, IteratorsHeld, SumsHeld, ArraysHeld, RowHeld, Reading, Pointer, ToElement,
         NEW p, p = I.dst, p \in DOMAIN prog.access, Handled(p),
         Recorded(p, Indexed(FALSE, TRUE),
                  arraysInfoMap[getAllocatedReg(aliasInfoMap, I.src1)])
  PROVE  LET acc == prog.access[p]
             indexes == pointerInfoMap'[p].indexes
         IN /\ p \in Range(aliasInfoMap'[acc.array])
            /\ arraysInfoMap[getAllocatedReg(aliasInfoMap, I.src1)] = Dimensions(prog.dims[acc.array])
            /\ Len(prog.dims[acc.array]) = Len(acc.indexes)
            /\ Len(indexes) = Len(acc.indexes)
            /\ \A n \in DOMAIN acc.indexes :
                 Index(indexes[n].iterators, indexes[n].constant) = acc.indexes[n]
<1> DEFINE acc == prog.access[p]
           first == tmpPointerStruct.first
<1>1. /\ InBlock /\ pc = "blocks" /\ pos \in DOMAIN Code /\ I = Code[pos] /\ I.dst \in Nat
      /\ prog \in Programs /\ BlockId \in DOMAIN prog.code /\ Code = prog.code[BlockId]
      /\ I \in InstructionsOf(prog) /\ I.op = "ptr" /\ I \in Pointers
      /\ I.src1 \in DOMAIN arraysInfoMap
  <2>1. I \in Pointers /\ I.src1 \in DOMAIN arraysInfoMap
    BY PointerCases
  <2> QED BY <2>1, ReadingStep DEF InBlock, TypeInv, Instructions, Pointer, Reads
<1>2. ReadsElement(prog, Code, pos, acc)
  BY <1>1, AccessRead
<1>3. I.src1 \notin DOMAIN prog.dims
  BY <1>1, Pointing, OneWriter DEF Writers, ToElement
<1>4. acc.array \in DOMAIN prog.dims
  BY DEF Handled, HandledIn
<1>5. Len(prog.dims[acc.array]) = 2 /\ Len(acc.indexes) = 2
      /\ \E g \in 1..(pos - 1) :
          /\ Code[g].op = "ptr" /\ Code[g].src1 = acc.array /\ I.src1 = Code[g].dst
          /\ \A k \in (g + 1)..(pos - 1) : Code[k].op # "ptr"
          /\ ReadsIndex(prog, Code, g, acc.indexes[1])
          /\ ReadsIndex(prog, Code, pos, acc.indexes[2])
  BY <1>1, <1>2, <1>3, <1>4, Zenon DEF ReadsElement
<1>6. PICK g \in 1..(pos - 1) :
          /\ Code[g].op = "ptr" /\ Code[g].src1 = acc.array /\ I.src1 = Code[g].dst
          /\ \A k \in (g + 1)..(pos - 1) : Code[k].op # "ptr"
          /\ ReadsIndex(prog, Code, g, acc.indexes[1])
          /\ ReadsIndex(prog, Code, pos, acc.indexes[2])
  BY <1>5
<1>7. Code[g] \in Pointers
  <2>1. g \in DOMAIN Code
    BY <1>1, Program
  <2>2. Code[g] \in InstructionsOf(prog)
    BY <1>1, <2>1, PlaceOfInstruction
  <2> QED BY <1>1, <1>6, <2>2, Pointing, Zenon
<1>8. /\ acc.array \in DOMAIN aliasInfoMap /\ acc.array \in DOMAIN arraysInfoMap
      /\ getAllocatedReg(aliasInfoMap, I.src1) = acc.array
  BY <1>1, <1>6, <1>7, RowOwner, Zenon
<1>9. Index(first.iterators, first.constant) = acc.indexes[1]
  BY <1>1, <1>4, <1>5, <1>6, Zenon DEF RowHeld
<1>10. FindsIndex(acc.indexes[2])
  BY <1>1, <1>6, IndexFound, Zenon
<1>11. PICK f : FoundIndex = {f} /\ Index(f.iterators, f.constant) = acc.indexes[2]
  BY <1>10 DEF FindsIndex
<1>12. Indexed(FALSE, TRUE).second = f /\ Indexed(FALSE, TRUE).first = first
  BY <1>11, IndexedFields DEF RowHeld
<1>13. arraysInfoMap[acc.array] = Dimensions(prog.dims[acc.array])
  <2>1. acc.array \notin {J.dst : J \in Pointers}
    BY <1>1, <1>4, Pointing, OneWriter, Zenon DEF Writers
  <2> HIDE DEF acc
  <2> QED BY <1>8, <2>1 DEF TypeInv, ArraysOK
<1>14. arraysInfoMap[acc.array][1] > 1
  BY <1>1, <1>4, <1>5, <1>13, MatrixSizes, Zenon
<1>15. p \in Range(aliasInfoMap'[acc.array])
  <2>1. aliasInfoMap[acc.array] \in Seq(Nat)
    BY <1>8 DEF ArraysHeld
  <2>2. aliasInfoMap' = AddAlias(aliasInfoMap, acc.array, p)
    BY <1>8 DEF ToElement
  <2> HIDE DEF acc
  <2>3. aliasInfoMap'[acc.array] = Append(aliasInfoMap[acc.array], p)
    BY <1>8, <2>2 DEF AddAlias, PushBack, ListAt
  <2>4. p \in Nat
    BY <1>1
  <2>5. Range(Append(aliasInfoMap[acc.array], p)) = Range(aliasInfoMap[acc.array]) \cup {p}
    BY <2>1, <2>4, RangeAppended
  <2> QED BY <2>3, <2>5
<1>16. pointerInfoMap'[p].indexes = <<first, f>>
  BY <1>8, <1>12, <1>14, Zenon DEF Recorded
<1>17. DOMAIN acc.indexes = 1..2
  BY <1>1, <1>5, IndexesOfAccess, Zenon
<1> HIDE DEF acc, first
<1>18. Len(<<first, f>>) = 2 /\ <<first, f>>[1] = first /\ <<first, f>>[2] = f
  OBVIOUS
<1>19. \A n \in DOMAIN acc.indexes : n = 1 \/ n = 2
  BY <1>17
<1>20. \A n \in DOMAIN acc.indexes :
         Index(<<first, f>>[n].iterators, <<first, f>>[n].constant) = acc.indexes[n]
  BY <1>9, <1>11, <1>18, <1>19
<1> QED BY <1>5, <1>8, <1>15, <1>16, <1>18, <1>20, <1>13 DEF acc

LEMMA PointersRead ==
  ASSUME LoopInv, Plain, IteratorsHeld, SumsHeld, ArraysHeld, RowHeld, PointersHeld, Reading,
         DOMAIN pointerInfoMap' \subseteq DOMAIN prog.access
  PROVE  PointersHeld'
<1>1. /\ prog' = prog /\ TypeInv /\ pc' # "alloca" /\ pc = "blocks" /\ prog \in Programs
      /\ BlockId \in DOMAIN prog.code
  <2>1. TypeInv
    BY DEF LoopInv
  <2>2. prog' = prog /\ pc' \in {"blocks", "undefined"} /\ InBlock /\ BlockId \in DOMAIN prog.code
    BY <2>1, ReadingStep
  <2> QED BY <2>1, <2>2 DEF InBlock, TypeInv
<1>2. \A n : IteratorOf(n)' = IteratorOf(n)
  BY <1>1 DEF IteratorOf
<1>3. ASSUME NEW p \in DOMAIN pointerInfoMap, Handled(p), pointerInfoMap'[p] = pointerInfoMap[p]
      PROVE  RecordHeld(p)'
  <2> DEFINE a == prog.access[p].array
  <2>1. RecordHeld(p)
    BY <1>3 DEF PointersHeld
  <2>2. a \in DOMAIN prog.dims
    BY <1>3 DEF Handled, HandledIn
  <2>3. a \in DOMAIN aliasInfoMap /\ aliasInfoMap[a] \in Seq(Nat)
    BY <1>1, <2>2 DEF ArraysHeld
  <2>4. AliasKept(a)
    BY <1>1, <2>3, AliasesRead
  <2>5. p \in Range(aliasInfoMap[a])
    BY <2>1 DEF RecordHeld
  <2> HIDE DEF a
  <2>6. I.dst \in Nat
    BY <1>1, ReadingStep DEF Instructions
  <2>7. p \in Range(aliasInfoMap'[a])
    <3>1. CASE aliasInfoMap'[a] = aliasInfoMap[a]
      BY <2>5, <3>1
    <3>2. CASE aliasInfoMap'[a] = Append(aliasInfoMap[a], I.dst)
      BY <2>3, <2>5, <2>6, <3>2, RangeAppended
    <3> QED BY <2>4, <3>1, <3>2 DEF AliasKept
  <2> USE DEF a
  <2> QED BY <1>1, <1>2, <1>3, <2>1, <2>7 DEF RecordHeld, Loops
<1>4. ASSUME NEW p, p = I.dst, p \in DOMAIN prog.access, Handled(p), Pointer,
             NEW struct, NEW sizes, Recorded(p, struct, sizes)
      PROVE  /\ prog.access[p].loop \in Loops
             /\ pointerInfoMap'[p].loopIterator = IteratorOf(prog.access[p].loop)
  <2> DEFINE v == pointerInfoMap'[p].loopIterator
  <2>1. v \in DOMAIN loopInfoMap /\ BlockId \in Range(loopInfoMap[v].body)
    BY <1>4 DEF Recorded
  <2>2. \E n \in Loops : v = IteratorOf(n) /\ BlockId \in Range(prog.loops[n].body)
    <3> HIDE DEF v
    <3> QED BY <2>1, LoopOfBlock
  <2>3. PICK n \in Loops : v = IteratorOf(n) /\ BlockId \in Range(prog.loops[n].body)
    BY <2>2
  <2>4. I.op = "ptr"
    BY <1>4 DEF Pointer, Reads
  <2>5. n = prog.access[p].loop
    BY <1>1, <1>4, <2>3, <2>4, AccessRead
  <2> QED BY <2>3, <2>5
<1>5. ASSUME NEW p \in DOMAIN pointerInfoMap', Handled(p), p \notin DOMAIN pointerInfoMap
      PROVE  RecordHeld(p)'
  <2>1. Pointer
    BY <1>5 DEF Reading, Store, LoadIterator, Load, Add, SignExtend, Other, OtherPointer, pointers
  <2>2. p \in DOMAIN prog.access
    BY <1>5
  <2>3. CASE ToVector
    <3> DEFINE sizes == arraysInfoMap[I.src1]
    <3>1. SetPointerInfo(I.dst, Indexed(TRUE, FALSE), sizes)
      BY <2>3 DEF ToVector
    <3> HIDE DEF sizes
    <3>2. p = I.dst
      BY <1>5, <3>1, PointerRecorded
    <3>3. Recorded(p, Indexed(TRUE, FALSE), sizes)
      BY <1>5, <3>1, <3>2, PointerRecorded
    <3>4. sizes[1] = 1
      <4>1. I.src1 \in DOMAIN prog.dims /\ sizes = Dimensions(prog.dims[I.src1])
            /\ Len(prog.dims[I.src1]) = 1
        BY <2>3 DEF ToVector, IsVector, sizes
      <4> QED BY <1>1, <4>1, MatrixSizes
    <3>5. pointerInfoMap'[p].indexes = <<Indexed(TRUE, FALSE).first>>
      BY <3>3, <3>4 DEF Recorded
    <3>6. /\ prog.access[p].loop \in Loops
          /\ pointerInfoMap'[p].loopIterator = IteratorOf(prog.access[p].loop)
          /\ pointerInfoMap'[p].arrayRows = sizes[1] /\ pointerInfoMap'[p].arrayCols = sizes[2]
      BY <1>4, <1>5, <2>1, <2>2, <3>2, <3>3 DEF Recorded
    <3>7. LET acc == prog.access[p]
              indexes == pointerInfoMap'[p].indexes
          IN /\ p \in Range(aliasInfoMap'[acc.array])
             /\ sizes = Dimensions(prog.dims[acc.array])
             /\ Len(prog.dims[acc.array]) = Len(acc.indexes)
             /\ Len(indexes) = Len(acc.indexes)
             /\ \A n \in DOMAIN acc.indexes :
                  Index(indexes[n].iterators, indexes[n].constant) = acc.indexes[n]
      BY <1>1, <1>5, <2>1, <2>2, <2>3, <3>2, <3>5, RecordOfVector DEF sizes
    <3> QED BY <1>1, <1>2, <3>6, <3>7 DEF RecordHeld, Loops
  <2>4. CASE ToElement
    <3> DEFINE sizes == arraysInfoMap[getAllocatedReg(aliasInfoMap, I.src1)]
    <3>1. SetPointerInfo(I.dst, Indexed(FALSE, TRUE), sizes)
      BY <2>4 DEF ToElement
    <3> HIDE DEF sizes
    <3>2. p = I.dst
      BY <1>5, <3>1, PointerRecorded
    <3>3. Recorded(p, Indexed(FALSE, TRUE), sizes)
      BY <1>5, <3>1, <3>2, PointerRecorded
    <3>4. /\ prog.access[p].loop \in Loops
          /\ pointerInfoMap'[p].loopIterator = IteratorOf(prog.access[p].loop)
          /\ pointerInfoMap'[p].arrayRows = sizes[1] /\ pointerInfoMap'[p].arrayCols = sizes[2]
      BY <1>4, <1>5, <2>1, <2>2, <3>2, <3>3 DEF Recorded
    <3>5. LET acc == prog.access[p]
              indexes == pointerInfoMap'[p].indexes
          IN /\ p \in Range(aliasInfoMap'[acc.array])
             /\ sizes = Dimensions(prog.dims[acc.array])
             /\ Len(prog.dims[acc.array]) = Len(acc.indexes)
             /\ Len(indexes) = Len(acc.indexes)
             /\ \A n \in DOMAIN acc.indexes :
                  Index(indexes[n].iterators, indexes[n].constant) = acc.indexes[n]
      BY <1>1, <1>5, <2>1, <2>2, <2>4, <3>2, <3>3, RecordOfElement DEF sizes
    <3> QED BY <1>1, <1>2, <3>4, <3>5 DEF RecordHeld, Loops
  <2> QED BY <1>1, <1>5, <2>1, <2>3, <2>4, PointerCases DEF ToRow
<1>6. \A p \in DOMAIN pointerInfoMap : pointerInfoMap'[p] = pointerInfoMap[p]
  <2>1. CASE Pointer
    <3>1. ToVector \/ ToElement \/ ToRow
      BY <1>1, <2>1, PointerCases
    <3>2. UNCHANGED pointerInfoMap
          \/ \E reg, struct, sizes : SetPointerInfo(reg, struct, sizes)
      BY <3>1 DEF ToVector, ToElement, ToRow
    <3> QED BY <3>2, PointerRecorded
  <2>2. CASE Store \/ LoadIterator \/ Load \/ Add \/ SignExtend \/ Other \/ OtherPointer
    BY <2>2 DEF Store, LoadIterator, Load, Add, SignExtend, Other, OtherPointer, pointers
  <2> QED BY <2>1, <2>2 DEF Reading
<1>7. \A p : Handled(p)' = Handled(p)
  BY <1>1, SameLayout
<1> QED BY <1>1, <1>3, <1>5, <1>6, <1>7 DEF PointersHeld

LEMMA AccessInit == Init => AccessInv
<1> SUFFICES ASSUME Init
             PROVE  AccessInv
  OBVIOUS
<1>1. LoopInv
  BY InitLoops
<1>2. /\ pc = "alloca" /\ DOMAIN iteratorsAliasMap = {} /\ DOMAIN combinedIteratorsMap = {}
      /\ DOMAIN aliasInfoMap = {} /\ DOMAIN arraysInfoMap = {} /\ DOMAIN pointerInfoMap = {}
      /\ DOMAIN tmpPointerStruct = {"first", "second"}
  BY DEF Init, EmptyMap
<1>3. ~InBlock
  BY <1>2 DEF InBlock
<1>4. IteratorsHeld /\ SumsHeld
  BY <1>2, <1>3 DEF IteratorsHeld, SumsHeld
<1>5. ArraysHeld /\ RowHeld /\ PointersHeld
  BY <1>2, <1>3 DEF ArraysHeld, RowHeld, PointersHeld
<1> QED BY <1>1, <1>4, <1>5 DEF AccessInv

LEMMA AccessStutter ==
  ASSUME UNCHANGED vars
  PROVE  /\ IteratorsHeld' = IteratorsHeld /\ SumsHeld' = SumsHeld /\ ArraysHeld' = ArraysHeld
         /\ RowHeld' = RowHeld /\ PointersHeld' = PointersHeld
<1>1. /\ prog' = prog /\ UNCHANGED <<pc, loop, block, pos>>
      /\ UNCHANGED <<iteratorsAliasMap, aliasInfoMap, arraysInfoMap, combinedIteratorsMap,
                     combinedIterators, tmpPointerStruct, pointerInfoMap, validBBs>>
      /\ UNCHANGED LIT /\ Code' = Code /\ BlockId' = BlockId
  BY SameTables
<1>2. InBlock' = InBlock
  BY <1>1 DEF InBlock
<1>3. /\ Pointers' = Pointers
      /\ \A v, r : RegisterOf(v, r)' = RegisterOf(v, r)
      /\ \A k, b, a : SumIn(k, b, a)' = SumIn(k, b, a)
      /\ \A a, r : Owns(a, r)' = Owns(a, r)
      /\ \A p : Handled(p)' = Handled(p)
  BY <1>1, SameLayout
<1>4. IteratorsHeld' = IteratorsHeld
  BY <1>1, <1>2, <1>3 DEF IteratorsHeld
<1>5. SumsHeld' = SumsHeld
  <2>1. \A e, a : ExtendedAt(e, a)' = ExtendedAt(e, a)
    BY <1>1 DEF ExtendedAt
  <2> QED BY <1>1, <1>2, <1>3, <2>1 DEF SumsHeld
<1>6. ArraysHeld' = ArraysHeld
  BY <1>1, <1>3 DEF ArraysHeld
<1>7. RowHeld' = RowHeld
  BY <1>1, <1>2 DEF RowHeld
<1>8. PointersHeld' = PointersHeld
  <2>1. \A n : IteratorOf(n)' = IteratorOf(n)
    BY <1>1 DEF IteratorOf
  <2>2. \A p : RecordHeld(p)' = RecordHeld(p)
    BY <1>1, <2>1 DEF RecordHeld, Loops
  <2> QED BY <1>1, <1>3, <2>2 DEF PointersHeld
<1> QED BY <1>4, <1>5, <1>6, <1>7, <1>8

LEMMA AccessStep ==
  ASSUME AccessInv, [Next]_vars
  PROVE  AccessInv'
<1>1. LoopInv /\ TypeInv
  BY DEF AccessInv, LoopInv
<1>2. LoopInv'
  BY <1>1, LoopsStep
<1>3. prog' = prog
  BY <1>1, NextCases, WalkingStep, ReadingStep, SameTables
<1>4. SUFFICES ASSUME Plain
               PROVE  (IteratorsHeld /\ SumsHeld /\ ArraysHeld /\ RowHeld /\ PointersHeld)'
  BY <1>2, <1>3, SameLayout DEF AccessInv
<1>5. IteratorsHeld /\ SumsHeld /\ ArraysHeld /\ RowHeld /\ PointersHeld
  BY <1>4 DEF AccessInv
<1>6. CASE UNCHANGED vars
  BY <1>5, <1>6, AccessStutter
<1>7. CASE Walking
  BY <1>1, <1>4, <1>5, <1>7, IteratorsWalk, SumsWalk, ArraysWalk, RowsWalk, PointersWalk
<1>8. CASE Reading
  <2>1. DOMAIN pointerInfoMap' \subseteq DOMAIN prog.access
    BY <1>2, <1>3 DEF LoopInv, TypeInv, PointersOK
  <2>2. PointersHeld'
    BY <1>1, <1>4, <1>5, <1>8, <2>1, PointersRead
  <2> QED BY <1>1, <1>5, <1>8, <2>2, IteratorsRead, SumsRead, ArraysRead, RowsRead
<1> QED BY <1>6, <1>7, <1>8, NextCases

LEMMA AccessInvariance == Spec => []AccessInv
<1> QED BY AccessInit, AccessStep, PTL DEF Spec

(* Whatever was accessed before it, and in whatever order the instructions *)
(* of a block come, an access in one of the forms that parseLoopBody has a *)
(* case for is recorded with the iterators and the constants of its own    *)
(* indexes, for its own array and under its own loop (CollectInfo.cpp:     *)
(* parseLoopBody, setPointerInfo): the members that no instruction resets  *)
(* hold what the pointer before it left there, and nothing else.           *)
THEOREM IndexesCorrect == Spec => []IndexesRecorded
<1>1. AccessInv => IndexesRecorded
  <2> SUFFICES ASSUME AccessInv, NEW p \in DOMAIN pointerInfoMap, Handled(p), Plain
               PROVE  LET a == prog.access[p]
                          own == getAllocatedReg(aliasInfoMap, p)
                      IN /\ own = a.array
                         /\ pointerInfoMap[p].loopIterator = IteratorOf(a.loop)
                         /\ Len(pointerInfoMap[p].indexes) = Len(a.indexes)
                         /\ \A n \in DOMAIN a.indexes :
                              LET r == pointerInfoMap[p].indexes[n]
                              IN Index(r.iterators, r.constant) = a.indexes[n]
    BY DEF IndexesRecorded, Plain
  <2>1. TypeInv /\ ArraysHeld /\ PointersHeld
    BY DEF AccessInv, LoopInv
  <2>2. RecordHeld(p)
    BY <2>1 DEF PointersHeld
  <2>3. pc # "alloca" /\ prog.access[p].array \in DOMAIN prog.dims
    BY <2>1 DEF PointersHeld, Handled, HandledIn
  <2>4. prog.access[p].array \in DOMAIN aliasInfoMap
    BY <2>1, <2>3 DEF ArraysHeld
  <2>5. p \in Range(aliasInfoMap[prog.access[p].array])
    BY <2>2 DEF RecordHeld
  <2>6. getAllocatedReg(aliasInfoMap, p) = prog.access[p].array
    BY <2>1, <2>4, <2>5, Owner
  <2> QED BY <2>2, <2>6 DEF RecordHeld
<1> QED BY <1>1, AccessInvariance, PTL

-----------------------------------------------------------------------------
(* What is handed to the dependency detector.  Of the first m instructions *)
(* of a block that was read, the extensions of sums have taken the sums    *)
(* for indexes (taken), and the elements of arrays are in the tables.      *)
Settled(p, b, m, taken, recorded) ==
  \A e \in 1..m :
    LET J == p.code[b][e]
    IN /\ (\E a \in DOMAIN p.code[b] : ExtendedSum(p, b, a, e)) => J.src1 \in taken
       /\ (J.op = "ptr" /\ J.dst \in DOMAIN p.access /\ HandledIn(p, J.dst)) => J.dst \in recorded

(* combinedIterators and the valid blocks: the first block is the one that *)
(* is searched for allocas, and every other one was read to its end.       *)
BlocksHeld ==
  /\ combinedIterators \subseteq {K.src1 : K \in Extensions}
  /\ pc = "alloca" => validBBs = << >>
  /\ pc # "alloca" => Len(validBBs) > 0 /\ validBBs[1] = prog.blocks[1]
  /\ \A n \in DOMAIN validBBs : n > 1 =>
       Settled(prog, validBBs[n], Len(prog.code[validBBs[n]]), combinedIterators,
               DOMAIN pointerInfoMap)
  /\ InBlock => Settled(prog, BlockId, pos - 1, combinedIterators, DOMAIN pointerInfoMap)

BlocksInv == AccessInv /\ (Plain => BlocksHeld)

(* A sum is still in its register when it is extended.                     *)
LEMMA SumTaken ==
  ASSUME TypeInv, SumsHeld, Reading,
         NEW a \in DOMAIN prog.code[BlockId], ExtendedSum(prog, BlockId, a, pos)
  PROVE  I.src1 \in combinedIterators'
<1>1. /\ InBlock /\ BlockId \in DOMAIN prog.code /\ Code = prog.code[BlockId] /\ prog \in Programs
      /\ pos \in DOMAIN Code /\ pos \in Nat \ {0} /\ I = Code[pos] /\ I \in InstructionsOf(prog)
  BY ReadingStep DEF TypeInv
<1>2. DOMAIN Code = 1..Len(Code) /\ a \in DOMAIN Code
  BY <1>1, Program
<1>3. /\ a < pos /\ I.op = "sext" /\ I.src1 = Code[a].dst
      /\ \E x : AddsUp(prog, Code, a, x)
  BY <1>1 DEF ExtendedSum
<1>4. a \in 1..(pos - 1)
  BY <1>1, <1>2, <1>3
<1>5. ASSUME NEW e \in (a + 1)..(pos - 1), ExtendedAt(e, a)
      PROVE  FALSE
  <2>1. e \in DOMAIN Code /\ e # pos
    BY <1>1, <1>2
  <2>2. Code[e].op = "sext" /\ Code[e].src1 = I.src1
    BY <1>3, <1>5 DEF ExtendedAt
  <2>3. Code[e] \in Extensions /\ I \in Extensions
    BY <1>1, <1>3, <2>1, <2>2, PlaceOfInstruction DEF Extensions
  <2>4. Code[e] = I
    BY <1>1, <2>2, <2>3, Extending
  <2>5. e = pos
    BY <1>1, <2>1, <2>2, <2>4, OnePlace
  <2> QED BY <2>1, <2>5
<1>6. I.src1 \in DOMAIN combinedIteratorsMap
  BY <1>1, <1>3, <1>4, <1>5 DEF SumsHeld
<1>7. SignExtend
  BY <1>3 DEF Reading, Store, LoadIterator, Load, Add, Other, Pointer, OtherPointer, Reads
<1> QED BY <1>6, <1>7 DEF SignExtend

(* A pointer to an element is recorded, or the parser reads the end of a   *)
(* map.                                                                    *)
LEMMA ElementRecorded ==
  ASSUME TypeInv, IteratorsHeld, SumsHeld, ArraysHeld, RowHeld, Reading,
         I.op = "ptr", I.dst \in DOMAIN prog.access, Handled(I.dst)
  PROVE  pc' = "undefined" \/ I.dst \in DOMAIN pointerInfoMap'
<1> DEFINE acc == prog.access[I.dst]
<1>1. /\ InBlock /\ pc = "blocks" /\ pos \in DOMAIN Code /\ prog \in Programs
      /\ I = Code[pos] /\ BlockId \in DOMAIN prog.code /\ Code = prog.code[BlockId]
      /\ DOMAIN Code = 1..Len(Code)
  BY ReadingStep, Program DEF TypeInv, InBlock
<1>2. ReadsElement(prog, Code, pos, acc)
  BY AccessRead
<1>3. acc.array \in DOMAIN prog.dims
  BY DEF Handled, HandledIn
<1>4. \A J \in Pointers : J.dst \notin DOMAIN prog.dims
  <2>1. \A J \in Pointers : J \in Writers /\ J \in InstructionsOf(prog)
    BY <1>1, Pointing DEF Writers
  <2> QED BY <1>1, <2>1, OneWriter
<1>5. I.src1 \in DOMAIN arraysInfoMap /\ (Pointer => ~ToRow)
  <2>1. CASE Len(prog.dims[acc.array]) = 1 /\ I.src1 = acc.array
    <3>1. IsVector(I.src1)
      BY <1>3, <2>1 DEF IsVector
    <3> QED BY <1>1, <1>3, <1>4, <2>1, <3>1 DEF ArraysHeld, ToRow
  <2>2. CASE /\ Len(prog.dims[acc.array]) = 2
             /\ \E g \in 1..(pos - 1) :
                  /\ Code[g].op = "ptr" /\ Code[g].src1 = acc.array /\ I.src1 = Code[g].dst
                  /\ \A k \in (g + 1)..(pos - 1) : Code[k].op # "ptr"
                  /\ ReadsIndex(prog, Code, pos, acc.indexes[2])
    <3>1. PICK g \in 1..(pos - 1) :
                  /\ Code[g].op = "ptr" /\ Code[g].src1 = acc.array /\ I.src1 = Code[g].dst
                  /\ \A k \in (g + 1)..(pos - 1) : Code[k].op # "ptr"
                  /\ ReadsIndex(prog, Code, pos, acc.indexes[2])
      BY <2>2
    <3>2. I.src1 \in DOMAIN arraysInfoMap
      BY <1>1, <1>3, <2>2, <3>1, Zenon DEF RowHeld
    <3>3. Code[g] \in Pointers
      <4>1. g \in DOMAIN Code
        BY <1>1
      <4>2. Code[g] \in InstructionsOf(prog)
        BY <1>1, <4>1, PlaceOfInstruction, Zenon
      <4>3. Code[g].op = "ptr" /\ prog \in Programs
        BY <1>1, <3>1, Zenon
      <4> QED BY <4>2, <4>3, Pointing, Zenon
    <3>4. FindsIndex(acc.indexes[2])
      BY <1>1, <3>1, IndexFound, Zenon
    <3>5. FoundIndex # {}
      BY <3>4 DEF FindsIndex
    <3> QED BY <1>4, <3>1, <3>2, <3>3, <3>5 DEF ToRow
  <2> QED BY <1>1, <1>2, <2>1, <2>2, Zenon DEF ReadsElement
<1>6. Pointer
  BY <1>5 DEF Reading, Store, LoadIterator, Load, Add, SignExtend, Other, OtherPointer, Reads
<1>7. \E struct, sizes : SetPointerInfo(I.dst, struct, sizes)
  BY <1>5, <1>6, PointerCases DEF ToVector, ToElement
<1>8. ASSUME NEW struct, NEW sizes, SetPointerInfo(I.dst, struct, sizes)
      PROVE  pc' = "undefined" \/ I.dst \in DOMAIN pointerInfoMap'
  <2>1. pc' = "undefined" \/ \E e : pointerInfoMap' = Insert(pointerInfoMap, I.dst, e)
    BY <1>8 DEF SetPointerInfo
  <2> QED BY <2>1 DEF Insert
<1> QED BY <1>7, <1>8

(* The two sets only grow.                                                 *)
LEMMA SettledStays ==
  ASSUME NEW p, NEW b, NEW m, NEW S, NEW T, NEW R, NEW U,
         S \subseteq T, R \subseteq U, Settled(p, b, m, S, R)
  PROVE  Settled(p, b, m, T, U)
BY DEF Settled

LEMMA BlocksWalk ==
  ASSUME TypeInv, BlocksHeld, Walking
  PROVE  BlocksHeld'
<1> DEFINE S == combinedIterators
           R == DOMAIN pointerInfoMap
           Whole(b) == Settled(prog, b, Len(prog.code[b]), S, R)
           Ids == {prog.blocks[n] : n \in DOMAIN prog.blocks}
<1>1. /\ prog' = prog /\ pc' # "alloca" /\ (InBlock' => pos' = 1)
      /\ combinedIterators' = combinedIterators /\ pointerInfoMap' = pointerInfoMap
      /\ prog \in Programs /\ validBBs \in Seq(Ids)
  BY WalkingStep DEF TypeInv, MapsOK
<1>2. \A n \in DOMAIN validBBs : n > 1 => Whole(validBBs[n])
  BY DEF BlocksHeld
<1>3. /\ Len(validBBs') > 0 /\ validBBs'[1] = prog.blocks[1]
      /\ \A n \in DOMAIN validBBs' : n > 1 => Whole(validBBs'[n])
  <2> HIDE DEF Whole, Ids
  <2>1. CASE ParseAllocas
    <3>1. validBBs' = <<prog.blocks[1]>>
      BY <2>1 DEF ParseAllocas
    <3> QED BY <3>1
  <2>2. CASE LeaveBlock
    <3>1. /\ InBlock /\ pos > Len(Code) /\ validBBs' = Append(validBBs, BlockId) /\ pc # "alloca"
      BY <2>2 DEF LeaveBlock, InBlock
    <3>2. BlockId \in Ids /\ BlockId \in DOMAIN prog.code
      <4>1. block \in DOMAIN prog.blocks
        BY <3>1, Program DEF InBlock, TypeInv, PlaceOK
      <4>2. BlockId = prog.blocks[block]
        BY DEF BlockId
      <4>3. prog.blocks[block] \in DOMAIN prog.code
        BY <1>1, <4>1, Program
      <4> QED BY <1>1, <4>1, <4>2, <4>3, Program DEF Ids
    <3>3. Whole(BlockId)
      <4>1. Settled(prog, BlockId, pos - 1, S, R)
        BY <3>1 DEF BlocksHeld
      <4>2. Len(Code) \in Nat /\ pos \in Nat
        <5>1. Code \in Seq(Instructions)
          BY <1>1, <3>2, ProgramsAssumption DEF Code
        <5> QED BY <5>1 DEF TypeInv, PlaceOK
      <4>3. 1..Len(Code) \subseteq 1..(pos - 1)
        BY <3>1, <4>2
      <4> QED BY <4>1, <4>3 DEF Settled, Whole, Code
    <3>4. Len(validBBs) > 0 /\ validBBs[1] = prog.blocks[1]
      BY <3>1 DEF BlocksHeld
    <3>5. /\ Len(validBBs') = Len(validBBs) + 1 /\ Len(validBBs) \in Nat
          /\ DOMAIN validBBs' = 1..(Len(validBBs) + 1) /\ DOMAIN validBBs = 1..Len(validBBs)
          /\ \A n \in 1..Len(validBBs) : validBBs'[n] = validBBs[n]
          /\ validBBs'[Len(validBBs) + 1] = BlockId
      BY <1>1, <3>1, <3>2
    <3>6. \A n \in DOMAIN validBBs' : n \in DOMAIN validBBs \/ n = Len(validBBs) + 1
      BY <3>5
    <3>7. validBBs'[1] = prog.blocks[1] /\ Len(validBBs') > 0
      BY <3>4, <3>5
    <3> QED BY <1>2, <3>3, <3>5, <3>6, <3>7
  <2>3. CASE ParseLoopPreheader \/ HeaderLoad \/ HeaderCompare \/ AllLoops \/ EnterBlock \/ AllBlocks
    <3>1. pc # "alloca" /\ validBBs' = validBBs
      BY <2>3 DEF ParseLoopPreheader, HeaderLoad, HeaderCompare, AllLoops, EnterBlock, AllBlocks
    <3> QED BY <1>2, <3>1 DEF BlocksHeld
  <2> QED BY <2>1, <2>2, <2>3 DEF Walking
<1>4. Extensions' = Extensions
  BY <1>1, SameLayout
<1>5. InBlock' => Settled(prog', BlockId', pos' - 1, S', R')
  <2> HAVE InBlock'
  <2>1. 1..(pos' - 1) = {}
    BY <1>1
  <2> QED BY <2>1 DEF Settled
<1> QED BY <1>1, <1>3, <1>4, <1>5 DEF BlocksHeld

LEMMA BlocksRead ==
  ASSUME TypeInv, IteratorsHeld, SumsHeld, ArraysHeld, RowHeld, BlocksHeld, Reading
  PROVE  BlocksHeld'
<1> DEFINE S == combinedIterators
           R == DOMAIN pointerInfoMap
<1>1. /\ InBlock /\ prog' = prog /\ validBBs' = validBBs /\ pc = "blocks"
      /\ BlockId \in DOMAIN prog.code /\ Code = prog.code[BlockId]
      /\ pos \in Nat \ {0} /\ I = Code[pos] /\ I \in InstructionsOf(prog)
      /\ pos' = pos + 1 /\ BlockId' = BlockId /\ pc' \in {"blocks", "undefined"}
  BY ReadingStep DEF InBlock
<1>2. \/ S' = S
      \/ I.op = "sext" /\ S' = S \cup {I.src1}
  BY DEF Reading, Store, LoadIterator, Load, Add, SignExtend, Other, Pointer, OtherPointer,
         combined, Reads
<1>3. S \subseteq S' /\ S' \subseteq {K.src1 : K \in Extensions}
  BY <1>1, <1>2 DEF BlocksHeld, Extensions
<1>4. R \subseteq R'
  <2>1. CASE Pointer
    <3>1. UNCHANGED pointerInfoMap
          \/ \E reg, struct, sizes : SetPointerInfo(reg, struct, sizes)
      BY <2>1, PointerCases DEF ToVector, ToElement, ToRow
    <3> QED BY <3>1, PointerRecorded
  <2>2. CASE Store \/ LoadIterator \/ Load \/ Add \/ SignExtend \/ Other \/ OtherPointer
    BY <2>2 DEF Store, LoadIterator, Load, Add, SignExtend, Other, OtherPointer, pointers
  <2> QED BY <2>1, <2>2 DEF Reading
<1>5. \A n \in DOMAIN validBBs : n > 1 =>
        Settled(prog, validBBs[n], Len(prog.code[validBBs[n]]), S', R')
  <2> HIDE DEF S, R
  <2> SUFFICES ASSUME NEW n \in DOMAIN validBBs, n > 1
               PROVE  Settled(prog, validBBs[n], Len(prog.code[validBBs[n]]), S', R')
    OBVIOUS
  <2>1. Settled(prog, validBBs[n], Len(prog.code[validBBs[n]]), S, R)
    BY DEF BlocksHeld, S, R
  <2> QED BY <1>3, <1>4, <2>1, SettledStays
<1>6. InBlock' => Settled(prog, BlockId, pos, S', R')
  <2> HAVE InBlock'
  <2>1. pc' # "undefined"
    BY DEF InBlock
  <2>2. Settled(prog, BlockId, pos - 1, S, R)
    BY <1>1 DEF BlocksHeld
  <2>3. Settled(prog, BlockId, pos - 1, S', R')
    <3> HIDE DEF S, R
    <3> QED BY <1>3, <1>4, <2>2, SettledStays
  <2>4. \A a \in DOMAIN prog.code[BlockId] : ExtendedSum(prog, BlockId, a, pos) => I.src1 \in S'
    BY SumTaken
  <2>5. I.op = "ptr" /\ I.dst \in DOMAIN prog.access /\ HandledIn(prog, I.dst) => I.dst \in R'
    BY <2>1, ElementRecorded DEF Handled
  <2>6. \A e \in 1..pos : e \in 1..(pos - 1) \/ e = pos
    BY <1>1
  <2> HIDE DEF S, R
  <2> QED BY <1>1, <2>3, <2>4, <2>5, <2>6 DEF Settled
<1>7. pos' - 1 = pos /\ Extensions' = Extensions
  BY <1>1, SameLayout
<1>8. InBlock' => Settled(prog', BlockId', pos' - 1, S', R')
  BY <1>1, <1>6, <1>7
<1>9. pc # "alloca" /\ pc' # "alloca"
  BY <1>1
<1> QED BY <1>1, <1>3, <1>5, <1>7, <1>8, <1>9 DEF BlocksHeld

LEMMA BlocksStep ==
  ASSUME BlocksInv, [Next]_vars
  PROVE  BlocksInv'
<1>1. AccessInv /\ AccessInv' /\ TypeInv
  BY AccessStep DEF BlocksInv, AccessInv, LoopInv
<1>2. prog' = prog
  BY <1>1, NextCases, WalkingStep, ReadingStep, SameTables
<1>3. SUFFICES ASSUME Plain
               PROVE  BlocksHeld'
  BY <1>1, <1>2, SameLayout DEF BlocksInv
<1>4. BlocksHeld /\ IteratorsHeld /\ SumsHeld /\ ArraysHeld /\ RowHeld
  BY <1>1, <1>3 DEF BlocksInv, AccessInv
<1>5. CASE UNCHANGED vars
  <2>1. /\ UNCHANGED <<pc, pos, block, combinedIterators, pointerInfoMap, validBBs>>
        /\ BlockId' = BlockId /\ Extensions' = Extensions /\ prog' = prog
    BY <1>2, <1>5, SameTables, SameLayout
  <2>2. InBlock' = InBlock
    BY <2>1 DEF InBlock
  <2> QED BY <1>4, <2>1, <2>2 DEF BlocksHeld
<1> QED BY <1>1, <1>4, <1>5, NextCases, BlocksWalk, BlocksRead

LEMMA BlocksInvariance == Spec => []BlocksInv
<1>1. Init => BlocksInv
  <2> SUFFICES ASSUME Init
               PROVE  BlocksInv
    OBVIOUS
  <2>1. pc = "alloca" /\ validBBs = << >> /\ combinedIterators = {}
    BY DEF Init
  <2>2. DOMAIN validBBs = {}
    BY <2>1
  <2> QED BY <2>1, <2>2, AccessInit DEF BlocksInv, BlocksHeld, InBlock
<1> QED BY <1>1, BlocksStep, PTL DEF Spec

(* A block that is handed on and has an extension or a pointer was read to *)
(* its end.                                                                *)
LEMMA ReadToItsEnd ==
  ASSUME TypeInv, BlocksHeld, pc = "done", IndexesApart,
         NEW b \in Range(validBBs), NEW e \in DOMAIN prog.code[b],
         prog.code[b][e].op \in {"sext", "ptr"}
  PROVE  Settled(prog, b, Len(prog.code[b]), combinedIterators, DOMAIN pointerInfoMap)
<1>1. PICK n \in DOMAIN validBBs : b = validBBs[n]
  BY DEF Range
<1>2. n \in Nat \ {0}
  <2> DEFINE Ids == {prog.blocks[k] : k \in DOMAIN prog.blocks}
  <2>1. validBBs \in Seq(Ids)
    BY DEF TypeInv, MapsOK
  <2> HIDE DEF Ids
  <2>2. DOMAIN validBBs = 1..Len(validBBs) /\ Len(validBBs) \in Nat
    BY <2>1
  <2> QED BY <2>2
<1>3. n # 1
  <2> SUFFICES ASSUME n = 1
               PROVE  FALSE
    OBVIOUS
  <2>1. b = prog.blocks[1]
    BY <1>1 DEF BlocksHeld
  <2>2. \A m \in DOMAIN prog.code[prog.blocks[1]] :
          prog.code[prog.blocks[1]][m].op \notin {"sext", "ptr"}
    BY DEF IndexesApart
  <2> QED BY <2>1, <2>2
<1> QED BY <1>1, <1>2, <1>3 DEF BlocksHeld

LEMMA PlaceOfEmitted ==
  ASSUME NEW J \in Emitted
  PROVE  \E b \in Range(validBBs) : \E m \in DOMAIN prog.code[b] : J = prog.code[b][m]
BY DEF Emitted, Range

LEMMA BlocksOfFunction ==
  ASSUME TypeInv, NEW b \in Range(validBBs)
  PROVE  b \in DOMAIN prog.code
<1> DEFINE Ids == {prog.blocks[k] : k \in DOMAIN prog.blocks}
<1>1. validBBs \in Seq(Ids) /\ prog \in Programs
  BY DEF TypeInv, MapsOK
<1>2. Range(validBBs) \subseteq Ids
  <2> HIDE DEF Ids
  <2> QED BY <1>1 DEF Range
<1>3. prog.blocks \in Seq(DOMAIN prog.code) /\ DOMAIN prog.blocks = 1..Len(prog.blocks)
      /\ Len(prog.blocks) \in Nat
  BY <1>1, Program
<1>4. \A k \in DOMAIN prog.blocks : prog.blocks[k] \in DOMAIN prog.code
  BY <1>3
<1> QED BY <1>2, <1>4

(* A sum that becomes an index is taken out.                               *)
LEMMA SumTakenOut ==
  ASSUME TypeInv, BlocksHeld, pc = "done", IndexesApart, NEW J \in Emitted, IsIndexSum(J)
  PROVE  ~isValidInst(J)
<1>1. PICK b \in Range(validBBs) : \E m \in DOMAIN prog.code[b] : J = prog.code[b][m]
  BY PlaceOfEmitted
<1>2. PICK m \in DOMAIN prog.code[b] : J = prog.code[b][m]
  BY <1>1
<1>3. PICK d \in DOMAIN prog.code : \E a, e \in DOMAIN prog.code[d] :
        J = prog.code[d][a] /\ ExtendedSum(prog, d, a, e)
  BY DEF IsIndexSum
<1>4. PICK a \in DOMAIN prog.code[d], e \in DOMAIN prog.code[d] :
        J = prog.code[d][a] /\ ExtendedSum(prog, d, a, e)
  BY <1>3
<1>5. /\ J.op = "add" /\ prog.code[d][e].op = "sext" /\ prog.code[d][e].src1 = J.dst
  BY <1>4 DEF ExtendedSum, AddsUp
<1>6. b = d
  BY <1>2, <1>4, <1>5, BlocksOfFunction, OnePlace DEF TypeInv
<1>7. Settled(prog, d, Len(prog.code[d]), combinedIterators, DOMAIN pointerInfoMap)
  BY <1>5, <1>6, ReadToItsEnd
<1>8. e \in 1..Len(prog.code[d])
  BY <1>3, Program DEF TypeInv
<1>9. J.dst \in combinedIterators
  BY <1>4, <1>5, <1>7, <1>8 DEF Settled
<1> QED BY <1>5, <1>9 DEF isValidInst

(* What the dependency detector gets is closed, whatever the function:     *)
(* isValidInst (CollectInfo.cpp) takes out the loads of iterators by       *)
(* iteratorsAliasMap, which the headers fill, and the additions by         *)
(* combinedIterators, which the extensions in the bodies fill, and what it *)
(* leaves reads nothing of what it takes out but an element of an array,   *)
(* which PointerInfoTable describes.                                       *)
THEOREM SurvivorsCorrect == Spec => []SurvivorsClosed
<1>1. BlocksInv => SurvivorsClosed
  <2> SUFFICES ASSUME BlocksInv, pc = "done", \A p \in DOMAIN prog.access : Handled(p),
                      Plain, IndexesApart, NEW J \in Survivors, NEW K \in Emitted,
                      K.dst \in {J.src1, J.src2}, K.dst # NoPtr,
                      K \notin Survivors
               PROVE  K.dst \in DOMAIN pointerInfoMap
    BY DEF SurvivorsClosed, Plain
  <2>1. /\ TypeInv /\ IteratorsHeld /\ BlocksHeld /\ prog \in Programs
    BY DEF BlocksInv, AccessInv, LoopInv, TypeInv
  <2>2. J \in Emitted /\ isValidInst(J) /\ ~isValidInst(K)
    BY DEF Survivors
  <2>3. Emitted \subseteq InstructionsOf(prog)
    BY <2>1, BlocksOfFunction, PlaceOfEmitted, PlaceOfInstruction
  <2>4. K.dst \in {J.src1, J.src2} \ {NoPtr}
    OBVIOUS
  <2>5. /\ (K.op = "load" /\ K.src1 \in IteratorsOf(prog)) => J.op = "sext" \/ IsIndexSum(J)
        /\ K.op = "sext" => J.op = "ptr"
        /\ (K.op \in {"add", "sub"} /\ \E M \in InstructionsOf(prog) :
                                        M.op = "sext" /\ M.src1 = K.dst) => J.op = "sext"
        /\ K.op = "ptr" => J.op = "ptr" \/ K.dst \in DOMAIN prog.access
    BY <2>2, <2>3, <2>4 DEF IndexesApart
  <2>6. J.op \notin {"sext", "ptr"} /\ ~IsIndexSum(J)
    BY <2>1, <2>2, SumTakenOut DEF isValidInst
  <2>7. K.op # "sext"
    BY <2>5, <2>6
  <2>8. CASE K.op = "store"
    <3>1. RegistersAssumption(prog)
      BY <2>1, AccessesAssumption
    <3> QED BY <2>3, <2>8, <3>1 DEF RegistersAssumption
  <2>9. CASE K.op = "load"
    <3>1. K.src1 \in IteratorsOf(prog)
      BY <2>1, <2>2, <2>9 DEF isValidInst, IteratorsHeld
    <3> QED BY <2>5, <2>6, <2>9, <3>1
  <2>10. CASE K.op = "ptr"
    <3>1. K.dst \in DOMAIN prog.access /\ HandledIn(prog, K.dst)
      BY <2>5, <2>6, <2>10 DEF Handled
    <3>2. PICK b \in Range(validBBs) : \E m \in DOMAIN prog.code[b] : K = prog.code[b][m]
      BY PlaceOfEmitted
    <3>3. PICK m \in DOMAIN prog.code[b] : K = prog.code[b][m]
      BY <3>2
    <3>4. Settled(prog, b, Len(prog.code[b]), combinedIterators, DOMAIN pointerInfoMap)
      BY <2>1, <2>10, <3>3, ReadToItsEnd
    <3>5. m \in 1..Len(prog.code[b])
      BY <2>1, BlocksOfFunction, Program
    <3> QED BY <2>10, <3>1, <3>3, <3>4, <3>5 DEF Settled
  <2>11. CASE K.op \in {"add", "sub"}
    <3>1. K.dst \in combinedIterators
      BY <2>2, <2>11 DEF isValidInst
    <3>2. \E M \in InstructionsOf(prog) : M.op = "sext" /\ M.src1 = K.dst
      BY <2>1, <3>1 DEF BlocksHeld, Extensions
    <3> QED BY <2>5, <2>6, <2>11, <3>2
  <2>12. K.op \in {"store", "load", "sext", "ptr", "add", "sub"}
    BY <2>2 DEF isValidInst
  <2> QED BY <2>7, <2>8, <2>9, <2>10, <2>11, <2>12
<1> QED BY <1>1, BlocksInvariance, PTL

-----------------------------------------------------------------------------
(* The axes that setPointerInfo recorded, as they are read at the end.     *)
OneOrTwo(s) == (\E a : s = <<a>>) \/ (\E a, b : s = <<a, b>>)

Matrix(info) == IncrementMatrix(info.indexes, getIterationVector(info.loopIterator))

GeometryHeld(p) ==
  LET info == pointerInfoMap[p]
      g == Geometry(info.indexes)
      matrix == Matrix(info)
  IN /\ OneOrTwo(info.indexes) /\ info.X = g.X /\ info.Y = g.Y
     /\ \E heap \in HeapContents(matrix) : info.type = detectAccessPatternType(matrix, heap)
     /\ info.initZeros = detectZeroCols(matrix).initZeros
     /\ info.finalZeros = detectZeroCols(matrix).finalZeros

(* No pointer is recorded before all loops are.                            *)
GeometriesHeld ==
  /\ Early => DOMAIN pointerInfoMap = {}
  /\ (pc = "blocks" \/ DOMAIN pointerInfoMap # {}) => loop > Len(prog.loops)
  /\ \A p \in DOMAIN pointerInfoMap : GeometryHeld(p)

(* What setPointerInfo measures.                                           *)
Axes(reg) ==
  LET info == pointerInfoMap'[reg]
      g == Geometry(info.indexes)
      matrix == Matrix(info)
  IN /\ OneOrTwo(info.indexes) /\ info.X = g.X /\ info.Y = g.Y
     /\ \E heap \in HeapContents(matrix) : info.type = detectAccessPatternType(matrix, heap)
     /\ info.initZeros = detectZeroCols(matrix).initZeros
     /\ info.finalZeros = detectZeroCols(matrix).finalZeros

LEMMA PointerMeasured ==
  ASSUME NEW reg, NEW struct, NEW sizes, SetPointerInfo(reg, struct, sizes),
         reg \in DOMAIN pointerInfoMap', reg \notin DOMAIN pointerInfoMap
  PROVE  Axes(reg)
<1> DEFINE indexes == IF sizes[1] > 1 THEN <<struct.first, struct.second>> ELSE <<struct.first>>
           v == CHOOSE w \in getLoopIteratorFromLoopBody(BlockId) : TRUE
           matrix == IncrementMatrix(indexes, getIterationVector(v))
           zeros == detectZeroCols(matrix)
           geometry == Geometry(indexes)
           record(heap) ==
             [loopIterator |-> v, indexes |-> indexes,
              arrayRows |-> sizes[1], arrayCols |-> sizes[2],
              type |-> detectAccessPatternType(matrix, heap),
              initZeros |-> zeros.initZeros, finalZeros |-> zeros.finalZeros,
              measured |-> geometry.measured, X |-> geometry.X, Y |-> geometry.Y]
<1>1. Known(indexes) /\ \E heap \in HeapContents(matrix) :
                          pointerInfoMap' = Insert(pointerInfoMap, reg, record(heap))
  BY DEF SetPointerInfo
<1>2. \A heap : /\ record(heap).indexes = indexes
                /\ record(heap).X = geometry.X /\ record(heap).Y = geometry.Y
                /\ record(heap).type = detectAccessPatternType(matrix, heap)
                /\ record(heap).initZeros = zeros.initZeros
                /\ record(heap).finalZeros = zeros.finalZeros
                /\ record(heap).loopIterator = v
  OBVIOUS
<1>3. OneOrTwo(indexes)
  BY DEF OneOrTwo
<1>4. \A heap : Matrix(record(heap)) = matrix
  BY DEF Matrix
<1> HIDE DEF record, matrix, indexes
<1>5. PICK heap \in HeapContents(matrix) :
        pointerInfoMap' = Insert(pointerInfoMap, reg, record(heap))
  BY <1>1
<1>6. pointerInfoMap'[reg] = record(heap)
  BY <1>5 DEF Insert
<1> QED BY <1>2, <1>3, <1>4, <1>6 DEF Axes

LEMMA GeometriesStep ==
  ASSUME TypeInv, GeometriesHeld, [Next]_vars
  PROVE  GeometriesHeld'
<1>1. ASSUME loopInfoMap' = loopInfoMap
      PROVE  \A s : Geometry(s)' = Geometry(s)
  BY <1>1 DEF Geometry, Double, Single, Triangle
<1>2. ASSUME loopInfoMap' = loopInfoMap, nestedLoopMap' = nestedLoopMap
      PROVE  \A r : Matrix(r)' = Matrix(r)
  BY <1>2 DEF Matrix, IncrementMatrix, getIterationVector
<1>3. ASSUME loopInfoMap' = loopInfoMap, nestedLoopMap' = nestedLoopMap, NEW p \in DOMAIN pointerInfoMap,
             pointerInfoMap'[p] = pointerInfoMap[p]
      PROVE  GeometryHeld(p)'
  <2>1. GeometryHeld(p)
    BY DEF GeometriesHeld
  <2> QED BY <1>1, <1>3, <1>2, <2>1 DEF GeometryHeld
<1>4. CASE UNCHANGED vars
  <2>1. UNCHANGED <<prog, pc, loop, loopInfoMap, nestedLoopMap, pointerInfoMap>>
    BY <1>4 DEF vars, place, LIT, pointers
  <2> QED BY <1>3, <2>1 DEF GeometriesHeld, Early
<1>5. CASE Walking
  <2>1. pointerInfoMap' = pointerInfoMap
    BY <1>5, WalkingStep
  <2>2. CASE Early
    <3>1. DOMAIN pointerInfoMap = {}
      BY <2>2 DEF GeometriesHeld
    <3>2. pc' = "blocks" => loop' > Len(prog'.loops)
      BY <1>5, <2>2 DEF Walking, Early, ParseAllocas, ParseLoopPreheader, HeaderLoad,
                        HeaderCompare, AllLoops, EnterBlock, LeaveBlock, AllBlocks
    <3> QED BY <2>1, <3>1, <3>2 DEF GeometriesHeld
  <2>3. CASE ~Early
    <3>1. EnterBlock \/ LeaveBlock \/ AllBlocks
      BY <1>5, <2>3 DEF Walking, Early, ParseAllocas, ParseLoopPreheader, HeaderLoad,
                        HeaderCompare, AllLoops
    <3>2. /\ pc' \in {"blocks", "done"} /\ loopInfoMap' = loopInfoMap /\ pc = "blocks"
          /\ UNCHANGED <<prog, loop, nestedLoopMap>>
      BY <3>1 DEF EnterBlock, LeaveBlock, AllBlocks, LIT
    <3> QED BY <1>3, <2>1, <3>2 DEF GeometriesHeld, Early
  <2> QED BY <2>2, <2>3
<1>6. CASE Reading
  <2>1. /\ pc' \in {"blocks", "undefined"} /\ loopInfoMap' = loopInfoMap /\ pc = "blocks"
        /\ prog' = prog /\ loop' = loop /\ nestedLoopMap' = nestedLoopMap
    BY <1>6, ReadingStep DEF LIT, InBlock
  <2>2. UNCHANGED pointerInfoMap
        \/ \E reg, struct, sizes : SetPointerInfo(reg, struct, sizes)
    <3>1. CASE Pointer
      BY <3>1, PointerCases DEF ToVector, ToElement, ToRow
    <3>2. CASE Store \/ LoadIterator \/ Load \/ Add \/ SignExtend \/ Other \/ OtherPointer
      BY <3>2 DEF Store, LoadIterator, Load, Add, SignExtend, Other, OtherPointer, pointers
    <3> QED BY <1>6, <3>1, <3>2 DEF Reading
  <2>3. \A p \in DOMAIN pointerInfoMap : pointerInfoMap'[p] = pointerInfoMap[p]
    BY <2>2, PointerRecorded
  <2>4. ASSUME NEW p \in DOMAIN pointerInfoMap', p \notin DOMAIN pointerInfoMap
        PROVE  GeometryHeld(p)'
    <3>1. PICK reg, struct, sizes : SetPointerInfo(reg, struct, sizes)
      BY <2>2, <2>4
    <3>2. p = reg
      BY <2>4, <3>1, PointerRecorded
    <3>3. Axes(p)
      BY <2>4, <3>1, <3>2, PointerMeasured
    <3> QED BY <1>1, <1>2, <2>1, <3>3 DEF GeometryHeld, Axes
  <2> QED BY <1>3, <2>1, <2>3, <2>4 DEF GeometriesHeld, Early
<1> QED BY <1>4, <1>5, <1>6, NextCases

LEMMA GeometriesInvariance == Spec => []GeometriesHeld
<1>1. Init => GeometriesHeld
  <2> SUFFICES ASSUME Init
               PROVE  GeometriesHeld
    OBVIOUS
  <2>1. DOMAIN pointerInfoMap = {} /\ pc = "alloca"
    BY DEF Init, EmptyMap
  <2> QED BY <2>1 DEF GeometriesHeld
<1> QED BY <1>1, TypeInvariance, GeometriesStep, PTL DEF Spec

(* The geometry of an access with one iterator in each index.              *)
LEMMA GeometryOfOne ==
  ASSUME NEW s, DOMAIN s = {1}, Len(s[1].iterators) = 1
  PROVE  LET l == loopInfoMap[s[1].iterators[1]]
         IN Geometry(s) = Measured(Alone(0, 1, -1), Single(l, s[1].constant))
<1> DEFINE size == [n \in DOMAIN s |-> Len(s[n].iterators)]
<1>1. size = <<1>>
  <2>1. size = [n \in {1} |-> 1]
    OBVIOUS
  <2> HIDE DEF size
  <2> QED BY <2>1
<1>2. /\ size # <<2>> /\ size # <<1, 1>> /\ size # <<2, 2>>
      /\ size # <<1, 2>> /\ size # <<2, 1>>
  BY <1>1
<1> QED BY <1>1, <1>2 DEF Geometry

LEMMA GeometryOfTwo ==
  ASSUME NEW s, DOMAIN s = {1, 2}, \A n \in DOMAIN s : Len(s[n].iterators) = 1
  PROVE  LET l(n) == loopInfoMap[s[n].iterators[1]]
             c(n) == s[n].constant
         IN Geometry(s) =
              IF l(1).isInit /\ l(1).isFinal /\ l(2).isInit /\ l(2).isFinal
              THEN Measured(Single(l(1), c(1)), Single(l(2), c(2)))
              ELSE Measured(Triangle(l(1), c(1), l(2)), Triangle(l(2), c(2), l(1)))
<1> DEFINE size == [n \in DOMAIN s |-> Len(s[n].iterators)]
<1>1. size = <<1, 1>>
  <2>1. size = [n \in {1, 2} |-> 1]
    OBVIOUS
  <2> HIDE DEF size
  <2> QED BY <2>1
<1>2. size # <<1>> /\ size # <<2>>
  BY <1>1
<1> QED BY <1>1, <1>2 DEF Geometry

(* The axes of an access with one iterator in each index: they go by the   *)
(* increments of their loops, and there is no set.                         *)
LEMMA AxesOfIterators ==
  ASSUME NEW s, OneOrTwo(s), \A n \in DOMAIN s : Len(s[n].iterators) = 1
  PROVE  LET g == Geometry(s)
         IN /\ g.Y.set = -1
            /\ g.Y.spacing \in {1} \cup {loopInfoMap[s[n].iterators[1]].inc : n \in DOMAIN s}
            /\ g.X.spacing \in {loopInfoMap[s[n].iterators[1]].inc : n \in DOMAIN s}
<1> DEFINE g == Geometry(s)
           inc(n) == loopInfoMap[s[n].iterators[1]].inc
<1>1. CASE \E a : s = <<a>>
  <2>1. DOMAIN s = {1}
    BY <1>1
  <2>2. g = Measured(Alone(0, 1, -1), Single(loopInfoMap[s[1].iterators[1]], s[1].constant))
    BY <2>1, GeometryOfOne
  <2>3. /\ g.Y = Alone(0, 1, -1)
        /\ g.X = Single(loopInfoMap[s[1].iterators[1]], s[1].constant)
    BY <2>2 DEF Measured
  <2>4. g.Y.set = -1 /\ g.Y.spacing = 1 /\ g.X.spacing = inc(1)
    BY <2>3 DEF Alone, Single, Axis
  <2> HIDE DEF g
  <2> QED BY <2>1, <2>4 DEF g
<1>2. CASE \E a, b : s = <<a, b>>
  <2>1. DOMAIN s = {1, 2}
    BY <1>2
  <2> DEFINE l(n) == loopInfoMap[s[n].iterators[1]]
             c(n) == s[n].constant
  <2>2. g = Measured(Single(l(1), c(1)), Single(l(2), c(2)))
        \/ g = Measured(Triangle(l(1), c(1), l(2)), Triangle(l(2), c(2), l(1)))
    BY <2>1, GeometryOfTwo
  <2>3. \/ g.Y = Single(l(1), c(1)) /\ g.X = Single(l(2), c(2))
        \/ g.Y = Triangle(l(1), c(1), l(2)) /\ g.X = Triangle(l(2), c(2), l(1))
    BY <2>2 DEF Measured
  <2> HIDE DEF g, l, c
  <2>4. \A e, k : Single(e, k).set = -1 /\ Single(e, k).spacing = e.inc
    BY DEF Single, Axis
  <2>5. \A e, k, o : /\ Triangle(e, k, o).set = Single(e, k).set
                     /\ Triangle(e, k, o).spacing = Single(e, k).spacing
    BY DEF Triangle, Single, Axis
  <2>6. g.Y.set = -1 /\ g.Y.spacing = l(1).inc /\ g.X.spacing = l(2).inc
    BY <2>3, <2>4, <2>5
  <2>7. 1 \in DOMAIN s /\ 2 \in DOMAIN s
    BY <2>1
  <2> QED BY <2>6, <2>7, Zenon DEF l, g
<1> QED BY <1>1, <1>2 DEF OneOrTwo

(* shapeAddressList returns for a simple access that it does not take for  *)
(* a triangle, measured or not.                                            *)
LEMMA ReturnsOf ==
  ASSUME AccessInv, GeometriesHeld, NEW p \in DOMAIN pointerInfoMap, Simple(p),
         pointerInfoMap[p].initZeros # 2
  PROVE  ~RunsAway(pointerInfoMap[p])
<1> DEFINE info == pointerInfoMap[p]
           acc == prog.access[p]
           s == info.indexes
<1>1. Plain /\ Handled(p)
  BY DEF Simple, Plain
<1>2. /\ LoopInv /\ TypeInv /\ prog \in Programs /\ PointersHeld /\ p \in DOMAIN prog.access
  BY <1>1 DEF AccessInv, LoopInv, TypeInv, PointersOK
<1>3. /\ Len(s) = Len(acc.indexes)
      /\ \A n \in DOMAIN acc.indexes : Index(s[n].iterators, s[n].constant) = acc.indexes[n]
  BY <1>1, <1>2 DEF PointersHeld, RecordHeld
<1>4. OneOrTwo(s) /\ info.X = Geometry(s).X /\ info.Y = Geometry(s).Y
  BY DEF GeometriesHeld, GeometryHeld
<1>5. DOMAIN s = DOMAIN acc.indexes
  <2>1. DOMAIN acc.indexes = 1..Len(acc.indexes)
    BY <1>2, IndexesOfAccess
  <2>2. DOMAIN s = 1..Len(s)
    BY <1>4 DEF OneOrTwo
  <2> QED BY <1>3, <2>1, <2>2
<1>6. ASSUME NEW n \in DOMAIN s
      PROVE  /\ Len(s[n].iterators) = 1
             /\ \E m \in Loops : m \in Range(Nest(p)) /\ IteratorOf(m) = s[n].iterators[1]
  <2>1. acc.indexes[n] \in Range(acc.indexes)
    BY <1>5 DEF Range
  <2>2. acc.indexes[n].iterators = s[n].iterators
    <3> HIDE DEF acc, info, s
    <3>1. acc.indexes[n] = Index(s[n].iterators, s[n].constant)
      BY <1>3, <1>5
    <3> QED BY <3>1 DEF Index
  <2>3. \A idx \in Range(acc.indexes) :
          /\ Len(idx.iterators) = 1
          /\ \E m \in Loops : m \in Range(Nest(p)) /\ IteratorOf(m) = idx.iterators[1]
    BY DEF Simple
  <2> HIDE DEF acc, info, s
  <2>4. /\ Len(acc.indexes[n].iterators) = 1
        /\ \E m \in Loops : m \in Range(Nest(p)) /\ IteratorOf(m) = acc.indexes[n].iterators[1]
    BY <2>1, <2>3
  <2> QED BY <2>2, <2>4 DEF s, info
<1>7. \A m \in Loops : RecordOK(m)
  <2>1. OwnIterators
    BY <1>1, <1>2, PlainLoops
  <2>2. Loops = 1..Len(prog.loops) /\ Len(prog.loops) \in Nat
    BY <1>2, LoopsOfProgram
  <2>3. loop = Len(prog.loops) + 1
    BY <1>2, <2>2 DEF TypeInv, PlaceOK, GeometriesHeld
  <2>4. DOMAIN loopIteratorMap = Loops
    <3>1. Len(loopIteratorMap) = loop - 1 /\ DOMAIN loopIteratorMap = 1..Len(loopIteratorMap)
      BY <1>2 DEF LoopInv, RecordsOK, TypeInv, LoopTablesOK
    <3> QED BY <2>2, <2>3, <3>1
  <2> QED BY <1>1, <1>2, <2>1, <2>4 DEF LoopInv, RecordsOK, Plain
<1>8. \A n \in DOMAIN s : LET inc == loopInfoMap[s[n].iterators[1]].inc IN inc \in Int /\ inc > 0
  <2> SUFFICES ASSUME NEW n \in DOMAIN s
               PROVE  LET inc == loopInfoMap[s[n].iterators[1]].inc IN inc \in Int /\ inc > 0
    OBVIOUS
  <2>1. PICK m \in Loops : m \in Range(Nest(p)) /\ IteratorOf(m) = s[n].iterators[1]
    BY <1>6
  <2>2. loopInfoMap[s[n].iterators[1]].inc = prog.loops[m].inc
    BY <1>7, <2>1 DEF RecordOK
  <2>3. prog.loops[m].inc > 0
    BY <2>1 DEF Simple, Ascending
  <2>4. prog.loops[m].inc \in Int
    BY <1>2, ProgramsAssumption DEF Loops
  <2> QED BY <2>2, <2>3, <2>4
<1>9. /\ info.Y.set = -1
      /\ info.Y.spacing \in Int /\ info.Y.spacing > 0
      /\ info.X.spacing \in Int /\ info.X.spacing > 0
  <2> HIDE DEF s, info
  <2>1. \A n \in DOMAIN s : Len(s[n].iterators) = 1
    BY <1>6
  <2>2. /\ Geometry(s).Y.set = -1
        /\ Geometry(s).Y.spacing \in {1} \cup {loopInfoMap[s[n].iterators[1]].inc : n \in DOMAIN s}
        /\ Geometry(s).X.spacing \in {loopInfoMap[s[n].iterators[1]].inc : n \in DOMAIN s}
    BY <1>4, <2>1, AxesOfIterators
  <2> QED BY <1>4, <1>8, <2>2
<1> HIDE DEF info
<1>10. ~IsTriangular(info)
  BY DEF IsTriangular, info
<1>11. ~Endless(LoopI(info))
  BY <1>9, <1>10 DEF LoopI, Endless, Bounds
<1>12. ~Endless(LoopJ(info))
  BY <1>9, <1>10 DEF LoopJ, Endless, Bounds
<1>13. ASSUME NEW i, NEW j
       PROVE  /\ ~Endless(LoopK(info, i))
              /\ ~(Enters(LoopK(info, i)) /\ Endless(LoopL(info, j)))
  <2>1. CASE IsPlain(info)
    BY <1>10, <2>1 DEF LoopK, LoopL, Endless, Enters, Bounds
  <2>2. CASE ~IsPlain(info)
    BY <1>9, <1>10, <2>2 DEF LoopK, Endless, Enters, Bounds
  <2> QED BY <2>1, <2>2
<1> QED BY <1>11, <1>12, <1>13 DEF RunsAway, info

(* shapeAddressList (AddressList.cpp:97-195) returns for every pointer     *)
(* with an iterator in each index, that of an ascending loop around it, in *)
(* whatever function and whatever the pattern was taken for: the loops     *)
(* over the sets are not entered, since setPointerInfo leaves the size of  *)
(* a set at -1, and the others step by the increments of the loops.        *)
THEOREM ReturnsCorrect == Spec => []ReturnsWithoutSets
<1>1. AccessInv /\ GeometriesHeld => ReturnsWithoutSets
  BY ReturnsOf DEF ReturnsWithoutSets
<1> QED BY <1>1, AccessInvariance, GeometriesInvariance, PTL

-----------------------------------------------------------------------------
(* The list of addresses: rows that are picked one after the other, and    *)
(* repeated as often as the loops run that the index does not go by.       *)
(* A number is its quotient and its rest, and there are no others.         *)
LEMMA Rest ==
  ASSUME NEW g \in Nat, NEW e \in Nat \ {0}
  PROVE  /\ g \div e \in Nat /\ g % e \in 0..(e - 1)
         /\ g = (g \div e) * e + (g % e)
OBVIOUS

LEMMA Digits ==
  ASSUME NEW w \in Nat \ {0}, NEW a \in Nat, NEW b \in 0..(w - 1)
  PROVE  (a * w + b) \div w = a /\ (a * w + b) % w = b
<1> DEFINE g == a * w + b
           q == g \div w
           r == g % w
<1>1. a * w \in Nat
  OBVIOUS
<1>2. g \in Nat
  BY <1>1
<1>3. g = a * w + b
  OBVIOUS
<1> HIDE DEF g
<1>4. q \in Nat /\ r \in 0..(w - 1) /\ g = q * w + r
  BY <1>2, Rest
<1> HIDE DEF q, r
<1>5. ~(q < a)
  <2> SUFFICES ASSUME q + 1 <= a
               PROVE  FALSE
    BY <1>4
  <2>1. (q + 1) * w <= a * w
    BY <1>4, ProductsGrow
  <2>2. (q + 1) * w = q * w + w /\ q * w \in Nat
    BY <1>4
  <2> QED BY <1>1, <1>4, <1>3, <2>1, <2>2
<1>6. ~(a < q)
  <2> SUFFICES ASSUME a + 1 <= q
               PROVE  FALSE
    BY <1>4
  <2>1. (a + 1) * w <= q * w
    BY <1>4, ProductsGrow
  <2>2. (a + 1) * w = a * w + w /\ q * w \in Nat
    BY <1>4
  <2> QED BY <1>1, <1>4, <1>3, <2>1, <2>2
<1>7. q = a
  BY <1>4, <1>5, <1>6
<1>8. r = b
  BY <1>1, <1>4, <1>3, <1>7
<1> QED BY <1>7, <1>8 DEF g, q, r

(* The t-th of n * w numbers, w to a row.                                  *)
LEMMA PlaceInRow ==
  ASSUME NEW n \in Nat, NEW w \in Nat \ {0}, NEW t \in 1..(n * w)
  PROVE  ((t - 1) \div w) + 1 \in 1..n /\ ((t - 1) % w) + 1 \in 1..w
<1> DEFINE a == (t - 1) \div w
           b == (t - 1) % w
           c == n * w
           d == a * w
<1>1. c \in Nat /\ t \in 1..c
  OBVIOUS
<1>2. t - 1 \in Nat
  BY <1>1
<1>3. a \in Nat /\ b \in 0..(w - 1) /\ t - 1 = d + b
  BY <1>2, Rest
<1> HIDE DEF a, b
<1>4. a < n
  <2> SUFFICES ASSUME n <= a
               PROVE  FALSE
    BY <1>3
  <2>1. c <= d /\ d \in Nat
    BY <1>3, ProductsGrow
  <2> HIDE DEF c, d
  <2> QED BY <1>1, <1>3, <2>1
<1>5. a + 1 \in 1..n /\ b + 1 \in 1..w
  BY <1>3, <1>4
<1> QED BY <1>5 DEF a, b

(* Lists of one length, one after the other.                               *)
Row(ss, w, t) == ss[((t - 1) \div w) + 1][((t - 1) % w) + 1]

LEMMA FlattenedLists ==
  ASSUME NEW n \in Nat, NEW w \in Nat \ {0}, NEW ss, NEW S, Len(ss) = n,
         \A m \in 1..n : ss[m] \in Seq(S) /\ Len(ss[m]) = w,
         n = 0 => ss = << >>
  PROVE  FlattenSeq(ss) = [t \in 1..(n * w) |-> Row(ss, w, t)]
<1> DEFINE F(f) == f = [i \in 1..n |-> IF i = 1 THEN ss[i] ELSE f[i - 1] \o ss[i]]
           flat(i) == [t \in 1..(i * w) |-> Row(ss, w, t)]
           g == [i \in 1..n |-> flat(i)]
<1>1. CASE n = 0
  <2>1. FlattenSeq(ss) = << >>
    BY <1>1 DEF FlattenSeq
  <2>2. n * w = 0
    BY <1>1
  <2>3. 1..(n * w) = {}
    BY <2>2
  <2> QED BY <2>1, <2>3
<1>2. CASE n # 0
  <2>1. \A i \in Nat : i * w \in Nat /\ (i + 1) * w = i * w + w
    OBVIOUS
  <2>2. ASSUME NEW i \in 1..n, NEW t \in 1..w
        PROVE  Row(ss, w, (i - 1) * w + t) = ss[i][t]
    <3>1. t - 1 \in 0..(w - 1) /\ i - 1 \in Nat
      OBVIOUS
    <3>2. ((i - 1) * w + (t - 1)) \div w = i - 1 /\ ((i - 1) * w + (t - 1)) % w = t - 1
      BY <3>1, Digits
    <3>3. ((i - 1) * w + t) - 1 = (i - 1) * w + (t - 1)
      BY <2>1, <3>1
    <3>4. (i - 1) + 1 = i /\ (t - 1) + 1 = t
      OBVIOUS
    <3> QED BY <3>2, <3>3, <3>4 DEF Row
  <2>3. ASSUME NEW i \in 1..n
        PROVE  ss[i] = [t \in 1..w |-> ss[i][t]] /\ \A t \in 1..w : ss[i][t] \in S
    OBVIOUS
  <2>4. \A i \in 1..n : \A t \in 1..(i * w) : Row(ss, w, t) \in S
    <3> SUFFICES ASSUME NEW i \in 1..n, NEW t \in 1..(i * w)
                 PROVE  Row(ss, w, t) \in S
      OBVIOUS
    <3>1. ((t - 1) \div w) + 1 \in 1..i /\ ((t - 1) % w) + 1 \in 1..w
      BY PlaceInRow
    <3>2. 1..i \subseteq 1..n
      OBVIOUS
    <3> QED BY <2>3, <3>1, <3>2 DEF Row
  <2>5. ASSUME NEW i \in 1..n
        PROVE  flat(i) \in Seq(S) /\ Len(flat(i)) = i * w
    <3>1. flat(i) \in [1..(i * w) -> S]
      BY <2>4
    <3>2. i * w \in Nat
      BY <2>1
    <3> QED BY <3>1, <3>2
  <2>6. flat(1) = ss[1]
    <3>1. 1 \in 1..n /\ 1 * w = w /\ \A t \in 1..w : (1 - 1) * w + t = t
      BY <1>2
    <3>2. \A t \in 1..w : Row(ss, w, t) = ss[1][t]
      BY <2>2, <3>1
    <3>3. flat(1) = [t \in 1..w |-> ss[1][t]]
      BY <3>1, <3>2
    <3> QED BY <2>3, <3>1, <3>3
  <2>7. ASSUME NEW i \in 1..n, i # 1
        PROVE  flat(i) = flat(i - 1) \o ss[i]
    <3> DEFINE u == flat(i - 1)
               v == u \o ss[i]
    <3>1. i - 1 \in 1..n
      BY <2>7
    <3>2. u \in Seq(S) /\ Len(u) = (i - 1) * w /\ (i - 1) * w \in Nat /\ (i - 1) * w + w = i * w
      <4>1. i - 1 \in Nat /\ (i - 1) + 1 = i
        OBVIOUS
      <4> QED BY <2>1, <2>5, <3>1, <4>1
    <3>3. \A t \in 1..((i - 1) * w) : u[t] = Row(ss, w, t)
      OBVIOUS
    <3> HIDE DEF u
    <3>4. v = [t \in 1..(i * w) |-> v[t]]
      <4> DEFINE r == ss[i]
      <4>1. r \in Seq(S) /\ Len(r) = w /\ w \in Nat
        OBVIOUS
      <4> HIDE DEF r
      <4>2. u \o r \in Seq(S) /\ Len(u \o r) = Len(u) + Len(r)
        BY <3>2, <4>1
      <4>3. v \in Seq(S) /\ Len(v) = i * w
        BY <3>2, <4>1, <4>2 DEF r
      <4> HIDE DEF v
      <4> QED BY <4>3
    <3>5. ASSUME NEW t \in 1..(i * w)
          PROVE  v[t] = Row(ss, w, t)
      <4>1. CASE t <= (i - 1) * w
        <5>1. v[t] = u[t] /\ t \in 1..((i - 1) * w)
          BY <3>2, <4>1
        <5> QED BY <3>3, <5>1
      <4>2. CASE t > (i - 1) * w
        <5> DEFINE k == t - (i - 1) * w
        <5>1. k \in 1..w /\ t = (i - 1) * w + k
          BY <3>2, <4>2
        <5>2. v[t] = ss[i][k]
          <6> DEFINE c == (i - 1) * w
                     r == ss[i]
          <6>1. r \in Seq(S) /\ Len(r) = w /\ w \in Nat
            OBVIOUS
          <6>2. c \in Nat /\ Len(u) = c /\ u \in Seq(S) /\ t = c + k /\ k \in 1..w
            BY <3>2, <5>1
          <6>3. v = u \o r
            OBVIOUS
          <6> HIDE DEF c, r, k, v
          <6>4. (u \o r)[c + k] = r[k]
            <7>1. c + k \in 1..(Len(u) + Len(r)) /\ c + k > Len(u) /\ (c + k) - Len(u) = k
              BY <6>1, <6>2
            <7> QED BY <6>1, <6>2, <7>1
          <6>5. v[t] = r[k]
            BY <6>2, <6>3, <6>4, Zenon
          <6> QED BY <6>5 DEF r
        <5> HIDE DEF k
        <5> QED BY <2>2, <5>1, <5>2
      <4> QED BY <3>2, <4>1, <4>2
    <3> QED BY <3>4, <3>5 DEF u
  <2>8. F(g)
    <3>1. \A i \in 1..n : g[i] = IF i = 1 THEN ss[i] ELSE g[i - 1] \o ss[i]
      <4> SUFFICES ASSUME NEW i \in 1..n
                   PROVE  g[i] = IF i = 1 THEN ss[i] ELSE g[i - 1] \o ss[i]
        OBVIOUS
      <4>1. g[i] = flat(i) /\ (i # 1 => g[i - 1] = flat(i - 1))
        OBVIOUS
      <4> HIDE DEF flat, g
      <4> QED BY <2>6, <2>7, <4>1
    <3>2. g = [i \in 1..n |-> g[i]]
      OBVIOUS
    <3> HIDE DEF g
    <3> QED BY <3>1, <3>2
  <2> HIDE DEF g
  <2> DEFINE f == CHOOSE h : F(h)
  <2>9. F(f)
    BY <2>8, Zenon
  <2>10. FlattenSeq(ss) = f[n]
    BY <1>2 DEF FlattenSeq
  <2> HIDE DEF f
  <2> DEFINE P == {k \in Nat : k + 1 <= n => f[k + 1] = flat(k + 1)}
  <2>11. \A i \in 1..n : f[i] = IF i = 1 THEN ss[i] ELSE f[i - 1] \o ss[i]
    BY <2>9
  <2> HIDE DEF F, flat
  <2>12. 0 \in P
    <3>1. 1 \in 1..n
      BY <1>2
    <3> QED BY <2>6, <2>11, <3>1
  <2>13. ASSUME NEW k \in Nat, k \in P
         PROVE  k + 1 \in P
    <3> SUFFICES ASSUME k + 2 <= n
                 PROVE  f[k + 2] = flat(k + 2)
      OBVIOUS
    <3>1. k + 2 \in 1..n /\ k + 2 # 1 /\ (k + 2) - 1 = k + 1 /\ k + 1 <= n
      OBVIOUS
    <3>2. f[k + 1] = flat(k + 1)
      BY <2>13, <3>1
    <3>3. f[k + 2] = f[k + 1] \o ss[k + 2]
      BY <2>11, <3>1
    <3>4. flat(k + 2) = flat((k + 2) - 1) \o ss[k + 2]
      BY <2>7, <3>1
    <3> QED BY <3>1, <3>2, <3>3, <3>4
  <2> HIDE DEF P
  <2>14. \A k \in Nat : k \in P
    BY <2>12, <2>13, Induction
  <2>15. n - 1 \in P /\ (n - 1) + 1 = n
    BY <1>2, <2>14
  <2>16. f[n] = flat(n)
    BY <2>15 DEF P
  <2> QED BY <2>10, <2>16 DEF flat
<1> QED BY <1>1, <1>2

IsGrid(ss, n, w) ==
  /\ ss = [m \in 1..n |-> ss[m]]
  /\ \A m \in 1..n : ss[m] = [k \in 1..w |-> ss[m][k]]

LEMMA FlattenedRows ==
  ASSUME NEW n \in Nat, NEW w \in Nat \ {0}, NEW ss, IsGrid(ss, n, w)
  PROVE  FlattenSeq(ss) = [t \in 1..(n * w) |-> Row(ss, w, t)]
<1> DEFINE S == {ss[m][k] : m \in 1..n, k \in 1..w}
<1>1. Len(ss) = n /\ (n = 0 => ss = << >>)
  BY DEF IsGrid
<1>2. ASSUME NEW m \in 1..n
      PROVE  ss[m] \in Seq(S) /\ Len(ss[m]) = w
  <2> DEFINE r == ss[m]
  <2>1. r = [k \in 1..w |-> r[k]] /\ \A k \in 1..w : r[k] \in S
    BY DEF IsGrid
  <2> HIDE DEF r, S
  <2>2. r \in [1..w -> S] /\ Len(r) = w
    BY <2>1
  <2>3. r \in Seq(S)
    BY <2>2
  <2> QED BY <2>2, <2>3 DEF r
<1> HIDE DEF S
<1> QED BY <1>1, <1>2, FlattenedLists

(* The products of the beginnings of a list.                               *)
IsUpTo(s, N, f) == f = [n \in 0..N |-> IF n = 0 THEN 1 ELSE f[n - 1] * s[n]]

LEMMA UpToExists ==
  ASSUME NEW s \in Seq(Nat)
  PROVE  \E f : IsUpTo(s, Len(s), f)
<1> DEFINE P == {N \in Nat : N <= Len(s) => \E f : IsUpTo(s, N, f)}
<1>1. 0 \in P
  <2> DEFINE f == [n \in 0..0 |-> 1]
  <2>1. f = [n \in 0..0 |-> IF n = 0 THEN 1 ELSE f[n - 1] * s[n]]
    <3>1. \A n \in 0..0 : n = 0
      OBVIOUS
    <3> QED BY <3>1
  <2> QED BY <2>1 DEF IsUpTo
<1>2. ASSUME NEW N \in Nat, N \in P
      PROVE  N + 1 \in P
  <2> SUFFICES ASSUME N + 1 <= Len(s)
               PROVE  \E f : IsUpTo(s, N + 1, f)
    OBVIOUS
  <2>1. PICK f : IsUpTo(s, N, f)
    BY <1>2
  <2> DEFINE g == [n \in 0..(N + 1) |-> IF n = N + 1 THEN f[N] * s[N + 1] ELSE f[n]]
             body(n) == IF n = 0 THEN 1 ELSE g[n - 1] * s[n]
  <2>2. \A n \in 0..N : f[n] = IF n = 0 THEN 1 ELSE f[n - 1] * s[n]
    BY <2>1 DEF IsUpTo
  <2>3. ASSUME NEW n \in 0..(N + 1)
        PROVE  g[n] = body(n)
    <3>1. CASE n = N + 1
      <4>1. g[n] = f[N] * s[N + 1] /\ n - 1 = N /\ N # N + 1 /\ n # 0 /\ N \in 0..(N + 1)
        BY <3>1
      <4>2. g[N] = f[N]
        BY <4>1
      <4> HIDE DEF g
      <4> QED BY <3>1, <4>1, <4>2
    <3>2. CASE n # N + 1
      <4>1. n \in 0..N /\ g[n] = f[n]
        BY <3>2
      <4>2. n # 0 => n - 1 \in 0..(N + 1) /\ n - 1 # N + 1
        BY <3>2
      <4>3. n # 0 => g[n - 1] = f[n - 1]
        BY <4>2
      <4> HIDE DEF g
      <4> QED BY <2>2, <4>1, <4>3
    <3> QED BY <3>1, <3>2
  <2>4. g = [n \in 0..(N + 1) |-> g[n]]
    OBVIOUS
  <2> HIDE DEF g, body
  <2>5. g = [n \in 0..(N + 1) |-> body(n)]
    BY <2>3, <2>4
  <2> QED BY <2>5 DEF IsUpTo, body
<1> HIDE DEF P
<1>3. Len(s) \in P
  BY <1>1, <1>2, Induction
<1> QED BY <1>3 DEF P

UpTo(s, f) ==
  /\ f \in [0..Len(s) -> Nat] /\ f[0] = 1 /\ Product(s) = f[Len(s)]
  /\ \A n \in 1..Len(s) : f[n] = f[n - 1] * s[n]

LEMMA ProductUpTo ==
  ASSUME NEW s \in Seq(Nat)
  PROVE  \E f : UpTo(s, f)
<1> DEFINE f == CHOOSE g : IsUpTo(s, Len(s), g)
           N == Len(s)
           P == {n \in Nat : n <= N => f[n] \in Nat}
<1>1. IsUpTo(s, N, f)
  BY UpToExists
<1>2. Product(s) = f[N]
  BY DEF Product, IsUpTo
<1>3. N \in Nat /\ \A n \in 1..N : s[n] \in Nat
  OBVIOUS
<1> HIDE DEF f, N
<1>4. f = [n \in 0..N |-> IF n = 0 THEN 1 ELSE f[n - 1] * s[n]]
  BY <1>1 DEF IsUpTo
<1>5. f[0] = 1 /\ \A n \in 1..N : f[n] = f[n - 1] * s[n]
  <2>1. 0 \in 0..N /\ \A n \in 1..N : n \in 0..N /\ n # 0
    BY <1>3
  <2> QED BY <1>4, <2>1
<1>6. 0 \in P
  BY <1>5
<1>7. ASSUME NEW n \in Nat, n \in P
      PROVE  n + 1 \in P
  <2> SUFFICES ASSUME n + 1 <= N
               PROVE  f[n + 1] \in Nat
    OBVIOUS
  <2>1. n + 1 \in 1..N /\ (n + 1) - 1 = n /\ f[n] \in Nat /\ s[n + 1] \in Nat
    BY <1>3, <1>7
  <2>2. f[n + 1] = f[n] * s[n + 1]
    BY <1>5, <2>1
  <2> QED BY <2>1, <2>2
<1> HIDE DEF P
<1>8. \A n \in Nat : n \in P
  BY <1>6, <1>7, Induction
<1>9. f \in [0..N -> Nat]
  <2>1. \A n \in 0..N : f[n] \in Nat
    BY <1>3, <1>8 DEF P
  <2>2. f = [n \in 0..N |-> f[n]]
    BY <1>4
  <2> QED BY <2>1, <2>2
<1> QED BY <1>2, <1>5, <1>9 DEF UpTo, N

LEMMA ProductNat ==
  ASSUME NEW s \in Seq(Nat)
  PROVE  Product(s) \in Nat
<1>1. PICK f : UpTo(s, f)
  BY ProductUpTo
<1>2. Len(s) \in 0..Len(s)
  OBVIOUS
<1> QED BY <1>1, <1>2 DEF UpTo

(* The product of a list is that of its beginning and of its rest.         *)
Joins(s, u, t) ==
  /\ Len(s) = Len(u) + Len(t)
  /\ \A m \in 1..Len(u) : u[m] = s[m]
  /\ \A m \in 1..Len(t) : t[m] = s[Len(u) + m]

LEMMA ProductSplit ==
  ASSUME NEW s \in Seq(Nat), NEW u \in Seq(Nat), NEW t \in Seq(Nat), Joins(s, u, t)
  PROVE  Product(s) = Product(u) * Product(t)
<1>0. /\ Len(s) = Len(u) + Len(t)
      /\ \A m \in 1..Len(u) : u[m] = s[m]
      /\ \A m \in 1..Len(t) : t[m] = s[Len(u) + m]
  BY Zenon DEF Joins
<1> DEFINE K == Len(u)
           M == Len(t)
<1>1. PICK f : UpTo(s, f)
  BY ProductUpTo
<1>2. PICK g : UpTo(u, g)
  BY ProductUpTo
<1>3. PICK h : UpTo(t, h)
  BY ProductUpTo
<1>4. K \in Nat /\ M \in Nat /\ Len(s) = K + M
  BY <1>0
<1>5. /\ f[0] = 1 /\ \A n \in 1..(K + M) : f[n] = f[n - 1] * s[n]
      /\ g[0] = 1 /\ \A n \in 1..K : g[n] = g[n - 1] * u[n]
      /\ h[0] = 1 /\ \A n \in 1..M : h[n] = h[n - 1] * t[n]
      /\ g \in [0..K -> Nat] /\ h \in [0..M -> Nat]
  BY <1>1, <1>2, <1>3, <1>4 DEF UpTo
<1>6. /\ \A m \in 1..K : u[m] = s[m]
      /\ \A m \in 1..M : t[m] = s[K + m] /\ t[m] \in Nat
  <2>1. \A m \in 1..M : t[m] \in Nat
    OBVIOUS
  <2> QED BY <1>0, <2>1, Zenon
<1>7. Product(s) = f[K + M] /\ Product(u) = g[K] /\ Product(t) = h[M]
  BY <1>1, <1>2, <1>3, <1>4 DEF UpTo
<1> HIDE DEF K, M
<1> DEFINE P == {n \in Nat : n <= K => f[n] = g[n]}
           Q == {n \in Nat : n <= M => f[K + n] = g[K] * h[n]}
<1>8. 0 \in P
  BY <1>5
<1>9. ASSUME NEW n \in Nat, n \in P
      PROVE  n + 1 \in P
  <2> SUFFICES ASSUME n + 1 <= K
               PROVE  f[n + 1] = g[n + 1]
    OBVIOUS
  <2>1. n + 1 \in 1..K /\ n + 1 \in 1..(K + M) /\ (n + 1) - 1 = n /\ f[n] = g[n]
    BY <1>4, <1>9
  <2>2. f[n + 1] = f[n] * s[n + 1] /\ g[n + 1] = g[n] * u[n + 1]
    BY <1>5, <2>1
  <2> QED BY <1>6, <2>1, <2>2
<1>10. K \in P
  <2> HIDE DEF P
  <2> QED BY <1>4, <1>8, <1>9, Induction
<1>11. f[K] = g[K] /\ g[K] \in Nat
  BY <1>4, <1>5, <1>10
<1>12. 0 \in Q
  <2>1. K + 0 = K /\ g[K] * 1 = g[K]
    BY <1>4, <1>11
  <2> QED BY <1>5, <1>11, <2>1
<1>13. ASSUME NEW n \in Nat, n \in Q
       PROVE  n + 1 \in Q
  <2> SUFFICES ASSUME n + 1 <= M
               PROVE  f[K + (n + 1)] = g[K] * h[n + 1]
    OBVIOUS
  <2>1. /\ n + 1 \in 1..M /\ K + (n + 1) \in 1..(K + M) /\ (n + 1) - 1 = n
        /\ (K + (n + 1)) - 1 = K + n /\ f[K + n] = g[K] * h[n] /\ n \in 0..M
    <3>1. n <= M /\ f[K + n] = g[K] * h[n]
      BY <1>4, <1>13
    <3>2. n + 1 \in 1..M /\ K + (n + 1) \in 1..(K + M) /\ (n + 1) - 1 = n /\ n \in 0..M
      BY <1>4
    <3>3. (K + (n + 1)) - 1 = K + n
      BY <1>4
    <3> QED BY <3>1, <3>2, <3>3
  <2>2. f[K + (n + 1)] = f[K + n] * s[K + (n + 1)] /\ h[n + 1] = h[n] * t[n + 1]
    BY <1>5, <2>1
  <2>3. s[K + (n + 1)] = t[n + 1] /\ t[n + 1] \in Nat /\ h[n] \in Nat
    BY <1>5, <1>6, <2>1
  <2> DEFINE a == g[K]
             b == h[n]
             c == t[n + 1]
  <2>4. a \in Nat /\ b \in Nat /\ c \in Nat
    BY <1>11, <2>3
  <2>5. f[K + (n + 1)] = (a * b) * c /\ h[n + 1] = b * c
    BY <2>1, <2>2, <2>3
  <2> HIDE DEF a, b, c
  <2>6. (a * b) * c = a * (b * c)
    BY <2>4
  <2> QED BY <2>5, <2>6 DEF a
<1>14. M \in Q
  <2> HIDE DEF Q
  <2> QED BY <1>4, <1>12, <1>13, Induction
<1> QED BY <1>4, <1>7, <1>14

LEMMA ProductShort ==
  ASSUME NEW s \in Seq(Nat)
  PROVE  /\ Len(s) = 0 => Product(s) = 1
         /\ Len(s) = 1 => Product(s) = s[1]
<1>1. PICK f : UpTo(s, f)
  BY ProductUpTo
<1>2. Len(s) = 0 => Product(s) = 1
  BY <1>1 DEF UpTo
<1>3. \A n \in 1..Len(s) : s[n] \in Nat
  OBVIOUS
<1>4. Len(s) = 1 => Product(s) = s[1]
  <2> HAVE Len(s) = 1
  <2>1. 1 \in 1..Len(s) /\ 1 - 1 = 0
    OBVIOUS
  <2>2. s[1] \in Nat
    BY <1>3, <2>1
  <2>3. f[1] = f[0] * s[1] /\ f[0] = 1 /\ Product(s) = f[1]
    BY <1>1, <2>1 DEF UpTo
  <2> QED BY <2>3, <2>2
<1> QED BY <1>2, <1>4

LEMMA ProductPositive ==
  ASSUME NEW s \in Seq(Nat \ {0})
  PROVE  Product(s) \in Nat \ {0}
<1> DEFINE N == Len(s)
<1>1. s \in Seq(Nat) /\ N \in Nat /\ \A n \in 1..N : s[n] \in Nat \ {0}
  OBVIOUS
<1>2. PICK f : UpTo(s, f)
  BY <1>1, ProductUpTo
<1>3. /\ f[0] = 1 /\ Product(s) = f[N]
      /\ \A n \in 1..N : f[n] = f[n - 1] * s[n]
  BY <1>2 DEF UpTo
<1> HIDE DEF N
<1> DEFINE P == {n \in Nat : n <= N => f[n] \in Nat \ {0}}
<1>4. 0 \in P
  BY <1>3
<1>5. ASSUME NEW n \in Nat, n \in P
      PROVE  n + 1 \in P
  <2> SUFFICES ASSUME n + 1 <= N
               PROVE  f[n + 1] \in Nat \ {0}
    OBVIOUS
  <2>1. n + 1 \in 1..N /\ (n + 1) - 1 = n /\ f[n] \in Nat \ {0} /\ s[n + 1] \in Nat \ {0}
    BY <1>1, <1>5
  <2>2. f[n + 1] = f[n] * s[n + 1]
    BY <1>3, <2>1
  <2> DEFINE a == f[n]
             b == s[n + 1]
  <2>3. a \in Nat \ {0} /\ b \in Nat \ {0} /\ f[n + 1] = a * b
    BY <2>1, <2>2
  <2> HIDE DEF a, b
  <2>4. 1 * b <= a * b
    BY <2>3, ProductsGrow
  <2> QED BY <2>3, <2>4
<1>6. N \in P
  <2> HIDE DEF P
  <2> QED BY <1>1, <1>4, <1>5, Induction
<1> QED BY <1>1, <1>3, <1>6

LEMMA FlattenedOne ==
  ASSUME NEW s
  PROVE  FlattenSeq(<<s>>) = s
<1> DEFINE ss == <<s>>
           F(f) == f = [i \in 1..1 |-> IF i = 1 THEN ss[i] ELSE f[i - 1] \o ss[i]]
           f == CHOOSE h : F(h)
           g == [i \in 1..1 |-> s]
<1>1. Len(ss) = 1 /\ ss[1] = s
  OBVIOUS
<1>2. FlattenSeq(ss) = f[1]
  BY <1>1 DEF FlattenSeq
<1> HIDE DEF ss
<1>3. F(g)
  <2>1. \A i \in 1..1 : i = 1
    OBVIOUS
  <2> QED BY <1>1, <2>1
<1> HIDE DEF g
<1>4. F(f)
  BY <1>3
<1> HIDE DEF f
<1>5. 1 \in 1..1
  OBVIOUS
<1>6. f[1] = ss[1]
  BY <1>4, <1>5
<1> QED BY <1>1, <1>2, <1>6 DEF ss

LEMMA FlattenedSingles ==
  ASSUME NEW n \in Nat, NEW e
  PROVE  FlattenSeq([m \in 1..n |-> <<e[m]>>]) = [m \in 1..n |-> e[m]]
<1> DEFINE ss == [m \in 1..n |-> <<e[m]>>]
           w == 1
<1>1. ss = [m \in 1..n |-> ss[m]] /\ \A m \in 1..n : ss[m] = <<e[m]>>
  OBVIOUS
<1> HIDE DEF ss
<1>2. IsGrid(ss, n, w)
  <2>1. ASSUME NEW x
        PROVE  <<x>> = [k \in 1..1 |-> <<x>>[k]]
    OBVIOUS
  <2>2. \A m \in 1..n : ss[m] = [k \in 1..1 |-> ss[m][k]]
    BY <1>1, <2>1
  <2> QED BY <1>1, <2>2 DEF IsGrid
<1>3. w = 1
  OBVIOUS
<1>4. w \in Nat \ {0}
  OBVIOUS
<1> HIDE DEF w
<1>5. FlattenSeq(ss) = [t \in 1..(n * w) |-> Row(ss, w, t)]
  BY <1>2, <1>4, FlattenedRows
<1>6. ASSUME NEW t \in 1..n
      PROVE  Row(ss, w, t) = e[t]
  <2>1. ((t - 1) \div 1) + 1 = t /\ ((t - 1) % 1) + 1 = 1
    OBVIOUS
  <2>2. ss[t][1] = e[t]
    BY <1>1
  <2> QED BY <1>3, <2>1, <2>2 DEF Row
<1>7. n * w = n
  BY <1>3
<1> QED BY <1>5, <1>6, <1>7 DEF ss

(* for(v = a; v < a + e * (T - 1) + 1; v = v + e) runs T times.            *)
LEMMA ValuesOfLoop ==
  ASSUME NEW a \in Int, NEW e \in Nat \ {0}, NEW T \in Nat \ {0}
  PROVE  LET b == Bounds(a, (a + e * (T - 1)) + 1, e)
         IN Values(b) = [n \in 1..T |-> a + (n - 1) * e]
<1> DEFINE b == Bounds(a, (a + e * (T - 1)) + 1, e)
           c == e * (T - 1)
<1>1. b.from = a /\ b.below = (a + c) + 1 /\ b.step = e
  BY DEF Bounds
<1>2. c \in Nat
  <2>1. T - 1 \in Nat
    OBVIOUS
  <2> QED BY <2>1
<1>3. c + e = T * e + 0
  OBVIOUS
<1>4. (T * e + 0) \div e = T
  BY Digits
<1> HIDE DEF b, c
<1>5. Enters(b)
  BY <1>1, <1>2 DEF Enters
<1>6. b.below - b.from + b.step - 1 = c + e
  BY <1>1, <1>2
<1>7. Values(b) = [n \in 1..((b.below - b.from + b.step - 1) \div b.step) |->
                     b.from + (n - 1) * b.step]
  <2> DEFINE N == (b.below - b.from + b.step - 1) \div b.step
             M == IF Enters(b) THEN N ELSE 0
  <2>1. M = N
    BY <1>5
  <2>2. Values(b) = [n \in 1..M |-> b.from + (n - 1) * b.step]
    BY DEF Values
  <2> HIDE DEF M
  <2> QED BY <2>1, <2>2
<1> QED BY <1>1, <1>3, <1>4, <1>6, <1>7 DEF b, c

LEMMA ValuesOnce == Values(Bounds(0, 1, 1)) = <<0>>
<1>1. (((1 - 0) + 1) - 1) \div 1 = 1
  OBVIOUS
<1>2. Values(Bounds(0, 1, 1)) = [n \in 1..1 |-> 0 + (n - 1) * 1]
  BY <1>1 DEF Values, Bounds, Enters
<1>3. \A n \in 1..1 : n = 1
  OBVIOUS
<1>4. [n \in 1..1 |-> 0 + (n - 1) * 1] = <<0>>
  BY <1>3
<1> QED BY <1>2, <1>4

(* shapeAddressList for a plain access: the positions row by row.          *)
Position(pis, i, j) == extractIteratorAdvancement(pis.type, i, j, 0, 0, pis.arrayCols)

Lists(s, n, v) == s = [k \in 1..n |-> v[k]]

PlainRows(list, pis, N, M, y, x) ==
  shapeAddressList(list, pis) =
    [t \in 1..(N * M) |->
       ElementAt(list, Position(pis, y[((t - 1) \div M) + 1], x[((t - 1) % M) + 1]))]

LEMMA ShapePlain ==
  ASSUME NEW list, NEW pis, IsPlain(pis), ~IsTriangular(pis),
         NEW N \in Nat, NEW M \in Nat \ {0}, NEW y, NEW x,
         Lists(Values(LoopI(pis)), N, y), Lists(Values(LoopJ(pis)), M, x)
  PROVE  PlainRows(list, pis, N, M, y, x)
<1>1. /\ Values(LoopI(pis)) = [n \in 1..N |-> y[n]]
      /\ Values(LoopJ(pis)) = [n \in 1..M |-> x[n]]
  BY DEF Lists
<1> DEFINE e(i, j) == ElementAt(list, Position(pis, i, j))
           inner(i, j) ==
             ForEach(Values(LoopK(pis, i)), LAMBDA k :
               ForEach(Values(LoopL(pis, j)), LAMBDA l :
                 << ElementAt(list,
                      IF IsTriangular(pis) THEN pis.arrayCols * k + l
                      ELSE extractIteratorAdvancement(pis.type, i, j, k, l, pis.arrayCols)) >>))
           lines == Values(LoopI(pis))
           columns == Values(LoopJ(pis))
           row(i) == FlattenSeq([m \in DOMAIN columns |-> inner(i, columns[m])])
           ss == [n \in 1..N |-> [m \in 1..M |-> e(y[n], x[m])]]
<1>2. shapeAddressList(list, pis) = FlattenSeq([n \in DOMAIN lines |-> row(lines[n])])
  <2>1. pis.type # "undefined"
    BY DEF IsPlain
  <2> QED BY <2>1 DEF shapeAddressList, ForEach
<1>3. \A i, j : inner(i, j) = <<e(i, j)>>
  <2> SUFFICES ASSUME NEW i, NEW j
               PROVE  inner(i, j) = <<e(i, j)>>
    BY Zenon
  <2>1. Values(LoopK(pis, i)) = <<0>> /\ Values(LoopL(pis, j)) = <<0>>
    BY ValuesOnce DEF LoopK, LoopL
  <2> DEFINE body(k, l) ==
               << ElementAt(list,
                      IF IsTriangular(pis) THEN pis.arrayCols * k + l
                      ELSE extractIteratorAdvancement(pis.type, i, j, k, l, pis.arrayCols)) >>
  <2>2. body(0, 0) = <<e(i, j)>>
    BY DEF Position
  <2>3. inner(i, j) = FlattenSeq([k \in DOMAIN <<0>> |->
                        FlattenSeq([l \in DOMAIN <<0>> |-> body(<<0>>[k], <<0>>[l])])])
    BY <2>1 DEF ForEach
  <2> HIDE DEF body, inner
  <2>4. DOMAIN <<0>> = {1} /\ \A k \in {1} : k = 1 /\ <<0>>[k] = 0
    OBVIOUS
  <2>5. \A k \in DOMAIN <<0>> : [l \in DOMAIN <<0>> |-> body(<<0>>[k], <<0>>[l])] = <<body(0, 0)>>
    BY <2>4
  <2>6. \A k \in DOMAIN <<0>> :
          FlattenSeq([l \in DOMAIN <<0>> |-> body(<<0>>[k], <<0>>[l])]) = body(0, 0)
    BY <2>5, FlattenedOne
  <2>7. [k \in DOMAIN <<0>> |->
           FlattenSeq([l \in DOMAIN <<0>> |-> body(<<0>>[k], <<0>>[l])])] = <<body(0, 0)>>
    BY <2>4, <2>6
  <2> QED BY <2>2, <2>3, <2>7, FlattenedOne
<1> HIDE DEF inner, e
<1>4. /\ DOMAIN lines = 1..N /\ \A n \in 1..N : lines[n] = y[n]
      /\ DOMAIN columns = 1..M /\ \A m \in 1..M : columns[m] = x[m]
  BY <1>1
<1> HIDE DEF lines, columns
<1>5. ASSUME NEW i
      PROVE  row(i) = [m \in 1..M |-> e(i, x[m])]
  <2> DEFINE z == [m \in 1..M |-> e(i, x[m])]
  <2>1. \A m \in 1..M : inner(i, columns[m]) = <<z[m]>>
    BY <1>3, <1>4
  <2> HIDE DEF z
  <2>2. row(i) = FlattenSeq([m \in 1..M |-> <<z[m]>>])
    BY <1>4, <2>1
  <2>3. row(i) = [m \in 1..M |-> z[m]]
    BY <2>2, FlattenedSingles
  <2> QED BY <2>3 DEF z
<1> HIDE DEF row
<1>6. [n \in DOMAIN lines |-> row(lines[n])] = ss
  BY <1>4, <1>5
<1>7. IsGrid(ss, N, M)
  BY DEF IsGrid
<1>8. ASSUME NEW t \in 1..(N * M)
      PROVE  Row(ss, M, t) = e(y[((t - 1) \div M) + 1], x[((t - 1) % M) + 1])
  BY PlaceInRow DEF Row
<1> HIDE DEF ss
<1>9. FlattenSeq(ss) = [t \in 1..(N * M) |-> Row(ss, M, t)]
  BY <1>7, FlattenedRows
<1> QED BY <1>2, <1>6, <1>8, <1>9 DEF e, PlainRows

IsList(s, n) == s = [k \in 1..n |-> s[k]]

(* expandAddressList, where the index goes by the m-th of the loops: each  *)
(* element as often as the loops inside run, the list as often as those    *)
(* around it.                                                              *)
Repeated(expanded, list, R, T, E) ==
  expanded = [t \in 1..(R * (T * E)) |-> list[(((t - 1) % (T * E)) \div E) + 1]]

LEMMA ListExpanded ==
  ASSUME NEW its \in Seq(Nat \ {0}), NEW m \in 1..Len(its),
         NEW pis, pis.initZeros = m - 1, pis.finalZeros = Len(its) - m,
         NEW T \in Nat \ {0}, NEW list, IsList(list, T)
  PROVE  Repeated(expandAddressList(list, pis, its), list,
                  Product(SubSeq(its, 1, m - 1)), T, Product(SubSeq(its, m + 1, Len(its))))
<1> DEFINE R == Product(SubSeq(its, 1, m - 1))
           E == Product(SubSeq(its, m + 1, Len(its)))
           Times(n, s) == ForEach([k \in 1..n |-> k], LAMBDA k : s)
           W == T * E
<1> SUFFICES expandAddressList(list, pis, its) =
               [t \in 1..(R * (T * E)) |-> list[(((t - 1) % (T * E)) \div E) + 1]]
  BY DEF Repeated
<1>1. Len(its) \in Nat /\ m \in Nat /\ 1 <= m /\ m <= Len(its)
  OBVIOUS
<1>2. R \in Nat \ {0} /\ E \in Nat \ {0}
  <2>1. SubSeq(its, 1, m - 1) \in Seq(Nat \ {0}) /\ SubSeq(its, m + 1, Len(its)) \in Seq(Nat \ {0})
    OBVIOUS
  <2> QED BY <2>1, ProductPositive
<1>3. W \in Nat \ {0}
  <2> HIDE DEF E
  <2>1. T * E \in Nat
    BY <1>2
  <2>2. 1 * E <= T * E
    BY <1>2, ProductsGrow
  <2> QED BY <1>2, <2>1, <2>2
<1>4. CASE pis.initZeros = 0 /\ pis.finalZeros = 0
  <2>1. m = 1 /\ Len(its) = 1
    <3> DEFINE n == Len(its)
    <3>1. m - 1 = 0 /\ n - m = 0 /\ n \in Nat /\ m \in Nat
      BY <1>4, <1>1
    <3> HIDE DEF n
    <3>2. m = 1 /\ n = 1
      BY <3>1
    <3> QED BY <3>2 DEF n
  <2>2. expandAddressList(list, pis, its) = list
    BY <1>4, Zenon DEF expandAddressList
  <2>3. R = 1 /\ E = 1
    <3>1. /\ SubSeq(its, 1, m - 1) \in Seq(Nat) /\ Len(SubSeq(its, 1, m - 1)) = 0
          /\ SubSeq(its, m + 1, Len(its)) \in Seq(Nat) /\ Len(SubSeq(its, m + 1, Len(its))) = 0
      BY <2>1
    <3> QED BY <3>1, ProductShort
  <2> HIDE DEF R, E
  <2>4. R * (T * E) = T /\ T * E = T
    BY <2>3
  <2>5. \A t \in 1..T : (((t - 1) % T) \div 1) + 1 = t
    <3> SUFFICES ASSUME NEW t \in 1..T
                 PROVE  (((t - 1) % T) \div 1) + 1 = t
      OBVIOUS
    <3>1. (0 * T + (t - 1)) % T = t - 1
      <4>1. t - 1 \in 0..(T - 1) /\ 0 \in Nat
        OBVIOUS
      <4> QED BY <4>1, Digits
    <3>2. 0 * T + (t - 1) = t - 1 /\ (t - 1) \div 1 = t - 1
      OBVIOUS
    <3> QED BY <3>1, <3>2
  <2>6. list = [t \in 1..T |-> list[(((t - 1) % T) \div 1) + 1]]
    BY <2>5 DEF IsList
  <2> QED BY <2>2, <2>3, <2>4, <2>6 DEF R, E
<1>5. CASE ~(pis.initZeros = 0 /\ pis.finalZeros = 0)
  <2>1. /\ SubSeq(its, 1, pis.initZeros) = SubSeq(its, 1, m - 1)
        /\ Len(its) - pis.finalZeros + 1 = m + 1
    <3>1. Len(its) \in Nat /\ m \in Int
      OBVIOUS
    <3> QED BY <3>1
  <2>2. expandAddressList(list, pis, its) =
          Times(R, ForEach(list, LAMBDA e : Times(E, <<e>>)))
    BY <1>5, <2>1 DEF expandAddressList, ForEach
  <2> HIDE DEF R, E
  <2>3. ASSUME NEW x
        PROVE  Times(E, <<x>>) = [k \in 1..E |-> x]
    <3> DEFINE z == [k \in 1..E |-> x]
    <3>1. Times(E, <<x>>) = FlattenSeq([k \in 1..E |-> <<z[k]>>])
      BY DEF ForEach
    <3>2. FlattenSeq([k \in 1..E |-> <<z[k]>>]) = [k \in 1..E |-> z[k]]
      <4> HIDE DEF z
      <4> QED BY <1>2, FlattenedSingles
    <3> QED BY <3>1, <3>2, Zenon
  <2> DEFINE ss == [n \in 1..T |-> [k \in 1..E |-> list[n]]]
             each == ForEach(list, LAMBDA e : Times(E, <<e>>))
             rs == [n \in 1..R |-> each]
  <2>4. each = FlattenSeq(ss)
    <3>1. each = FlattenSeq([n \in 1..T |-> Times(E, <<list[n]>>)])
      <4>1. DOMAIN list = 1..T
        BY DEF IsList
      <4> QED BY <4>1 DEF ForEach
    <3>2. [n \in 1..T |-> Times(E, <<list[n]>>)] = ss
      BY <2>3, Zenon
    <3> QED BY <3>1, <3>2, Zenon
  <2>5. IsGrid(ss, T, E)
    BY DEF IsGrid
  <2>6. each = [t \in 1..W |-> Row(ss, E, t)]
    <3> HIDE DEF each, ss
    <3> QED BY <1>2, <2>4, <2>5, FlattenedRows
  <2>7. ASSUME NEW t \in 1..W
        PROVE  Row(ss, E, t) = list[((t - 1) \div E) + 1]
    <3>1. ((t - 1) \div E) + 1 \in 1..T /\ ((t - 1) % E) + 1 \in 1..E
      BY <1>2, PlaceInRow
    <3> QED BY <3>1 DEF Row
  <2>8. each = [t \in 1..W |-> list[((t - 1) \div E) + 1]]
    <3> HIDE DEF ss, each, W
    <3> QED BY <2>6, <2>7
  <2>9. Times(R, each) = FlattenSeq(rs)
    <3> HIDE DEF each
    <3> QED BY DEF ForEach
  <2> HIDE DEF each, ss, Times, W
  <2>10. IsGrid(rs, R, W)
    BY <2>8 DEF IsGrid
  <2>11. FlattenSeq(rs) = [t \in 1..(R * W) |-> Row(rs, W, t)]
    <3> HIDE DEF rs
    <3> QED BY <1>2, <1>3, <2>10, FlattenedRows
  <2>12. ASSUME NEW t \in 1..(R * W)
         PROVE  Row(rs, W, t) = list[(((t - 1) % W) \div E) + 1]
    <3> DEFINE b == (t - 1) % W
    <3>1. ((t - 1) \div W) + 1 \in 1..R /\ b + 1 \in 1..W
      BY <1>2, <1>3, PlaceInRow
    <3>2. b \in 0..(W - 1)
      <4>1. R * W \in Nat
        BY <1>2, <1>3
      <4>2. t - 1 \in Nat
        BY <4>1
      <4> QED BY <1>3, <4>2, Rest
    <3>3. Row(rs, W, t) = each[b + 1]
      BY <3>1 DEF Row
    <3> HIDE DEF b
    <3>4. each[b + 1] = list[(((b + 1) - 1) \div E) + 1] /\ (b + 1) - 1 = b
      <4>1. (b + 1) - 1 = b
        BY <3>2
      <4> QED BY <2>8, <3>1, <4>1
    <3> QED BY <3>3, <3>4 DEF b
  <2>13. FlattenSeq(rs) = [t \in 1..(R * W) |-> list[(((t - 1) % W) \div E) + 1]]
    <3> HIDE DEF rs
    <3> QED BY <2>11, <2>12
  <2> HIDE DEF rs
  <2>14. expandAddressList(list, pis, its) = [t \in 1..(R * W) |-> list[(((t - 1) % W) \div E) + 1]]
    BY <2>2, <2>9, <2>13 DEF each
  <2> QED BY <2>14 DEF W, R, E
<1> QED BY <1>4, <1>5

(* The loops around an access, from the outermost, each with an iterator   *)
(* of its own.                                                             *)
IsNest(nest) ==
  /\ nest \in Seq(Loops) /\ Len(nest) \in Nat \ {0}
  /\ DOMAIN nest = 1..Len(nest)
  /\ \A m \in DOMAIN nest : nest[m] \in Loops
  /\ \A k, m \in DOMAIN nest : IteratorOf(nest[k]) = IteratorOf(nest[m]) => k = m

LEMMA NestOfAccess ==
  ASSUME prog \in Programs, Plain, NEW p, prog.access[p].loop \in Loops
  PROVE  IsNest(Nest(p)) /\ Len(Nest(p)) = Len(Parents(prog.access[p].loop)) + 1
<1> DEFINE n == prog.access[p].loop
           s == <<n>> \o Parents(n)
           nest == Nest(p)
           N == Len(s)
<1>1. /\ Parents(n) \in Seq(1..(n - 1)) /\ Falls(Parents(n), n - 1)
      /\ n \in Nat /\ n \in Loops /\ Loops = 1..Len(prog.loops) /\ Len(prog.loops) \in Nat
  BY ParentsBefore, LoopsOfProgram
<1>2. nest = Reverse(s)
  BY DEF Nest
<1> HIDE DEF n, nest
<1>3. n = (n - 1) + 1 /\ n - 1 \in Nat /\ n - 1 \in 0..(n - 1)
  BY <1>1
<1>4. Falls(s, n) /\ Len(s) = Len(Parents(n)) + 1
  <2>1. Falls(<<(n - 1) + 1>> \o Parents(n), (n - 1) + 1)
    BY <1>1, <1>3, OneMore
  <2>2. Len(s) = Len(Parents(n)) + 1
    BY <1>1
  <2> QED BY <1>3, <2>1, <2>2
<1> HIDE DEF s
<1>5. s \in Seq(1..n) /\ \A i, j \in DOMAIN s : i < j => s[j] < s[i]
  BY <1>4 DEF Falls
<1>6. N \in Nat \ {0} /\ DOMAIN s = 1..N /\ \A i \in 1..N : s[i] \in 1..n
  <2>1. Len(Parents(n)) \in Nat
    BY <1>1
  <2>2. DOMAIN s = 1..Len(s) /\ \A i \in DOMAIN s : s[i] \in 1..n
    <3> DEFINE T == 1..n
    <3>1. s \in Seq(T)
      BY <1>5
    <3> HIDE DEF T
    <3>2. DOMAIN s = 1..Len(s) /\ \A i \in DOMAIN s : s[i] \in T
      BY <3>1
    <3> QED BY <3>2 DEF T
  <2> QED BY <1>4, <2>1, <2>2
<1>7. \A i, j \in 1..N : s[i] = s[j] => i = j
  BY <1>5, <1>6
<1>8. nest = [i \in 1..N |-> s[(N - i) + 1]]
  BY <1>2 DEF Reverse
<1> HIDE DEF N
<1>9. \A i \in 1..N : (N - i) + 1 \in 1..N /\ nest[i] = s[(N - i) + 1] /\ nest[i] \in Loops
  <2>1. \A i \in 1..N : (N - i) + 1 \in 1..N
    BY <1>6
  <2>2. \A i \in 1..N : nest[i] = s[(N - i) + 1]
    BY <1>8
  <2>3. \A i \in 1..n : i \in Loops
    BY <1>1
  <2> QED BY <1>6, <2>1, <2>2, <2>3
<1>10. nest \in Seq(Loops) /\ Len(nest) = N /\ DOMAIN nest = 1..N
  <2>1. nest \in [1..N -> Loops]
    BY <1>8, <1>9
  <2> QED BY <1>6, <2>1
<1>11. ASSUME NEW k \in 1..N, NEW m \in 1..N, IteratorOf(nest[k]) = IteratorOf(nest[m])
       PROVE  k = m
  <2>1. nest[k] = nest[m]
    BY <1>9, <1>11 DEF Plain, PlainLoop
  <2>2. (N - k) + 1 = (N - m) + 1
    BY <1>7, <1>9, <2>1
  <2> QED BY <1>6, <2>2
<1>12. IsNest(nest)
  BY <1>6, <1>9, <1>10, <1>11 DEF IsNest
<1> QED BY <1>4, <1>10, <1>12 DEF n, nest, N

(* What the tables say of the loops around an access, at the end.          *)
NestRead(nest) ==
  /\ \A m \in DOMAIN nest :
       LET info == loopInfoMap[IteratorOf(nest[m])]
       IN /\ info.init = prog.loops[nest[m]].init /\ info.inc = prog.loops[nest[m]].inc
          /\ info.isInit /\ info.isFinal /\ info.iterations = TripCount(nest[m])
          /\ TripCount(nest[m]) \in 1..MaxTrips
          /\ prog.loops[nest[m]].init \in Int /\ prog.loops[nest[m]].inc \in Nat \ {0}

LEMMA TablesOfNest ==
  ASSUME LoopInv, LoopsRecorded, Parsed, Plain, loop > Len(prog.loops),
         NEW p, prog.access[p].loop \in Loops, \A n \in Range(Nest(p)) : Ascending(n)
  PROVE  /\ NestRead(Nest(p))
         /\ getIterationVector(IteratorOf(prog.access[p].loop)) =
              [m \in 1..Len(Nest(p)) |-> IteratorOf(Nest(p)[m])]
<1> DEFINE nest == Nest(p)
           n == prog.access[p].loop
<1>1. prog \in Programs /\ TypeInv
  BY DEF LoopInv, TypeInv
<1>2. IsNest(nest) /\ Len(nest) = Len(Parents(n)) + 1
  BY <1>1, NestOfAccess
<1>3. OwnIterators /\ Loops = 1..Len(prog.loops) /\ Len(prog.loops) \in Nat
  BY <1>1, PlainLoops, LoopsOfProgram
<1>4. DOMAIN loopIteratorMap = Loops
  <2>1. Len(loopIteratorMap) = loop - 1 /\ DOMAIN loopIteratorMap = 1..Len(loopIteratorMap)
        /\ loop \in 1..(Len(prog.loops) + 1)
    BY <1>1 DEF LoopInv, RecordsOK, TypeInv, LoopTablesOK, PlaceOK
  <2> QED BY <1>3, <2>1
<1>5. \A k \in Loops : PlainNest(k)
  <2> SUFFICES ASSUME NEW k \in Loops
               PROVE  PlainNest(k)
    OBVIOUS
  <2> DEFINE s == <<k>> \o Parents(k)
  <2>1. Parents(k) \in Seq(1..(k - 1)) /\ k \in 1..Len(prog.loops)
    BY <1>1, <1>3, ParentsBefore
  <2>2. Parents(k) \in Seq(Loops)
    <3>1. 1..(k - 1) \subseteq Loops
      BY <1>3, <2>1
    <3> QED BY <2>1, <3>1, SeqOfMore
  <2>3. s \in Seq(Loops)
    BY <2>2
  <2> HIDE DEF s
  <2>4. \A i \in DOMAIN s : s[i] \in Loops
    BY <2>3
  <2> QED BY <2>4 DEF PlainNest, Plain, Range, s
<1> HIDE DEF nest, n
<1>6. \A m \in DOMAIN nest : nest[m] \in Loops /\ Ascending(nest[m])
  <2>1. \A m \in DOMAIN nest : nest[m] \in Range(nest)
    BY DEF Range
  <2> QED BY <1>2, <2>1 DEF IsNest, nest
<1>7. \A k \in Loops : Runs(k) =>
        LET info == loopInfoMap[IteratorOf(k)]
        IN /\ info.init = prog.loops[k].init /\ info.inc = prog.loops[k].inc
           /\ info.isInit /\ info.isFinal
           /\ info.iterations = TripCount(k)
           /\ getIterationVector(IteratorOf(k)) =
                [m \in 1..(Len(Parents(k)) + 1) |-> IteratorOf(Reverse(<<k>> \o Parents(k))[m])]
  BY <1>3, <1>4, <1>5, Zenon DEF LoopsRecorded
<1>8. \A m \in DOMAIN nest : /\ prog.loops[nest[m]].init \in Int
                             /\ prog.loops[nest[m]].inc \in Nat \ {0}
  <2>1. \A k \in Loops : prog.loops[k].init \in Int /\ prog.loops[k].inc \in Int
    BY <1>1, LoopsOfProgram
  <2> QED BY <1>6, <2>1 DEF Ascending
<1>9. NestRead(nest)
  BY <1>6, <1>7, <1>8 DEF NestRead, Ascending, Runs
<1>10. getIterationVector(IteratorOf(n)) = [m \in 1..Len(nest) |-> IteratorOf(nest[m])]
  <2>1. n \in Loops /\ Runs(n)
    <3>1. n \in Loops
      BY DEF n
    <3>2. n = nest[Len(nest)]
      <4> DEFINE s == <<n>> \o Parents(n)
                 N == Len(s)
      <4>1. Parents(n) \in Seq(1..(n - 1)) /\ n \in Nat
        BY <1>1, <1>3, <3>1, ParentsBefore
      <4>2. N = Len(Parents(n)) + 1 /\ s[1] = n /\ N \in Nat
        BY <4>1
      <4>3. nest = Reverse(s)
        BY DEF nest, Nest, n
      <4> HIDE DEF s
      <4>4. nest = [i \in 1..N |-> s[(N - i) + 1]]
        BY <4>3 DEF Reverse
      <4> HIDE DEF N
      <4>5. N = Len(nest) /\ N \in DOMAIN nest /\ (N - N) + 1 = 1
        BY <1>2, <4>2 DEF IsNest
      <4> QED BY <1>2, <4>2, <4>4, <4>5 DEF IsNest
    <3>3. Len(nest) \in DOMAIN nest
      BY <1>2 DEF IsNest
    <3> QED BY <1>6, <3>1, <3>2, <3>3 DEF Ascending
  <2>2. nest = Reverse(<<n>> \o Parents(n))
    BY DEF nest, Nest, n
  <2> QED BY <1>2, <1>7, <2>1, <2>2
<1> QED BY <1>9, <1>10 DEF nest, n

(* The matrix of a vector that is read by the m-th of D loops: one row     *)
(* with one entry, which is taken for an access by rows.                   *)
IsRowMatrix(M, D, m, e) ==
  /\ M.rows = 1 /\ M.cols = D
  /\ M.vec = [c \in 1..D |-> IF c = m THEN e ELSE 0]

LEMMA FirstOfSet ==
  ASSUME NEW S, S \subseteq Nat, S # {}
  PROVE  Nth(S, 1) \in S
<1>1. PICK m \in S : \A k \in S : m <= k
  BY LeastNumber
<1>2. {k \in S : k <= m} = {m}
  <2>1. \A k \in S : k \in Nat /\ m \in Nat
    OBVIOUS
  <2>2. \A k \in S : k <= m <=> k = m
    BY <1>1, <2>1
  <2> QED BY <2>2
<1>3. Cardinality({k \in S : k <= m}) = 1
  BY <1>2, FS_Singleton
<1>4. \E x \in S : Cardinality({k \in S : k <= x}) = 1
  BY <1>3
<1> QED BY <1>4 DEF Nth

LEMMA ZerosOfRow ==
  ASSUME NEW D \in Nat \ {0}, NEW m \in 1..D, NEW e \in Int \ {0}, NEW M, IsRowMatrix(M, D, m, e)
  PROVE  detectZeroCols(M).initZeros = m - 1 /\ detectZeroCols(M).finalZeros = D - m
<1> DEFINE zero == {c \in 1..M.cols : IsZeroColumn(M, c)}
           initial == {c \in zero : 1..c \subseteq zero}
<1>1. \A c \in 1..D : M.vec[c] = IF c = m THEN e ELSE 0
  BY DEF IsRowMatrix
<1>2. \A c \in 1..D : IsZeroColumn(M, c) <=> c # m
  <2> TAKE c \in 1..D
  <2>1. M.rows = 1 /\ M.cols = D
    BY DEF IsRowMatrix
  <2>2. IsZeroColumn(M, c) <=> M.vec[0 * D + c] = 0
    <3>1. \A r \in 0..(M.rows - 1) : r = 0
      BY <2>1
    <3>2. 0 \in 0..(M.rows - 1)
      BY <2>1
    <3> QED BY <2>1, <3>1, <3>2 DEF IsZeroColumn
  <2>3. 0 * D + c = c
    OBVIOUS
  <2> QED BY <1>1, <2>2, <2>3
<1>3. zero = (1..D) \ {m}
  BY <1>2 DEF IsRowMatrix
<1>4. detectZeroCols(M) = [initZeros |-> Cardinality(initial),
                          finalZeros |-> Cardinality(zero \ initial)]
  BY DEF detectZeroCols
<1> HIDE DEF zero
<1>5. initial = 1..(m - 1)
  <2>1. ASSUME NEW c \in 1..(m - 1)
        PROVE  c \in initial
    BY <1>3
  <2>2. ASSUME NEW c \in initial
        PROVE  c \in 1..(m - 1)
    <3>1. c \in 1..D /\ c # m /\ 1..c \subseteq zero
      BY <1>3
    <3>2. ~(m < c)
      <4>1. m \in 1..c => m \in zero
        BY <3>1
      <4> QED BY <1>3, <3>1, <4>1
    <3> QED BY <3>1, <3>2
  <2> QED BY <2>1, <2>2
<1> HIDE DEF initial
<1>6. zero \ initial = (m + 1)..D
  BY <1>3, <1>5
<1>7. Cardinality(1..(m - 1)) = m - 1 /\ Cardinality((m + 1)..D) = D - m
  <2>1. Cardinality(1..(m - 1)) = IF 1 > m - 1 THEN 0 ELSE (m - 1) - 1 + 1
    BY FS_Interval
  <2>2. Cardinality((m + 1)..D) = IF m + 1 > D THEN 0 ELSE D - (m + 1) + 1
    BY FS_Interval
  <2> QED BY <2>1, <2>2
<1> DEFINE before == Cardinality(initial)
           after == Cardinality(zero \ initial)
<1>8. before = m - 1 /\ after = D - m
  BY <1>5, <1>6, <1>7
<1>9. detectZeroCols(M) = [initZeros |-> before, finalZeros |-> after]
  BY <1>4
<1> HIDE DEF before, after
<1> QED BY <1>8, <1>9

LEMMA TypeOfRow ==
  ASSUME NEW D \in Nat \ {0}, NEW m \in 1..D, NEW e \in Int \ {0}, NEW M,
         IsRowMatrix(M, D, m, e), NEW heap
  PROVE  detectAccessPatternType(M, heap) = "rowMajor"
<1> DEFINE ap == pruneIncrementVector(M, heap)
           read(n) == ColumnRead(M, heap, n - 1)
           kept == {n \in 1..M.cols : \E r \in 1..M.rows : read(n)[r] # 0}
           K == Cardinality(kept)
           row == [n \in 1..K |-> read(Nth(kept, n))[1]]
           rest == SubSeq(M.vec, K + 1, D)
           S == {row[n] : n \in 1..K} \cup Int
<1>1. M.rows = 1 /\ M.cols = D /\ M.vec \in Seq(Int) /\ Len(M.vec) = D /\ M.vec[m] = e
  BY DEF IsRowMatrix
<1>2. kept = {n \in 1..D : read(n)[1] # 0}
  BY <1>1
<1>3. IsFiniteSet(kept) /\ K \in 0..D
  <2>1. kept \subseteq 1..D /\ IsFiniteSet(1..D) /\ Cardinality(1..D) = D
    BY <1>2, FS_Interval
  <2> HIDE DEF kept
  <2>2. IsFiniteSet(kept) /\ K <= Cardinality(1..D)
    BY <2>1, FS_Subset
  <2>3. K \in Nat
    BY <2>2, FS_CardinalityType
  <2> QED BY <2>1, <2>2, <2>3
<1>4. ap.rows = 1 /\ ap.cols = D /\ ap.vec = row \o rest
  <2> DEFINE new == FlattenSeq([r \in 1..M.rows |->
                       [n \in 1..Cardinality(kept) |-> read(Nth(kept, n))[r]]])
  <2>1. ap = [rows |-> M.rows, cols |-> IF M.rows = 2 THEN Cardinality(kept) ELSE M.cols,
              vec |-> new \o SubSeq(M.vec, Len(new) + 1, Len(M.vec))]
    BY DEF pruneIncrementVector
  <2>2. new = row
    <3> DEFINE z(r) == [n \in 1..Cardinality(kept) |-> read(Nth(kept, n))[r]]
    <3>1. new = FlattenSeq([r \in 1..M.rows |-> z(r)]) /\ row = z(1)
      OBVIOUS
    <3> HIDE DEF kept, read, new, row, z
    <3>2. [r \in 1..M.rows |-> z(r)] = <<z(1)>>
      BY <1>1
    <3> QED BY <3>1, <3>2, FlattenedOne
  <2> HIDE DEF read, ap, new
  <2>3. Len(row) = K
    <3> HIDE DEF kept, K
    <3> QED BY <1>3
  <2>4. SubSeq(M.vec, Len(new) + 1, Len(M.vec)) = rest
    <3> HIDE DEF row, K
    <3> QED BY <1>1, <2>2, <2>3
  <2> HIDE DEF row, K, rest
  <2> DEFINE tail == SubSeq(M.vec, Len(new) + 1, Len(M.vec))
             cols == IF M.rows = 2 THEN Cardinality(kept) ELSE M.cols
  <2>5. cols = D
    BY <1>1
  <2>6. ap = [rows |-> M.rows, cols |-> cols, vec |-> new \o tail]
    BY <2>1
  <2> HIDE DEF tail, cols, kept
  <2>7. ap.rows = M.rows /\ ap.cols = cols /\ ap.vec = new \o tail
    BY <2>6
  <2>8. tail = rest
    BY <2>4 DEF tail
  <2> QED BY <1>1, <2>2, <2>5, <2>7, <2>8
<1> HIDE DEF ap
<1>5. row \in Seq(S) /\ Len(row) = K /\ rest \in Seq(S) /\ Len(rest) = D - K
  <2> HIDE DEF kept, read, K
  <2>1. row \in Seq(S) /\ Len(row) = K
    BY <1>3
  <2>2. rest \in Seq(Int) /\ Len(rest) = D - K
    BY <1>1, <1>3
  <2>3. rest \in Seq(S)
    <3> HIDE DEF rest
    <3> QED BY <2>2, SeqOfMore
  <2> QED BY <2>1, <2>2, <2>3
<1>6. \E i \in 0..(ap.cols - 1) : Element(ap, heap, 0, i) # 0
  <2>1. \A i \in 0..(D - 1) : Element(ap, heap, 0, i) = ap.vec[i + 1]
    <3> TAKE i \in 0..(D - 1)
    <3>1. 0 * ap.cols + i = i
      BY <1>4
    <3>2. Len(ap.vec) = D
      <4> HIDE DEF row, rest, S, K
      <4> QED BY <1>3, <1>4, <1>5
    <3> QED BY <3>1, <3>2 DEF Element
  <2>2. CASE K = 0
    <3>1. row \o rest = rest
      <4> HIDE DEF rest, S, K, kept, read
      <4>1. row = << >>
        BY <2>2
      <4> HIDE DEF row
      <4> QED BY <1>5, <4>1
    <3>2. rest[m] = e
      <4> HIDE DEF K
      <4> QED BY <1>1, <2>2
    <3>3. m - 1 \in 0..(D - 1) /\ (m - 1) + 1 = m
      OBVIOUS
    <3> HIDE DEF row, rest, K
    <3> QED BY <1>4, <2>1, <3>1, <3>2, <3>3
  <2>3. CASE K # 0
    <3>1. kept # {} /\ kept \subseteq Nat
      <4>1. kept \subseteq 1..D
        BY <1>2
      <4> HIDE DEF kept
      <4> QED BY <1>3, <2>3, <4>1, FS_EmptySet
    <3>2. Nth(kept, 1) \in kept
      <4> HIDE DEF kept
      <4> QED BY <3>1, FirstOfSet
    <3>3. read(Nth(kept, 1))[1] # 0
      <4> DEFINE k == Nth(kept, 1)
      <4>1. k \in kept
        BY <3>2
      <4> HIDE DEF k, read
      <4>2. read(k)[1] # 0
        BY <1>2, <4>1
      <4> QED BY <4>2 DEF k
    <3>4. row[1] # 0
      <4> HIDE DEF read, kept, K
      <4> QED BY <1>3, <2>3, <3>3
    <3> HIDE DEF row, rest, K, S
    <3>5. (row \o rest)[1] = row[1]
      BY <1>3, <1>5, <2>3
    <3>6. 0 \in 0..(D - 1) /\ 0 + 1 = 1
      OBVIOUS
    <3> QED BY <1>4, <2>1, <3>4, <3>5, <3>6
  <2> QED BY <2>2, <2>3
<1> HIDE DEF row, rest, K, S
<1> QED BY <1>4, <1>6 DEF detectAccessPatternType, ap

(* The matrix of a square one: an entry in each row and in each column.    *)
(* The first shape that fits at its first entry is that of an access by    *)
(* rows.                                                                   *)
LEMMA ZerosOfSquare ==
  ASSUME NEW w, NEW x, NEW y, NEW z, w # 0 \/ y # 0, x # 0 \/ z # 0,
         NEW M, M.rows = 2, M.cols = 2, M.vec = <<w, x, y, z>>
  PROVE  detectZeroCols(M).initZeros = 0 /\ detectZeroCols(M).finalZeros = 0
<1> DEFINE zero == {c \in 1..M.cols : IsZeroColumn(M, c)}
           initial == {c \in zero : 1..c \subseteq zero}
           before == Cardinality(initial)
           after == Cardinality(zero \ initial)
<1>1. ~IsZeroColumn(M, 1) /\ ~IsZeroColumn(M, 2)
  <2>1. /\ 0 \in 0..(M.rows - 1) /\ 1 \in 0..(M.rows - 1)
        /\ 0 * M.cols + 1 = 1 /\ 1 * M.cols + 1 = 3
        /\ 0 * M.cols + 2 = 2 /\ 1 * M.cols + 2 = 4
    OBVIOUS
  <2>2. M.vec[1] = w /\ M.vec[2] = x /\ M.vec[3] = y /\ M.vec[4] = z
    OBVIOUS
  <2>3. ~IsZeroColumn(M, 1)
    <3>1. M.vec[0 * M.cols + 1] # 0 \/ M.vec[1 * M.cols + 1] # 0
      BY <2>1, <2>2
    <3> QED BY <2>1, <3>1 DEF IsZeroColumn
  <2>4. ~IsZeroColumn(M, 2)
    <3>1. M.vec[0 * M.cols + 2] # 0 \/ M.vec[1 * M.cols + 2] # 0
      BY <2>1, <2>2
    <3> QED BY <2>1, <3>1 DEF IsZeroColumn
  <2> QED BY <2>3, <2>4
<1>2. zero = {}
  <2>1. \A c \in 1..M.cols : c = 1 \/ c = 2
    OBVIOUS
  <2> QED BY <1>1, <2>1
<1>3. initial = {} /\ zero \ initial = {}
  BY <1>2
<1>4. Cardinality({}) = 0
  BY FS_EmptySet
<1>5. before = 0 /\ after = 0
  BY <1>3, <1>4
<1>6. detectZeroCols(M) = [initZeros |-> before, finalZeros |-> after]
  BY DEF detectZeroCols
<1> HIDE DEF before, after
<1> QED BY <1>5, <1>6

LEMMA FlattenedSquare ==
  ASSUME NEW w, NEW x, NEW y, NEW z
  PROVE  FlattenSeq(<< <<w, x>>, <<y, z>> >>) = <<w, x, y, z>>
<1> DEFINE ss == << <<w, x>>, <<y, z>> >>
           f(t) == Row(ss, 2, t)
<1>1. ss[1] = <<w, x>> /\ ss[2] = <<y, z>>
  OBVIOUS
<1>2. IsGrid(ss, 2, 2)
  <2>1. ss = [r \in 1..2 |-> ss[r]]
    OBVIOUS
  <2>2. \A r \in 1..2 : r = 1 \/ r = 2
    OBVIOUS
  <2> HIDE DEF ss
  <2>3. \A r \in 1..2 : ss[r] = [k \in 1..2 |-> ss[r][k]]
    BY <1>1, <2>2
  <2> QED BY <2>1, <2>3 DEF IsGrid
<1> HIDE DEF ss
<1>3. FlattenSeq(ss) = [t \in 1..(2 * 2) |-> f(t)]
  <2>1. 2 \in Nat /\ 2 \in Nat \ {0}
    OBVIOUS
  <2> DEFINE n == 2
  <2>2. IsGrid(ss, n, n) /\ n \in Nat /\ n \in Nat \ {0}
    BY <1>2, <2>1
  <2> HIDE DEF n
  <2>3. FlattenSeq(ss) = [t \in 1..(n * n) |-> Row(ss, n, t)]
    <3>1. \A k \in Nat \ {0} : \A u : IsGrid(u, k, k) => FlattenSeq(u) = [t \in 1..(k * k) |-> Row(u, k, t)]
      <4>1. \A k \in Nat \ {0} : k \in Nat
        OBVIOUS
      <4> QED BY <4>1, FlattenedRows, Zenon
    <3> HIDE DEF f
    <3> QED BY <2>2, <3>1, Zenon
  <2> QED BY <2>3 DEF n
<1>4. f(1) = w /\ f(2) = x /\ f(3) = y /\ f(4) = z
  <2>1. /\ ((1 - 1) \div 2) + 1 = 1 /\ ((1 - 1) % 2) + 1 = 1
        /\ ((2 - 1) \div 2) + 1 = 1 /\ ((2 - 1) % 2) + 1 = 2
        /\ ((3 - 1) \div 2) + 1 = 2 /\ ((3 - 1) % 2) + 1 = 1
        /\ ((4 - 1) \div 2) + 1 = 2 /\ ((4 - 1) % 2) + 1 = 2
    OBVIOUS
  <2> QED BY <1>1, <2>1 DEF Row
<1> HIDE DEF f
<1>5. FlattenSeq(ss) = <<f(1), f(2), f(3), f(4)>>
  BY <1>3
<1> QED BY <1>4, <1>5 DEF ss

LEMMA TypeOfSquare ==
  ASSUME NEW a \in Int \ {0}, NEW b \in Int \ {0},
         NEW M, M.rows = 2, M.cols = 2, M.vec = <<a, 0, 0, b>>, NEW heap
  PROVE  detectAccessPatternType(M, heap) = "rowMajor"
<1> DEFINE ap == pruneIncrementVector(M, heap)
           read(n) == ColumnRead(M, heap, n - 1)
           kept == {n \in 1..M.cols : \E r \in 1..M.rows : read(n)[r] # 0}
           K == Cardinality(kept)
<1>1. M.vec[1] = a /\ M.vec[2] = 0 /\ M.vec[3] = 0 /\ M.vec[4] = b /\ Len(M.vec) = 4
  OBVIOUS
<1>2. /\ read(1)[1] = a /\ read(1)[2] = 0 /\ read(2)[1] = 0 /\ read(2)[2] = b
  <2>1. /\ (0 * (0 + 1)) \div 2 = 0 /\ (1 * (1 + 1)) \div 2 = 1
        /\ 1 - 1 = 0 /\ 2 - 1 = 1 /\ 1 \in 1..2 /\ 2 \in 1..2
    OBVIOUS
  <2>2. read(1) = [r \in 1..2 |-> M.vec[(r - 1) * 2 + 0 + 1]]
    BY <2>1 DEF ColumnRead
  <2>3. read(2) = [r \in 1..2 |-> M.vec[(r - 1) * 2 + 1 + 1]]
    BY <2>1 DEF ColumnRead
  <2>4. /\ (1 - 1) * 2 + 0 + 1 = 1 /\ (2 - 1) * 2 + 0 + 1 = 3
        /\ (1 - 1) * 2 + 1 + 1 = 2 /\ (2 - 1) * 2 + 1 + 1 = 4
    OBVIOUS
  <2> HIDE DEF read
  <2>5. read(1)[1] = M.vec[1] /\ read(1)[2] = M.vec[3]
    BY <2>1, <2>2, <2>4
  <2>6. read(2)[1] = M.vec[2] /\ read(2)[2] = M.vec[4]
    BY <2>1, <2>3, <2>4
  <2> QED BY <1>1, <2>5, <2>6
<1>3. kept = {1, 2}
  <2> HIDE DEF read
  <2>1. 1 \in 1..M.cols /\ 2 \in 1..M.cols /\ 1 \in 1..M.rows /\ 2 \in 1..M.rows
        /\ \A n \in 1..M.cols : n = 1 \/ n = 2
    OBVIOUS
  <2>2. 1 \in kept /\ 2 \in kept
    BY <1>2, <2>1
  <2> QED BY <2>1, <2>2
<1>4. K = 2
  <2>1. Cardinality({1}) = 1 /\ IsFiniteSet({1})
    BY FS_Singleton
  <2>2. Cardinality({1} \cup {2}) = Cardinality({1}) + 1
    <3>1. 2 \notin {1}
      OBVIOUS
    <3> QED BY <2>1, <3>1, FS_AddElement
  <2>3. {1, 2} = {1} \cup {2}
    OBVIOUS
  <2> HIDE DEF kept
  <2> QED BY <1>3, <2>1, <2>2, <2>3
<1>5. Nth(kept, 1) = 1 /\ Nth(kept, 2) = 2
  <2>1. {k \in kept : k <= 1} = {1} /\ {k \in kept : k <= 2} = kept
    BY <1>3
  <2>2. Cardinality({1}) = 1
    BY FS_Singleton
  <2> HIDE DEF kept
  <2>3. Nth(kept, 1) = CHOOSE m \in kept : Cardinality({k \in kept : k <= m}) = 1
    BY DEF Nth
  <2>4. \A m \in kept : Cardinality({k \in kept : k <= m}) = 1 <=> m = 1
    BY <1>3, <1>4, <2>1, <2>2
  <2>5. \A m \in kept : Cardinality({k \in kept : k <= m}) = 2 <=> m = 2
    BY <1>3, <1>4, <2>1, <2>2
  <2>6. 1 \in kept /\ 2 \in kept
    BY <1>3
  <2> QED BY <2>4, <2>5, <2>6 DEF Nth
<1> DEFINE row(r) == [n \in 1..Cardinality(kept) |-> read(Nth(kept, n))[r]]
           new == FlattenSeq([r \in 1..M.rows |-> row(r)])
<1>6. row(1) = <<a, 0>> /\ row(2) = <<0, b>>
  <2> HIDE DEF read, kept
  <2>1. \A n \in 1..Cardinality(kept) : n = 1 \/ n = 2
    BY <1>4
  <2>2. Cardinality(kept) = 2
    BY <1>4
  <2>3. \A r : row(r) = [n \in 1..2 |-> read(Nth(kept, n))[r]]
    BY <2>2
  <2> DEFINE q(r, n) == read(Nth(kept, n))[r]
  <2>4. q(1, 1) = a /\ q(1, 2) = 0 /\ q(2, 1) = 0 /\ q(2, 2) = b
    BY <1>2, <1>5
  <2>5. \A r : row(r) = [n \in 1..2 |-> q(r, n)]
    BY <2>3
  <2> HIDE DEF q, row
  <2>6. \A r : row(r) = <<q(r, 1), q(r, 2)>>
    BY <2>5
  <2> QED BY <2>4, <2>6
<1> HIDE DEF row
<1>7. new = <<a, 0, 0, b>>
  <2> DEFINE ss == [r \in 1..M.rows |-> row(r)]
  <2>1. ss = << <<a, 0>>, <<0, b>> >>
    BY <1>6
  <2> HIDE DEF ss
  <2>2. FlattenSeq(ss) = <<a, 0, 0, b>>
    BY <2>1, FlattenedSquare
  <2> QED BY <2>2 DEF ss
<1>8. ap.rows = 2 /\ ap.cols = 2 /\ ap.vec = <<a, 0, 0, b>>
  <2> DEFINE tail == SubSeq(M.vec, Len(new) + 1, Len(M.vec))
             cols == IF M.rows = 2 THEN Cardinality(kept) ELSE M.cols
  <2>1. ap = [rows |-> M.rows, cols |-> cols, vec |-> new \o tail]
    BY DEF pruneIncrementVector, row
  <2>2. cols = 2
    BY <1>4
  <2> HIDE DEF new
  <2>3. tail = << >>
    BY <1>1, <1>7
  <2> HIDE DEF tail, cols, ap
  <2>4. ap.rows = 2 /\ ap.cols = cols /\ ap.vec = new \o tail
    BY <2>1
  <2>5. <<a, 0, 0, b>> \o << >> = <<a, 0, 0, b>>
    OBVIOUS
  <2> QED BY <1>7, <2>2, <2>3, <2>4, <2>5
<1> HIDE DEF ap
<1> DEFINE Tried == {t \in (0..(ap.rows * ap.cols - 1)) \X DOMAIN Shapes :
                       Fits(ap, heap, Shapes[t[2]], t[1])}
           First == CHOOSE t \in Tried : \A u \in Tried :
                      t[1] < u[1] \/ (t[1] = u[1] /\ t[2] <= u[2])
<1>9. /\ DOMAIN Shapes = 1..8
      /\ \A n \in 1..8 : Shapes[n].cols = 2 => n \in {7, 8}
      /\ Shapes[7].cols = 2 /\ Shapes[7].others = {<<1, 1>>} /\ Shapes[7].type = "rowMajor"
  BY DEF Shapes
<1>10. Fits(ap, heap, Shapes[7], 0)
  <2>1. Element(ap, heap, 0, 0) = a
    <3>1. 0 * ap.cols + 0 = 0 /\ 0 < Len(ap.vec) /\ ap.vec[0 + 1] = a
      BY <1>8
    <3> QED BY <3>1 DEF Element
  <2>2. Element(ap, heap, 1, 1) = b
    <3>1. 1 * ap.cols + 1 = 3 /\ 3 < Len(ap.vec) /\ ap.vec[3 + 1] = b
      BY <1>8
    <3> QED BY <3>1 DEF Element
  <2>3. 0 \div ap.cols = 0 /\ 0 % ap.cols = 0
    BY <1>8
  <2>4. \A d \in Shapes[7].others : 0 + d[1] = 1 /\ 0 + d[2] = 1
    BY <1>9
  <2> QED BY <1>8, <1>9, <2>1, <2>2, <2>3, <2>4 DEF Fits
<1>11. \A t \in Tried : t[1] \in 0..3 /\ t[2] \in {7, 8}
  <2> TAKE t \in Tried
  <2>1. ap.rows * ap.cols - 1 = 3
    BY <1>8
  <2>2. t[1] \in 0..3 /\ t[2] \in 1..8
    BY <1>9, <2>1
  <2>3. Shapes[t[2]].cols = 2
    BY <1>8 DEF Fits
  <2> QED BY <1>9, <2>2, <2>3
<1>12. <<0, 7>> \in Tried
  <2>1. 0 \in 0..(ap.rows * ap.cols - 1) /\ 7 \in DOMAIN Shapes
    BY <1>8, <1>9
  <2> QED BY <1>10, <2>1
<1>13. First[2] = 7
  <2> HIDE DEF Tried
  <2>1. \A u \in Tried : 0 < u[1] \/ (0 = u[1] /\ 7 <= u[2])
    BY <1>11
  <2>2. \E t \in Tried : \A u \in Tried : t[1] < u[1] \/ (t[1] = u[1] /\ t[2] <= u[2])
    <3> DEFINE t == <<0, 7>>
    <3>1. t \in Tried /\ t[1] = 0 /\ t[2] = 7
      BY <1>12
    <3> QED BY <2>1, <3>1
  <2>3. First \in Tried /\ \A u \in Tried :
          First[1] < u[1] \/ (First[1] = u[1] /\ First[2] <= u[2])
    BY <2>2
  <2> HIDE DEF First
  <2>4. First[1] < 0 \/ (First[1] = 0 /\ First[2] <= 7)
    <3> DEFINE u == <<0, 7>>
    <3>1. u \in Tried /\ u[1] = 0 /\ u[2] = 7
      BY <1>12
    <3> HIDE DEF u
    <3>2. First[1] < u[1] \/ (First[1] = u[1] /\ First[2] <= u[2])
      BY <2>3, <3>1
    <3> QED BY <3>1, <3>2
  <2>5. First[1] \in 0..3 /\ First[2] \in {7, 8}
    BY <1>11, <2>3
  <2> QED BY <2>4, <2>5
<1>14. Tried # {}
  BY <1>12
<1>15. detectAccessPatternType(M, heap) = Shapes[First[2]].type
  <2>1. ap.rows # 1
    BY <1>8
  <2> HIDE DEF First
  <2> USE DEF ap
  <2> QED BY <1>14, <2>1 DEF detectAccessPatternType, First
<1> HIDE DEF First
<1> QED BY <1>9, <1>13, <1>15

(* The matrix that setPointerInfo makes of an access.                      *)
Entry(nest, m) == prog.loops[nest[m]].inc

LEMMA EntriesOfIndex ==
  ASSUME NEW nest, IsNest(nest), NestRead(nest), NEW m \in DOMAIN nest,
         NEW x, x.iterators = <<IteratorOf(nest[m])>>,
         NEW loops, loops = [k \in 1..Len(nest) |-> IteratorOf(nest[k])]
  PROVE  /\ DOMAIN loops = 1..Len(nest) /\ Len(loops) = Len(nest)
         /\ \A c \in 1..Len(nest) :
              (IF loops[c] \in Range(x.iterators) THEN loopInfoMap[loops[c]].inc ELSE 0)
                = (IF c = m THEN Entry(nest, m) ELSE 0)
<1>1. DOMAIN loops = 1..Len(nest) /\ Len(loops) = Len(nest)
  BY DEF IsNest
<1>2. Range(x.iterators) = {IteratorOf(nest[m])}
  <2> DEFINE v == IteratorOf(nest[m])
  <2> HIDE DEF v
  <2>1. DOMAIN <<v>> = {1} /\ <<v>>[1] = v
    OBVIOUS
  <2>2. Range(<<v>>) = {v}
    BY <2>1 DEF Range
  <2> QED BY <2>2 DEF v
<1>3. ASSUME NEW c \in 1..Len(nest)
      PROVE  (IF loops[c] \in Range(x.iterators) THEN loopInfoMap[loops[c]].inc ELSE 0)
               = (IF c = m THEN Entry(nest, m) ELSE 0)
  <2>1. loops[c] = IteratorOf(nest[c]) /\ c \in DOMAIN nest
    BY DEF IsNest
  <2>2. loops[c] \in Range(x.iterators) <=> c = m
    BY <1>2, <2>1 DEF IsNest
  <2>3. loopInfoMap[loops[c]].inc = Entry(nest, c)
    BY <2>1 DEF NestRead, Entry
  <2> QED BY <2>2, <2>3
<1> QED BY <1>1, <1>3

LEMMA MatrixOfVector ==
  ASSUME NEW nest, IsNest(nest), NestRead(nest), NEW m \in DOMAIN nest,
         NEW x, x.iterators = <<IteratorOf(nest[m])>>,
         NEW loops, loops = [k \in 1..Len(nest) |-> IteratorOf(nest[k])]
  PROVE  IsRowMatrix(IncrementMatrix(<<x>>, loops), Len(nest), m, Entry(nest, m))
<1> DEFINE row(i) == [c \in DOMAIN loops |->
              IF loops[c] \in Range(i.iterators) THEN loopInfoMap[loops[c]].inc ELSE 0]
           s == <<x>>
           M == IncrementMatrix(s, loops)
<1>1. M = [rows |-> Len(s), cols |-> Len(loops),
           vec |-> FlattenSeq([r \in DOMAIN s |-> row(s[r])])]
  BY DEF IncrementMatrix
<1>2. DOMAIN loops = 1..Len(nest) /\ Len(loops) = Len(nest)
  BY EntriesOfIndex
<1>3. row(x) = [c \in 1..Len(nest) |-> IF c = m THEN Entry(nest, m) ELSE 0]
  BY <1>2, EntriesOfIndex
<1> HIDE DEF row, M
<1>4. [r \in DOMAIN s |-> row(s[r])] = <<row(x)>>
  <2>1. DOMAIN s = 1..1 /\ \A r \in 1..1 : s[r] = x
    OBVIOUS
  <2> HIDE DEF s
  <2> QED BY <2>1
<1>5. M.rows = 1 /\ M.cols = Len(nest) /\ M.vec = row(x)
  <2>1. Len(s) = 1
    OBVIOUS
  <2> HIDE DEF s
  <2> QED BY <1>1, <1>2, <1>4, <2>1, FlattenedOne
<1> QED BY <1>3, <1>5 DEF IsRowMatrix, M

IsSquareMatrix(M, nest, m, n) ==
  /\ M.rows = 2 /\ M.cols = 2
  /\ m = 1 /\ n = 2 => M.vec = <<Entry(nest, 1), 0, 0, Entry(nest, 2)>>
  /\ m = 2 /\ n = 1 => M.vec = <<0, Entry(nest, 2), Entry(nest, 1), 0>>

LEMMA MatrixOfSquare ==
  ASSUME NEW nest, IsNest(nest), NestRead(nest), Len(nest) = 2,
         NEW m \in 1..2, NEW n \in 1..2,
         NEW x, x.iterators = <<IteratorOf(nest[m])>>,
         NEW y, y.iterators = <<IteratorOf(nest[n])>>,
         NEW loops, loops = [k \in 1..Len(nest) |-> IteratorOf(nest[k])]
  PROVE  IsSquareMatrix(IncrementMatrix(<<x, y>>, loops), nest, m, n)
<1> DEFINE row(i) == [c \in DOMAIN loops |->
              IF loops[c] \in Range(i.iterators) THEN loopInfoMap[loops[c]].inc ELSE 0]
           s == <<x, y>>
           M == IncrementMatrix(s, loops)
<1>1. M = [rows |-> Len(s), cols |-> Len(loops),
           vec |-> FlattenSeq([r \in DOMAIN s |-> row(s[r])])]
  BY DEF IncrementMatrix
<1>2. DOMAIN loops = 1..2 /\ Len(loops) = 2 /\ DOMAIN nest = 1..2
  <2>1. DOMAIN nest = 1..2
    BY DEF IsNest
  <2> QED BY <2>1, EntriesOfIndex
<1> DEFINE e(k, c) == IF c = k THEN Entry(nest, k) ELSE 0
<1>3. row(x) = [c \in 1..2 |-> e(m, c)] /\ row(y) = [c \in 1..2 |-> e(n, c)]
  BY <1>2, EntriesOfIndex
<1> HIDE DEF row, M
<1>4. [r \in DOMAIN s |-> row(s[r])] = <<row(x), row(y)>>
  <2>1. DOMAIN s = 1..2 /\ s[1] = x /\ s[2] = y
    OBVIOUS
  <2>2. \A r \in 1..2 : r = 1 \/ r = 2
    OBVIOUS
  <2> HIDE DEF s
  <2> QED BY <2>1, <2>2
<1>5. row(x) = <<e(m, 1), e(m, 2)>> /\ row(y) = <<e(n, 1), e(n, 2)>>
  <2> HIDE DEF e
  <2> QED BY <1>3
<1>6. M.rows = 2 /\ M.cols = 2 /\ M.vec = <<e(m, 1), e(m, 2), e(n, 1), e(n, 2)>>
  <2>1. Len(s) = 2
    OBVIOUS
  <2>2. FlattenSeq(<<row(x), row(y)>>) = <<e(m, 1), e(m, 2), e(n, 1), e(n, 2)>>
    <3> HIDE DEF e
    <3> QED BY <1>5, FlattenedSquare
  <2> HIDE DEF s, e
  <2> QED BY <1>1, <1>2, <1>4, <2>1, <2>2
<1>7. m = 1 /\ n = 2 => M.vec = <<Entry(nest, 1), 0, 0, Entry(nest, 2)>>
  BY <1>6
<1>8. m = 2 /\ n = 1 => M.vec = <<0, Entry(nest, 2), Entry(nest, 1), 0>>
  BY <1>6
<1> QED BY <1>6, <1>7, <1>8 DEF M, IsSquareMatrix

(* The number of a loop's iteration, from that of the execution: the rest  *)
(* of the loops outside first, or the loops inside first.                  *)
LEMMA RestOfQuotient ==
  ASSUME NEW g \in Nat, NEW T \in Nat \ {0}, NEW E \in Nat \ {0}
  PROVE  /\ T * E \in Nat \ {0}
         /\ (g % (T * E)) \div E = (g \div E) % T
         /\ (g \div E) % T \in 0..(T - 1)
<1> DEFINE w == T * E
           q == g \div w
           r == g % w
           a == r \div E
           b == r % E
<1>1. w \in Nat \ {0}
  OBVIOUS
<1>2. w = T * E
  OBVIOUS
<1> HIDE DEF w
<1>3. q \in Nat /\ r \in 0..(w - 1) /\ g = q * w + r
  BY <1>1, Rest
<1> HIDE DEF q, r
<1>4. a \in Nat /\ b \in 0..(E - 1) /\ r = a * E + b
  <2>1. r \in Nat
    BY <1>1, <1>3
  <2> QED BY <2>1, Rest
<1> HIDE DEF a, b
<1>5. a < T
  <2> SUFFICES ASSUME T <= a
               PROVE  FALSE
    BY <1>4
  <2>1. T * E <= a * E
    BY <1>4, ProductsGrow
  <2>2. a * E \in Nat
    BY <1>4
  <2> QED BY <1>1, <1>2, <1>3, <1>4, <2>1, <2>2
<1> DEFINE h == q * T + a
<1>6. h \in Nat /\ g = h * E + b
  <2>1. q * T \in Nat
    BY <1>3
  <2>2. h \in Nat
    BY <1>4, <2>1
  <2>3. h * E = (q * T) * E + a * E
    BY <1>4, <2>1
  <2>4. (q * T) * E = q * w
    BY <1>2, <1>3
  <2>5. q * w \in Nat /\ a * E \in Nat
    BY <1>1, <1>3, <1>4
  <2> QED BY <1>3, <1>4, <2>2, <2>3, <2>4, <2>5
<1>7. h % T = a
  <2>1. q \in Nat /\ a \in 0..(T - 1)
    BY <1>3, <1>4, <1>5
  <2> QED BY <2>1, Digits, Zenon
<1> HIDE DEF h
<1>8. g \div E = h
  BY <1>4, <1>6, Digits
<1>9. (g % w) \div E = a
  BY DEF r, a
<1> QED BY <1>1, <1>4, <1>5, <1>7, <1>8, <1>9 DEF w

(* The m-th of a list of factors, and those before and after it.           *)
LEMMA ProductAround ==
  ASSUME NEW s \in Seq(Nat \ {0}), NEW m \in 1..Len(s)
  PROVE  LET R == Product(SubSeq(s, 1, m - 1))
             E == Product(SubSeq(s, m + 1, Len(s)))
         IN /\ R \in Nat \ {0} /\ E \in Nat \ {0} /\ s[m] \in Nat \ {0}
            /\ Product(s) = R * (s[m] * E)
<1> DEFINE D == Len(s)
           u == SubSeq(s, 1, m - 1)
           v == SubSeq(s, 1, m)
           t == SubSeq(s, m + 1, D)
           one == <<s[m]>>
           R == Product(u)
           E == Product(t)
           P == Nat \ {0}
<1>1. D \in Nat /\ \A k \in 1..D : s[k] \in P
  OBVIOUS
<1>2. u \in Seq(P) /\ Len(u) = m - 1 /\ \A k \in 1..(m - 1) : u[k] = s[k]
  OBVIOUS
<1>3. v \in Seq(P) /\ Len(v) = m /\ \A k \in 1..m : v[k] = s[k]
  OBVIOUS
<1>4. t \in Seq(P) /\ Len(t) = D - m /\ \A k \in 1..(D - m) : t[k] = s[m + k]
  OBVIOUS
<1>5. one \in Seq(P) /\ Len(one) = 1 /\ one[1] = s[m]
  BY <1>1
<1>6. P \subseteq Nat
  OBVIOUS
<1> HIDE DEF P
<1>7. s \in Seq(Nat) /\ u \in Seq(Nat) /\ v \in Seq(Nat) /\ t \in Seq(Nat) /\ one \in Seq(Nat)
  <2>1. s \in Seq(P)
    BY DEF P
  <2> HIDE DEF u, v, t, one
  <2> QED BY <1>2, <1>3, <1>4, <1>5, <1>6, <2>1, SeqOfMore
<1> HIDE DEF D, u, v, t, one
<1>8. Product(s) = Product(v) * Product(t)
  <2>1. Len(s) = Len(v) + Len(t) /\ Len(s) = D
    BY <1>1, <1>3, <1>4 DEF D
  <2>2. \A k \in 1..Len(v) : v[k] = s[k]
    BY <1>3, Zenon
  <2>3. \A k \in 1..Len(t) : t[k] = s[Len(v) + k]
    BY <1>3, <1>4
  <2>4. Joins(s, v, t)
    BY <2>1, <2>2, <2>3, Zenon DEF Joins
  <2> QED BY <1>7, <2>4, ProductSplit, Zenon
<1>9. Product(v) = Product(u) * Product(one)
  <2>1. Len(v) = Len(u) + Len(one)
    BY <1>2, <1>3, <1>5
  <2>2. \A k \in 1..Len(u) : u[k] = v[k]
    <3>1. \A k \in 1..(m - 1) : k \in 1..m
      OBVIOUS
    <3>2. \A k \in 1..(m - 1) : u[k] = s[k] /\ v[k] = s[k]
      BY <1>2, <1>3, <3>1, Zenon
    <3> QED BY <1>2, <3>2, Zenon
  <2>3. \A k \in 1..Len(one) : one[k] = v[Len(u) + k]
    BY <1>2, <1>3, <1>5
  <2>4. Joins(v, u, one)
    BY <2>1, <2>2, <2>3, Zenon DEF Joins
  <2> QED BY <1>7, <2>4, ProductSplit, Zenon
<1>10. Product(one) = s[m]
  BY <1>5, <1>7, ProductShort
<1>11. R \in P /\ E \in P /\ s[m] \in P
  <2>1. m \in 1..D
    BY DEF D
  <2> QED BY <1>1, <1>2, <1>4, <2>1, ProductPositive DEF P
<1> HIDE DEF R, E
<1>12. Product(s) = (R * s[m]) * E
  BY <1>8, <1>9, <1>10 DEF R, E
<1>13. (R * s[m]) * E = R * (s[m] * E)
  BY <1>11 DEF P
<1> QED BY <1>11, <1>12, <1>13 DEF R, E, P, u, t, D

(* The reference: the value of an iterator of the nest, and of an index    *)
(* that has no other.                                                      *)
Trips(nest) == [k \in 1..Len(nest) |-> TripCount(nest[k])]
Inner(nest, m) == Product(SubSeq(Trips(nest), m + 1, Len(nest)))

LEMMA TripsOfNest ==
  ASSUME NEW nest, IsNest(nest), NestRead(nest)
  PROVE  /\ Trips(nest) \in Seq(Nat \ {0}) /\ Len(Trips(nest)) = Len(nest)
         /\ \A m \in 1..Len(nest) : Trips(nest)[m] = TripCount(nest[m])
<1> DEFINE D == Len(nest)
           P == Nat \ {0}
<1>1. D \in Nat /\ DOMAIN nest = 1..D
  BY DEF IsNest
<1>2. \A k \in 1..D : TripCount(nest[k]) \in P
  <2>1. \A k \in 1..D : TripCount(nest[k]) \in 1..MaxTrips
    BY <1>1 DEF NestRead
  <2> QED BY <2>1, MaxTripsAssumption
<1> HIDE DEF D, P
<1>3. Trips(nest) = [k \in 1..D |-> TripCount(nest[k])]
  BY DEF Trips, D
<1>4. Trips(nest) \in [1..D -> P]
  BY <1>2, <1>3
<1> QED BY <1>1, <1>3, <1>4 DEF D, P

LEMMA ExecutionsOfNest ==
  ASSUME NEW p, IsNest(Nest(p)), NestRead(Nest(p))
  PROVE  Executions(p) = Product(Trips(Nest(p)))
<1>1. DOMAIN Nest(p) = 1..Len(Nest(p))
  BY DEF IsNest
<1> QED BY <1>1 DEF Executions, Trips

LEMMA ValueOfLoop ==
  ASSUME NEW p, IsNest(Nest(p)), NestRead(Nest(p)), NEW m \in DOMAIN Nest(p), NEW t
  PROVE  ValueAt(p, t, IteratorOf(Nest(p)[m])) =
           IteratorValue(Nest(p)[m], (t \div Inner(Nest(p), m)) % TripCount(Nest(p)[m]))
<1> DEFINE nest == Nest(p)
           D == Len(nest)
           v == IteratorOf(nest[m])
           k == CHOOSE k \in DOMAIN nest : IteratorOf(nest[k]) = v
           rest(n) == [i \in 1..(D - n) |-> TripCount(nest[n + i])]
<1>1. k = m
  <2> HIDE DEF nest
  <2> QED BY DEF IsNest, nest
<1>2. rest(m) = SubSeq(Trips(nest), m + 1, D)
  <2> HIDE DEF nest
  <2>1. /\ Trips(nest) \in Seq(Nat \ {0}) /\ Len(Trips(nest)) = D /\ D \in Nat
        /\ \A i \in 1..D : Trips(nest)[i] = TripCount(nest[i])
    BY TripsOfNest DEF IsNest, nest
  <2>2. m \in 1..D
    BY DEF IsNest, nest
  <2> HIDE DEF D
  <2> DEFINE s == Trips(nest)
             sub == SubSeq(s, m + 1, D)
  <2>3. sub = [i \in 1..(D - m) |-> s[m + i]]
    <3> HIDE DEF s
    <3>1. s \in Seq(Nat \ {0}) /\ Len(s) = D
      BY <2>1 DEF s
    <3>2. sub = [i \in 1..(D - (m + 1) + 1) |-> s[(m + 1) + i - 1]]
      BY <2>1, <2>2, <3>1
    <3>3. D - (m + 1) + 1 = D - m /\ \A i \in 1..(D - m) : (m + 1) + i - 1 = m + i
      BY <2>1, <2>2
    <3> HIDE DEF sub
    <3> QED BY <3>2, <3>3
  <2>4. \A i \in 1..(D - m) : m + i \in 1..D
    BY <2>1, <2>2
  <2> HIDE DEF sub
  <2> QED BY <2>1, <2>3, <2>4 DEF sub
<1>3. ValueAt(p, t, v) = IteratorValue(nest[k], (t \div Product(rest(k))) % TripCount(nest[k]))
  BY DEF ValueAt
<1> HIDE DEF k, rest, nest, v
<1>4. Product(rest(m)) = Inner(nest, m)
  BY <1>2 DEF Inner
<1>5. ValueAt(p, t, v) = IteratorValue(nest[m], (t \div Inner(nest, m)) % TripCount(nest[m]))
  BY <1>1, <1>3, <1>4
<1> QED BY <1>5 DEF nest, v

LEMMA IndexOfOne ==
  ASSUME NEW p, NEW t, NEW idx, NEW v, idx.iterators = <<v>>
  PROVE  IndexAt(p, t, idx) = idx.constant + ValueAt(p, t, v)
<1> DEFINE c == idx.constant
           its == idx.iterators
           V == ValueAt(p, t, v)
           IsSum(f) == f = [n \in 0..1 |-> IF n = 0 THEN c ELSE f[n - 1] + ValueAt(p, t, its[n])]
           sum == CHOOSE f : IsSum(f)
<1>1. Len(its) = 1 /\ its[1] = v
  OBVIOUS
<1>2. IndexAt(p, t, idx) = sum[1]
  BY <1>1 DEF IndexAt
<1>3. \E f : IsSum(f)
  <2> DEFINE f == [n \in 0..1 |-> IF n = 0 THEN c ELSE c + V]
             body(n) == IF n = 0 THEN c ELSE f[n - 1] + ValueAt(p, t, its[n])
  <2>1. DOMAIN f = 0..1 /\ f = [n \in 0..1 |-> f[n]] /\ f[0] = c /\ f[1] = c + V
    OBVIOUS
  <2> HIDE DEF f
  <2>2. body(0) = c /\ body(1) = c + V
    <3>1. 1 # 0 /\ 1 - 1 = 0
      OBVIOUS
    <3> QED BY <1>1, <2>1, <3>1
  <2>3. \A n \in 0..1 : n = 0 \/ n = 1
    OBVIOUS
  <2>4. \A n \in 0..1 : f[n] = body(n)
    <3> HIDE DEF body
    <3> QED BY <2>1, <2>2, <2>3
  <2>5. f = [n \in 0..1 |-> body(n)]
    <3> HIDE DEF body
    <3> QED BY <2>1, <2>4
  <2>6. IsSum(f)
    BY <2>5
  <2> QED BY <2>6
<1>4. IsSum(sum)
  BY <1>3
<1> HIDE DEF sum, its
<1>5. sum[0] = c /\ sum[1] = sum[0] + ValueAt(p, t, its[1])
  <2>1. 0 \in 0..1 /\ 1 \in 0..1 /\ 1 # 0 /\ 1 - 1 = 0
    OBVIOUS
  <2> QED BY <1>4, <2>1
<1> QED BY <1>1, <1>2, <1>5

(* The elements of a plain axis, and the rows of an array, which are       *)
(* numbered in their order.                                                *)
LEMMA ValuesOfAxis ==
  ASSUME NEW l, NEW c \in Int, l.init \in Int, l.inc \in Nat \ {0}, l.iterations \in Nat \ {0}
  PROVE  LET axis == Single(l, c)
         IN Values(Bounds(axis.offset, axis.stop + 1, axis.spacing)) =
              [n \in 1..l.iterations |-> (l.init + c) + (n - 1) * l.inc]
<1> DEFINE a == l.init + c
           e == l.inc
           T == l.iterations
           axis == Single(l, c)
<1>1. axis.offset = a /\ axis.spacing = e /\ axis.stop = a + e * (T - 1)
  BY DEF Single, Axis
<1>2. a \in Int /\ e \in Nat \ {0} /\ T \in Nat \ {0}
  OBVIOUS
<1> HIDE DEF a, e, T, axis
<1>3. Values(Bounds(a, (a + e * (T - 1)) + 1, e)) = [n \in 1..T |-> a + (n - 1) * e]
  BY <1>2, ValuesOfLoop
<1>4. Values(Bounds(axis.offset, axis.stop + 1, axis.spacing)) = [n \in 1..T |-> a + (n - 1) * e]
  BY <1>1, <1>3
<1> QED BY <1>4 DEF a, e, T, axis

LEMMA ElementOfRows ==
  ASSUME NEW K \in Nat, NEW n \in 0..(K - 1)
  PROVE  ElementAt([e \in 1..K |-> e - 1], n) = n
<1> DEFINE list == [e \in 1..K |-> e - 1]
<1>1. Len(list) = K
  OBVIOUS
<1>2. n % (K + 1) = n
  <2>1. /\ K + 1 \in Nat \ {0} /\ n \in 0..((K + 1) - 1) /\ 0 \in Nat /\ 0 * (K + 1) + n = n
    OBVIOUS
  <2>2. (0 * (K + 1) + n) % (K + 1) = n
    BY <2>1, Digits
  <2> QED BY <2>1, <2>2
<1>3. n + 1 \in 1..K /\ (n + 1) - 1 = n
  OBVIOUS
<1>4. list[n + 1] = n
  BY <1>3
<1> HIDE DEF list
<1>5. ElementAt(list, n) = list[n + 1]
  <2>1. n < Len(list)
    BY <1>1
  <2>2. n % (Len(list) + 1) = n
    BY <1>1, <1>2, Zenon
  <2> QED BY <2>1, <2>2, Zenon DEF ElementAt
<1> QED BY <1>4, <1>5 DEF list

(* What is known of a simple access at the end.                            *)
AccessOK(p) ==
  LET info == pointerInfoMap[p]
      acc == prog.access[p]
      dims == prog.dims[acc.array]
      s == info.indexes
      nest == Nest(p)
  IN /\ IsNest(nest) /\ NestRead(nest)
     /\ getIterationVector(info.loopIterator) = [k \in 1..Len(nest) |-> IteratorOf(nest[k])]
     /\ dims \in Seq(Nat \ {0}) /\ Len(dims) \in {1, 2} /\ Len(acc.indexes) = Len(dims)
     /\ info.arrayRows = Dimensions(dims)[1] /\ info.arrayCols = Dimensions(dims)[2]
     /\ DOMAIN s = 1..Len(dims) /\ Len(s) = Len(dims)
     /\ DOMAIN acc.indexes = 1..Len(dims)
     /\ \A n \in 1..Len(dims) :
          /\ s[n].iterators = <<Iterator(p, n)>> /\ acc.indexes[n].iterators = <<Iterator(p, n)>>
          /\ s[n].constant = acc.indexes[n].constant /\ s[n].constant \in Int
          /\ \E m \in DOMAIN nest : IteratorOf(nest[m]) = Iterator(p, n)

LEMMA SimpleAccess ==
  ASSUME AccessInv, GeometriesHeld, LoopsRecorded, Parsed, NEW p \in DOMAIN pointerInfoMap,
         Simple(p)
  PROVE  AccessOK(p)
<1> DEFINE info == pointerInfoMap[p]
           acc == prog.access[p]
           dims == prog.dims[acc.array]
           s == info.indexes
           nest == Nest(p)
<1>1. Plain /\ Handled(p)
  BY DEF Simple, Plain
<1>2. /\ LoopInv /\ TypeInv /\ prog \in Programs /\ PointersHeld /\ p \in DOMAIN prog.access
  BY <1>1 DEF AccessInv, LoopInv, TypeInv, PointersOK
<1>3. RecordHeld(p)
  BY <1>1, <1>2 DEF PointersHeld
<1>4. /\ acc.loop \in Loops /\ info.loopIterator = IteratorOf(acc.loop)
      /\ Len(dims) = Len(acc.indexes) /\ Len(s) = Len(acc.indexes)
      /\ info.arrayRows = Dimensions(dims)[1] /\ info.arrayCols = Dimensions(dims)[2]
      /\ \A n \in DOMAIN acc.indexes : Index(s[n].iterators, s[n].constant) = acc.indexes[n]
  BY <1>3 DEF RecordHeld
<1>5. dims \in Seq(Nat \ {0}) /\ Len(dims) \in {1, 2}
  <2>1. \A a \in DOMAIN prog.dims : prog.dims[a] \in Seq(Nat \ {0}) /\ Len(prog.dims[a]) \in {1, 2}
    BY <1>2, AccessesAssumption, Zenon
  <2>2. acc.array \in DOMAIN prog.dims
    BY <1>1 DEF Handled, HandledIn
  <2> QED BY <2>1, <2>2, Zenon
<1>6. IsNest(nest)
  BY <1>1, <1>2, <1>4, NestOfAccess
<1>7. /\ NestRead(nest)
      /\ getIterationVector(info.loopIterator) = [k \in 1..Len(nest) |-> IteratorOf(nest[k])]
  <2>1. loop > Len(prog.loops)
    BY DEF GeometriesHeld
  <2>2. \A n \in Range(Nest(p)) : Ascending(n)
    BY DEF Simple
  <2> QED BY <1>1, <1>2, <1>4, <2>1, <2>2, TablesOfNest
<1>8. /\ DOMAIN acc.indexes = 1..Len(dims) /\ DOMAIN s = 1..Len(dims)
  <2>1. DOMAIN acc.indexes = 1..Len(acc.indexes)
    BY <1>2, IndexesOfAccess
  <2>2. OneOrTwo(s)
    BY DEF GeometriesHeld, GeometryHeld
  <2>3. DOMAIN s = 1..Len(s)
    BY <2>2 DEF OneOrTwo
  <2> QED BY <1>4, <2>1, <2>3
<1>9. ASSUME NEW n \in 1..Len(dims)
      PROVE  /\ s[n].iterators = <<Iterator(p, n)>> /\ acc.indexes[n].iterators = <<Iterator(p, n)>>
             /\ s[n].constant = acc.indexes[n].constant /\ s[n].constant \in Int
             /\ \E m \in DOMAIN nest : IteratorOf(nest[m]) = Iterator(p, n)
  <2> DEFINE x == acc.indexes[n]
             its == x.iterators
  <2>1. n \in DOMAIN acc.indexes
    BY <1>8
  <2>2. x.iterators = s[n].iterators /\ x.constant = s[n].constant
    <3>1. Index(s[n].iterators, s[n].constant) = x
      BY <1>4, <2>1
    <3> HIDE DEF s, x, acc
    <3> QED BY <3>1 DEF Index
  <2>3. its \in Seq(Nat) /\ x.constant \in Int
    BY <1>2, <2>1, IndexesOfAccess
  <2>4. Len(its) = 1 /\ \E k \in Loops : k \in Range(nest) /\ IteratorOf(k) = its[1]
    <3>1. x \in Range(acc.indexes)
      BY <2>1 DEF Range
    <3> HIDE DEF x
    <3> QED BY <3>1 DEF Simple, x
  <2>5. its = <<its[1]>>
    <3> HIDE DEF its
    <3> QED BY <2>3, <2>4
  <2>6. Iterator(p, n) = its[1]
    BY DEF Iterator
  <2>7. \E m \in DOMAIN nest : IteratorOf(nest[m]) = its[1]
    BY <2>4 DEF Range
  <2> QED BY <2>2, <2>3, <2>5, <2>6, <2>7
<1> HIDE DEF info, acc, dims, s, nest
<1>10. /\ IsNest(nest) /\ NestRead(nest)
       /\ getIterationVector(info.loopIterator) = [k \in 1..Len(nest) |-> IteratorOf(nest[k])]
       /\ dims \in Seq(Nat \ {0}) /\ Len(dims) \in {1, 2} /\ Len(acc.indexes) = Len(dims)
       /\ info.arrayRows = Dimensions(dims)[1] /\ info.arrayCols = Dimensions(dims)[2]
       /\ DOMAIN s = 1..Len(dims) /\ Len(s) = Len(dims)
       /\ DOMAIN acc.indexes = 1..Len(dims)
  BY <1>4, <1>5, <1>6, <1>7, <1>8
<1> USE DEF info, acc, dims, s, nest
<1> QED BY <1>9, <1>10 DEF AccessOK

(* An index of a simple access, and its loop in the tables.                *)
IndexKnown(p, n, m) ==
  LET s == pointerInfoMap[p].indexes
      l == loopInfoMap[s[n].iterators[1]]
      T == TripCount(Nest(p)[m])
  IN /\ Len(s[n].iterators) = 1 /\ s[n].constant \in Int
     /\ l.init \in Int /\ l.inc \in Nat \ {0} /\ l.iterations = T
     /\ l.inc = Entry(Nest(p), m)
     /\ l.isInit /\ l.isFinal
     /\ T \in Nat \ {0} /\ T = Trips(Nest(p))[m] /\ T \in 1..MaxTrips
     /\ \A t : IndexAt(p, t, prog.access[p].indexes[n]) =
                 s[n].constant + (l.init + ((t \div Inner(Nest(p), m)) % T) * l.inc)

LEMMA IndexOfAccess ==
  ASSUME NEW p, AccessOK(p), NEW n \in 1..Len(prog.dims[prog.access[p].array]),
         NEW m \in DOMAIN Nest(p), IteratorOf(Nest(p)[m]) = Iterator(p, n)
  PROVE  IndexKnown(p, n, m)
<1> DEFINE nest == Nest(p)
           s == pointerInfoMap[p].indexes
           x == s[n]
           v == Iterator(p, n)
           l == loopInfoMap[v]
           k == nest[m]
           T == TripCount(k)
           idx == prog.access[p].indexes[n]
<1>1. /\ IsNest(nest) /\ NestRead(nest) /\ x.iterators = <<v>> /\ idx.iterators = <<v>>
      /\ x.constant = idx.constant /\ x.constant \in Int
  BY DEF AccessOK
<1>2. Len(x.iterators) = 1 /\ x.iterators[1] = v
  <2> HIDE DEF x, v
  <2> QED BY <1>1
<1>3. /\ l.init = prog.loops[k].init /\ l.inc = prog.loops[k].inc /\ l.isInit /\ l.isFinal
      /\ l.iterations = T /\ T \in 1..MaxTrips
      /\ l.init \in Int /\ l.inc \in Nat \ {0}
  BY <1>1 DEF NestRead
<1>4. T \in Nat \ {0} /\ T = Trips(nest)[m]
  <2>1. m \in 1..Len(nest)
    BY <1>1 DEF IsNest
  <2> QED BY <1>1, <1>3, <2>1, TripsOfNest, MaxTripsAssumption
<1>5. ASSUME NEW t
      PROVE  IndexAt(p, t, idx) = x.constant + (l.init + ((t \div Inner(nest, m)) % T) * l.inc)
  <2>1. IndexAt(p, t, idx) = idx.constant + ValueAt(p, t, v)
    <3> HIDE DEF idx, v
    <3> QED BY <1>1, IndexOfOne
  <2>2. ValueAt(p, t, v) = IteratorValue(k, (t \div Inner(nest, m)) % T)
    BY <1>1, ValueOfLoop
  <2> HIDE DEF idx, v, x, l, k, T, nest
  <2> QED BY <1>1, <1>3, <2>1, <2>2 DEF IteratorValue
<1>6. l.inc = Entry(nest, m)
  BY <1>3 DEF Entry
<1> HIDE DEF T, l, k, idx, v
<1>7. l = loopInfoMap[x.iterators[1]]
  BY <1>2 DEF l
<1> QED BY <1>1, <1>2, <1>3, <1>4, <1>5, <1>6, <1>7 DEF IndexKnown, T, k, idx

(* A vector: the position of each iteration is that of the element read,   *)
(* and the list is repeated as the executions are.                         *)
LEMMA VectorExact ==
  ASSUME NEW p, AccessOK(p), GeometryHeld(p), InBounds(p),
         Len(prog.dims[prog.access[p].array]) = 1,
         \A k \in DOMAIN Nest(p) : IteratorOf(Nest(p)[k]) = Iterator(p, 1) => k # 3
  PROVE  AddressesOf(p) = ElementsRead(p) /\ pointerInfoMap[p].initZeros # 2
<1> DEFINE info == pointerInfoMap[p]
           s == info.indexes
           x == s[1]
           c == x.constant
           l == loopInfoMap[x.iterators[1]]
           nest == Nest(p)
           D == Len(nest)
           loops == getIterationVector(info.loopIterator)
           its == [n \in DOMAIN loops |-> loopInfoMap[loops[n]].iterations]
           dims == prog.dims[prog.access[p].array]
           K == dims[1]
           idx == prog.access[p].indexes[1]
           list == RowsOf(p)
<1>1. /\ IsNest(nest) /\ NestRead(nest) /\ Len(dims) = 1 /\ dims \in Seq(Nat \ {0})
      /\ loops = [k \in 1..D |-> IteratorOf(nest[k])]
      /\ info.arrayRows = Dimensions(dims)[1] /\ info.arrayCols = Dimensions(dims)[2]
      /\ DOMAIN s = 1..1 /\ Len(s) = 1 /\ DOMAIN prog.access[p].indexes = 1..1
  BY DEF AccessOK
<1>2. PICK m \in DOMAIN nest : IteratorOf(nest[m]) = Iterator(p, 1) /\ m # 3
  <2>1. \E m \in DOMAIN nest : IteratorOf(nest[m]) = Iterator(p, 1)
    <3>1. 1 \in 1..Len(dims)
      BY <1>1
    <3> QED BY <3>1 DEF AccessOK
  <2> QED BY <2>1
<1>3. D \in Nat \ {0} /\ m \in 1..D /\ DOMAIN nest = 1..D
  BY <1>1 DEF IsNest
<1> DEFINE T == TripCount(nest[m])
           E == Inner(nest, m)
<1>4. /\ Len(x.iterators) = 1 /\ c \in Int
      /\ l.init \in Int /\ l.inc \in Nat \ {0} /\ l.iterations = T
      /\ l.inc = Entry(nest, m) /\ T \in Nat \ {0} /\ T = Trips(nest)[m]
      /\ \A t : IndexAt(p, t, idx) = c + (l.init + ((t \div E) % T) * l.inc)
  <2>1. 1 \in 1..Len(dims)
    BY <1>1
  <2>2. IndexKnown(p, 1, m)
    BY <1>2, <2>1, IndexOfAccess
  <2> QED BY <2>2, Zenon DEF IndexKnown
<1>5. x.iterators = <<IteratorOf(nest[m])>> /\ s = <<x>>
  <2>1. 1 \in 1..Len(dims)
    BY <1>1
  <2>2. x.iterators = <<Iterator(p, 1)>>
    BY <2>1 DEF AccessOK
  <2>3. s = <<x>>
    <3>1. OneOrTwo(s)
      BY DEF GeometryHeld
    <3> HIDE DEF s
    <3>2. \A a, b : s # <<a, b>>
      <4>1. Len(s) = 1
        BY <1>1, Zenon
      <4>2. \A a, b : Len(<<a, b>>) # 1
        OBVIOUS
      <4> QED BY <4>1, <4>2, Zenon
    <3> QED BY <3>1, <3>2 DEF OneOrTwo
  <2> QED BY <1>2, <2>2, <2>3
<1>6. info.type = "rowMajor" /\ info.initZeros = m - 1 /\ info.finalZeros = D - m
  <2> DEFINE M == Matrix(info)
  <2>1. M = IncrementMatrix(<<x>>, loops)
    BY <1>5 DEF Matrix
  <2>2. /\ \E heap : info.type = detectAccessPatternType(M, heap)
        /\ info.initZeros = detectZeroCols(M).initZeros
        /\ info.finalZeros = detectZeroCols(M).finalZeros
    BY DEF GeometryHeld
  <2> HIDE DEF x, loops, M, nest
  <2>3. IsRowMatrix(M, D, m, Entry(nest, m))
    BY <1>1, <1>5, <2>1, MatrixOfVector
  <2>4. Entry(nest, m) \in Int \ {0}
    BY <1>4
  <2> HIDE DEF D
  <2> QED BY <1>3, <2>2, <2>3, <2>4, ZerosOfRow, TypeOfRow
<1>7. info.Y = Alone(0, 1, -1) /\ info.X = Single(l, c)
  <2>1. Geometry(s) = Measured(Alone(0, 1, -1), Single(l, c))
    <3>1. DOMAIN s = {1}
      BY <1>1
    <3> HIDE DEF s
    <3> QED BY <1>4, <3>1, GeometryOfOne
  <2>2. info.X = Geometry(s).X /\ info.Y = Geometry(s).Y
    BY DEF GeometryHeld
  <2> HIDE DEF s, l, c
  <2> QED BY <2>1, <2>2 DEF Measured
<1>8. K \in Nat \ {0} /\ info.arrayRows = 1 /\ info.arrayCols = K /\ list = [e \in 1..K |-> e - 1]
  <2>1. K \in Nat \ {0}
    <3>1. \A n \in 1..Len(dims) : dims[n] \in Nat \ {0}
      BY <1>1
    <3> QED BY <1>1, <3>1
  <2>2. info.arrayRows = 1 /\ info.arrayCols = K
    BY <1>1 DEF Dimensions
  <2>3. 1 * K = K
    BY <2>1
  <2> HIDE DEF K
  <2> QED BY <2>1, <2>2, <2>3 DEF RowsOf
<1> HIDE DEF l, c
<1> DEFINE spot(k) == (l.init + c) + (k - 1) * l.inc
           R == Product(SubSeq(its, 1, m - 1))
           W == T * E
<1>9. its = Trips(nest) /\ its \in Seq(Nat \ {0}) /\ Len(its) = D /\ its[m] = T
  <2>1. DOMAIN loops = 1..D /\ \A k \in 1..D : loops[k] = IteratorOf(nest[k])
    BY <1>1, <1>3
  <2>2. \A k \in 1..D : loopInfoMap[IteratorOf(nest[k])].iterations = TripCount(nest[k])
    BY <1>1, <1>3 DEF NestRead
  <2> HIDE DEF loops
  <2>3. its = [k \in 1..D |-> TripCount(nest[k])]
    BY <2>1, <2>2
  <2>4. its = Trips(nest)
    BY <2>3 DEF Trips
  <2> HIDE DEF its, nest, D
  <2> QED BY <1>1, <1>4, <2>4, TripsOfNest DEF D
<1>10. E = Product(SubSeq(its, m + 1, Len(its)))
  BY <1>9 DEF Inner
<1>11. R \in Nat \ {0} /\ E \in Nat \ {0} /\ Executions(p) = R * (T * E)
  <2>1. Executions(p) = Product(its)
    BY <1>1, <1>9, ExecutionsOfNest
  <2> HIDE DEF its, E, T, nest
  <2> QED BY <1>3, <1>9, <1>10, <2>1, ProductAround
<1> HIDE DEF its, E, T, R, K, list, info, x, idx, nest, loops
<1>12. ASSUME NEW k \in 1..T
       PROVE  spot(k) \in 0..(K - 1)
  <2> DEFINE t == (k - 1) * E
  <2>1. t \in 0..(Executions(p) - 1)
    <3>1. k <= T /\ k \in Int
      BY <1>4
    <3>2. k * E <= T * E
      BY <1>4, <1>11, <3>1, ProductsGrow
    <3>3. k * E = t + E /\ t \in Nat /\ T * E \in Nat
      BY <1>4, <1>11
    <3>4. 1 * W <= R * W
      <4>1. W \in Nat
        BY <1>4, <1>11
      <4> HIDE DEF W
      <4> QED BY <1>11, <4>1, ProductsGrow
    <3>5. 1 * W = W /\ R * W \in Nat /\ W \in Nat
      BY <1>4, <1>11
    <3> HIDE DEF t
    <3> QED BY <1>11, <3>2, <3>3, <3>4, <3>5
  <2>2. (t \div E) % T = k - 1
    <3>1. k - 1 \in 0..(T - 1) /\ k - 1 \in Nat
      BY <1>4
    <3>2. ((k - 1) * E + 0) \div E = k - 1
      BY <1>11, <3>1, Digits
    <3>3. (k - 1) * E + 0 = t
      BY <1>11, <3>1
    <3>4. (0 * T + (k - 1)) % T = k - 1
      BY <1>4, <3>1, Digits
    <3>5. 0 * T + (k - 1) = k - 1
      BY <1>4, <3>1
    <3> HIDE DEF t
    <3> QED BY <3>2, <3>3, <3>4, <3>5
  <2>3. IndexAt(p, t, idx) \in 0..(K - 1)
    <3> HIDE DEF t
    <3> QED BY <1>1, <2>1 DEF InBounds, idx, K
  <2>4. IndexAt(p, t, idx) = c + (l.init + (k - 1) * l.inc)
    <3> HIDE DEF t
    <3> QED BY <1>4, <2>2
  <2>5. (k - 1) * l.inc \in Int
    BY <1>4
  <2> QED BY <1>4, <2>3, <2>4, <2>5
<1> DEFINE picked == shapeAddressList(list, info)
<1>13. picked = [k \in 1..T |-> spot(k)]
  <2>1. IsPlain(info) /\ ~IsTriangular(info)
    BY <1>2, <1>3, <1>6 DEF IsPlain, IsTriangular
  <2>2. Values(LoopI(info)) = <<0>>
    <3>1. LoopI(info) = Bounds(0, 0 + 1, 1)
      BY <1>7, <2>1 DEF LoopI, Alone
    <3>2. 0 + 1 = 1
      OBVIOUS
    <3> QED BY <3>1, <3>2, ValuesOnce
  <2>3. Values(LoopJ(info)) = [k \in 1..T |-> spot(k)]
    <3>1. LoopJ(info) = LET axis == Single(l, c)
                        IN Bounds(axis.offset, axis.stop + 1, axis.spacing)
      BY <1>7, <2>1 DEF LoopJ
    <3> QED BY <1>4, <3>1, ValuesOfAxis
  <2> DEFINE y == <<0>>
             z == [k \in 1..T |-> spot(k)]
             at(t) == ElementAt(list, Position(info, y[((t - 1) \div T) + 1], z[((t - 1) % T) + 1]))
  <2>4. Values(LoopI(info)) = [n \in 1..1 |-> y[n]] /\ Values(LoopJ(info)) = [n \in 1..T |-> z[n]]
    BY <2>2, <2>3
  <2> HIDE DEF y, z
  <2>5. picked = [t \in 1..(1 * T) |-> at(t)]
    <3> DEFINE N == 1
    <3>1. N \in Nat /\ T \in Nat \ {0}
      BY <1>4
    <3>2. Lists(Values(LoopI(info)), N, y) /\ Lists(Values(LoopJ(info)), T, z)
      BY <2>4 DEF Lists
    <3> HIDE DEF N
    <3>3. PlainRows(list, info, N, T, y, z)
      BY <2>1, <3>1, <3>2, ShapePlain
    <3> QED BY <3>3 DEF PlainRows, N
  <2>6. ASSUME NEW t \in 1..T
        PROVE  at(t) = spot(t)
    <3>1. (t - 1) \div T = 0 /\ (t - 1) % T = t - 1
      <4>1. 0 * T + (t - 1) = t - 1 /\ t - 1 \in 0..(T - 1) /\ 0 \in Nat
        BY <1>4
      <4>2. (0 * T + (t - 1)) \div T = 0 /\ (0 * T + (t - 1)) % T = t - 1
        BY <1>4, <4>1, Digits
      <4> QED BY <4>1, <4>2
    <3>2. y[0 + 1] = 0 /\ z[(t - 1) + 1] = spot(t)
      <4>1. (t - 1) + 1 = t /\ 0 + 1 = 1
        BY <1>4
      <4> QED BY <4>1 DEF y, z
    <3> DEFINE q == spot(t)
    <3>3. q \in 0..(K - 1)
      BY <1>12
    <3> HIDE DEF q, spot
    <3>4. Position(info, 0, q) = q
      <4>1. Position(info, 0, q) = 0 * info.arrayCols + q
        BY <1>6 DEF Position, extractIteratorAdvancement
      <4> QED BY <1>8, <3>3, <4>1
    <3>5. at(t) = ElementAt(list, q)
      BY <3>1, <3>2, <3>4 DEF q
    <3> QED BY <1>8, <3>3, <3>5, ElementOfRows DEF q
  <2> HIDE DEF at, spot, picked
  <2>7. 1 * T = T
    BY <1>4
  <2> QED BY <2>5, <2>6, <2>7
<1> HIDE DEF spot, picked
<1>14. AddressesOf(p) = [t \in 1..(R * W) |-> spot((((t - 1) % W) \div E) + 1)]
  <2>1. IsList(picked, T)
    BY <1>13 DEF IsList
  <2>2. AddressesOf(p) = expandAddressList(picked, info, its)
    BY DEF AddressesOf, info, loops, its, picked, list
  <2>3. expandAddressList(picked, info, its) =
          [t \in 1..(R * W) |-> picked[(((t - 1) % W) \div E) + 1]]
    <3>1. its \in Seq(Nat \ {0}) /\ m \in 1..Len(its) /\ T \in Nat \ {0}
      BY <1>3, <1>4, <1>9
    <3>2. info.initZeros = m - 1 /\ info.finalZeros = Len(its) - m
      BY <1>6, <1>9
    <3>3. Repeated(expandAddressList(picked, info, its), picked, R, T, E)
      BY <1>10, <2>1, <3>1, <3>2, ListExpanded DEF R
    <3> QED BY <3>3 DEF Repeated
  <2>4. ASSUME NEW t \in 1..(R * W)
        PROVE  picked[(((t - 1) % W) \div E) + 1] = spot((((t - 1) % W) \div E) + 1)
    <3>1. t - 1 \in Nat
      <4>1. R * W \in Nat
        BY <1>4, <1>11
      <4> QED BY <4>1
    <3> DEFINE a == ((t - 1) % W) \div E
    <3>2. a \in 0..(T - 1)
      BY <1>4, <1>11, <3>1, RestOfQuotient
    <3> HIDE DEF a
    <3>3. a + 1 \in 1..T
      BY <1>4, <3>2
    <3>4. picked[a + 1] = spot(a + 1)
      BY <1>13, <3>3
    <3> QED BY <3>4 DEF a
  <2> HIDE DEF W
  <2> QED BY <2>2, <2>3, <2>4
<1>15. ASSUME NEW t \in 1..(R * W)
       PROVE  spot((((t - 1) % W) \div E) + 1) = ElementRead(p, t - 1)
  <2> DEFINE g == t - 1
             a == (g \div E) % T
  <2>1. g \in Nat
    <3>1. R * W \in Nat
      BY <1>4, <1>11
    <3> QED BY <3>1
  <2>2. a \in 0..(T - 1) /\ (g % W) \div E = a
    <3> HIDE DEF g
    <3> QED BY <1>4, <1>11, <2>1, RestOfQuotient
  <2>3. ElementRead(p, g) = c + (l.init + a * l.inc)
    <3>1. ElementRead(p, g) = IndexAt(p, g, idx)
      BY <1>1 DEF ElementRead, idx
    <3> HIDE DEF g
    <3> QED BY <1>4, <3>1
  <2> HIDE DEF a, g
  <2>4. spot(a + 1) = (l.init + c) + a * l.inc
    <3>1. (a + 1) - 1 = a
      BY <2>2
    <3> QED BY <3>1 DEF spot
  <2>5. a * l.inc \in Int
    BY <1>4, <2>2
  <2>6. spot(a + 1) = ElementRead(p, g)
    BY <1>4, <2>3, <2>4, <2>5
  <2> QED BY <2>2, <2>6 DEF g
<1> HIDE DEF W
<1>16. AddressesOf(p) = [t \in 1..(R * W) |-> ElementRead(p, t - 1)]
  BY <1>14, <1>15
<1>17. info.initZeros # 2
  BY <1>2, <1>3, <1>6
<1> QED BY <1>11, <1>16, <1>17 DEF ElementsRead, W, info

(* An execution of two loops, by the turn of the outer and of the inner.   *)
LEMMA TurnsOfTwo ==
  ASSUME NEW N \in Nat \ {0}, NEW M \in Nat \ {0}, NEW g \in 0..(N * M - 1)
  PROVE  /\ g \div M \in 0..(N - 1) /\ g % M \in 0..(M - 1)
         /\ (g \div M) % N = g \div M /\ (g \div 1) % M = g % M
<1> DEFINE a == g \div M
           b == g % M
<1>1. a \in Nat /\ b \in 0..(M - 1) /\ g = a * M + b
  OBVIOUS
<1> HIDE DEF a, b
<1>2. a < N
  <2> SUFFICES ASSUME a >= N PROVE FALSE
    BY <1>1
  <2>1. N * M <= a * M
    BY <1>1, ProductsGrow
  <2>2. N * M \in Nat /\ a * M \in Nat
    BY <1>1
  <2> QED BY <1>1, <2>1, <2>2
<1>3. a % N = a
  <2>1. 0 * N + a = a /\ a \in 0..(N - 1) /\ 0 \in Nat
    BY <1>1, <1>2
  <2>2. (0 * N + a) % N = a
    BY <2>1, Digits
  <2> QED BY <2>1, <2>2
<1>4. g \div 1 = g
  <2>1. g * 1 + 0 = g /\ g \in Nat /\ 1 \in Nat \ {0} /\ 0 \in 0..(1 - 1)
    BY <1>1
  <2>2. (g * 1 + 0) \div 1 = g
    BY <2>1, Digits, Zenon
  <2> QED BY <2>1, <2>2
<1> QED BY <1>1, <1>2, <1>3, <1>4 DEF a, b

(* A list of two.                                                          *)
LEMMA ListOfTwo ==
  ASSUME NEW S, NEW s \in Seq(S), Len(s) = 2
  PROVE  s = <<s[1], s[2]>> /\ s[1] \in S /\ s[2] \in S
<1>1. s \in [1..2 -> S]
  <2>1. \A t \in Seq(S) : t \in [1..Len(t) -> S]
    OBVIOUS
  <2>2. s \in [1..Len(s) -> S]
    BY <2>1, Zenon
  <2> QED BY <2>2, Zenon
<1>2. s[1] \in S /\ s[2] \in S
  BY <1>1
<1>3. s = [k \in 1..2 |-> s[k]]
  BY <1>1
<1>4. 1..2 = {1, 2}
  OBVIOUS
<1> QED BY <1>2, <1>3, <1>4

LEMMA PartsOfTwo ==
  ASSUME NEW S, NEW a \in S, NEW b \in S
  PROVE  /\ SubSeq(<<a, b>>, 2, 2) = <<b>> /\ SubSeq(<<a, b>>, 3, 2) = << >>
         /\ SubSeq(<<a, b>>, 1, 0) = << >>
<1>1. SubSeq(<<a, b>>, 2, 2) = <<b>>
  <2>1. ASSUME NEW s \in Seq(S), Len(s) = 2
        PROVE  SubSeq(s, 2, 2) = <<s[2]>>
    <3> DEFINE u == SubSeq(s, 2, 2)
    <3>1. u \in Seq(S) /\ Len(u) = 1 /\ u[1] = s[2]
      BY <2>1
    <3> HIDE DEF u
    <3>2. u = <<u[1]>>
      BY <3>1
    <3> QED BY <3>1, <3>2, Zenon DEF u
  <2> DEFINE s == <<a, b>>
  <2>2. s \in Seq(S) /\ Len(s) = 2 /\ s[2] = b
    OBVIOUS
  <2> HIDE DEF s
  <2>3. SubSeq(s, 2, 2) = <<s[2]>>
    BY <2>1, <2>2, Zenon
  <2> QED BY <2>2, <2>3, Zenon DEF s
<1>2. SubSeq(<<a, b>>, 3, 2) = << >>
  OBVIOUS
<1>3. SubSeq(<<a, b>>, 1, 0) = << >>
  OBVIOUS
<1> QED BY <1>1, <1>2, <1>3

(* The executions of an access under two loops.                            *)
TwoLoops(nest) ==
  /\ TripCount(nest[1]) \in Nat \ {0} /\ TripCount(nest[2]) \in Nat \ {0}
  /\ Inner(nest, 1) = TripCount(nest[2]) /\ Inner(nest, 2) = 1
  /\ Product(Trips(nest)) = TripCount(nest[1]) * TripCount(nest[2])

LEMMA LoopsOfTwo ==
  ASSUME NEW nest, IsNest(nest), NestRead(nest), Len(nest) = 2
  PROVE  TwoLoops(nest)
<1> DEFINE s == Trips(nest)
           A == TripCount(nest[1])
           B == TripCount(nest[2])
<1>1. s \in Seq(Nat \ {0}) /\ Len(s) = 2 /\ s[1] = A /\ s[2] = B
  BY TripsOfNest
<1>2. Inner(nest, 1) = Product(SubSeq(s, 2, 2)) /\ Inner(nest, 2) = Product(SubSeq(s, 3, 2))
  BY DEF Inner
<1> HIDE DEF s, A, B
<1>3. A \in Nat \ {0} /\ B \in Nat \ {0} /\ s = <<A, B>>
  <2>1. s = <<s[1], s[2]>> /\ s[1] \in Nat \ {0} /\ s[2] \in Nat \ {0}
    BY <1>1, ListOfTwo, Zenon
  <2> QED BY <1>1, <2>1, Zenon
<1>4. Product(SubSeq(s, 2, 2)) = B /\ Product(SubSeq(s, 3, 2)) = 1 /\ Product(SubSeq(s, 1, 0)) = 1
  <2>1. /\ SubSeq(s, 2, 2) = <<B>> /\ SubSeq(s, 3, 2) = << >> /\ SubSeq(s, 1, 0) = << >>
    BY <1>3, PartsOfTwo, Zenon
  <2>2. <<B>> \in Seq(Nat) /\ Len(<<B>>) = 1 /\ <<B>>[1] = B
    BY <1>3
  <2>3. << >> \in Seq(Nat) /\ Len(<< >>) = 0
    OBVIOUS
  <2>4. Product(<<B>>) = B
    BY <2>2, ProductShort
  <2>5. Product(<< >>) = 1
    BY <2>3, ProductShort
  <2> QED BY <2>1, <2>4, <2>5, Zenon
<1>5. Product(s) = A * B
  <2>1. 1 \in 1..Len(s) /\ 1 - 1 = 0 /\ 1 + 1 = 2
    BY <1>1
  <2>2. Product(s) = Product(SubSeq(s, 1, 1 - 1)) * (s[1] * Product(SubSeq(s, 1 + 1, Len(s))))
    BY <1>1, <2>1, ProductAround, Zenon
  <2>3. Product(s) = 1 * (A * B)
    BY <1>1, <1>4, <2>1, <2>2
  <2>4. A * B \in Nat
    BY <1>3
  <2> QED BY <2>3, <2>4
<1> QED BY <1>2, <1>3, <1>4, <1>5 DEF TwoLoops, s, A, B

(* The k-th value of an index, in the loop of its iterator.                *)
ValueOf(p, n, k) ==
  LET s == pointerInfoMap[p].indexes
      l == loopInfoMap[s[n].iterators[1]]
  IN (l.init + s[n].constant) + (k - 1) * l.inc

Turn(m, g, inner) == IF m = 1 THEN g \div inner ELSE g % inner

(* An index of an access under two loops.                                  *)
LEMMA IndexUnderTwo ==
  ASSUME NEW p, AccessOK(p), InBounds(p), Len(Nest(p)) = 2,
         NEW n \in 1..Len(prog.dims[prog.access[p].array]), NEW m \in 1..2,
         IteratorOf(Nest(p)[m]) = Iterator(p, n)
  PROVE  LET A == TripCount(Nest(p)[1])
             B == TripCount(Nest(p)[2])
         IN /\ \A g \in 0..(A * B - 1) :
                  IndexAt(p, g, prog.access[p].indexes[n]) = ValueOf(p, n, Turn(m, g, B) + 1)
            /\ \A k \in 1..TripCount(Nest(p)[m]) :
                  ValueOf(p, n, k) \in 0..(prog.dims[prog.access[p].array][n] - 1)
<1> DEFINE nest == Nest(p)
           s == pointerInfoMap[p].indexes
           c == s[n].constant
           l == loopInfoMap[s[n].iterators[1]]
           A == TripCount(nest[1])
           B == TripCount(nest[2])
           T == TripCount(nest[m])
           E == Inner(nest, m)
           acc == prog.access[p]
           idx == acc.indexes[n]
           K == prog.dims[acc.array][n]
<1>1. IsNest(nest) /\ NestRead(nest) /\ m \in DOMAIN nest /\ DOMAIN acc.indexes = 1..Len(prog.dims[acc.array])
  BY DEF AccessOK, IsNest
<1>2. TwoLoops(nest) /\ Executions(p) = A * B
  BY <1>1, LoopsOfTwo, ExecutionsOfNest DEF TwoLoops
<1>3. /\ c \in Int /\ l.init \in Int /\ l.inc \in Nat \ {0} /\ T \in Nat \ {0}
      /\ \A t : IndexAt(p, t, idx) = c + (l.init + ((t \div E) % T) * l.inc)
  <2>1. IndexKnown(p, n, m)
    BY <1>1, IndexOfAccess
  <2> QED BY <2>1, Zenon DEF IndexKnown
<1>4. /\ A \in Nat \ {0} /\ B \in Nat \ {0}
      /\ m = 1 => E = B /\ T = A
      /\ m = 2 => E = 1 /\ T = B
  BY <1>2 DEF TwoLoops
<1>5. \A k : ValueOf(p, n, k) = (l.init + c) + (k - 1) * l.inc
  BY DEF ValueOf
<1> HIDE DEF c, l, A, B, T, E, K, idx, nest
<1>6. ASSUME NEW g \in 0..(A * B - 1)
      PROVE  /\ Turn(m, g, B) = (g \div E) % T /\ Turn(m, g, B) \in Nat
             /\ IndexAt(p, g, idx) = ValueOf(p, n, Turn(m, g, B) + 1)
  <2> DEFINE a == Turn(m, g, B)
  <2>1. /\ g \div B \in 0..(A - 1) /\ g % B \in 0..(B - 1)
        /\ (g \div B) % A = g \div B /\ (g \div 1) % B = g % B
    BY <1>4, TurnsOfTwo, Zenon
  <2>2. a = (g \div E) % T /\ a \in Nat
    <3>1. CASE m = 1
      BY <1>4, <2>1, <3>1 DEF Turn
    <3>2. CASE m = 2
      BY <1>4, <2>1, <3>2 DEF Turn
    <3> QED BY <3>1, <3>2
  <2>3. IndexAt(p, g, idx) = c + (l.init + a * l.inc)
    BY <1>3, <2>2
  <2> HIDE DEF a
  <2>4. ValueOf(p, n, a + 1) = (l.init + c) + a * l.inc
    <3>1. (a + 1) - 1 = a
      BY <2>2
    <3> QED BY <1>5, <3>1
  <2>5. a * l.inc \in Int
    BY <1>3, <2>2
  <2>6. IndexAt(p, g, idx) = ValueOf(p, n, a + 1)
    BY <1>3, <2>3, <2>4, <2>5
  <2> QED BY <2>2, <2>6 DEF a
<1>7. ASSUME NEW k \in 1..T
      PROVE  ValueOf(p, n, k) \in 0..(K - 1)
  <2>1. \E g \in 0..(A * B - 1) : Turn(m, g, B) = k - 1
    <3>1. CASE m = 1
      <4> DEFINE g == (k - 1) * B + 0
      <4>1. k - 1 \in Nat /\ 0 \in 0..(B - 1)
        BY <1>4
      <4>2. g \div B = k - 1
        BY <1>4, <4>1, Digits
      <4>3. k * B <= A * B
        <5>1. k <= A /\ k \in Int
          BY <1>4, <3>1
        <5> QED BY <1>4, <5>1, ProductsGrow
      <4>4. k * B = g + B /\ g \in Nat /\ A * B \in Nat
        BY <1>4
      <4> HIDE DEF g
      <4>5. g \in 0..(A * B - 1)
        BY <1>4, <4>3, <4>4
      <4> QED BY <3>1, <4>2, <4>5 DEF Turn
    <3>2. CASE m = 2
      <4> DEFINE g == k - 1
      <4>1. g \in 0..(B - 1) /\ 0 \in Nat /\ 0 * B + g = g
        BY <1>4, <3>2
      <4>2. (0 * B + g) % B = g
        BY <1>4, <4>1, Digits
      <4>3. 1 * B <= A * B
        BY <1>4, ProductsGrow
      <4>4. g \in 0..(A * B - 1)
        <5>1. 1 * B = B /\ A * B \in Nat
          BY <1>4
        <5> QED BY <1>4, <4>1, <4>3, <5>1
      <4> QED BY <3>2, <4>1, <4>2, <4>4 DEF Turn
    <3> QED BY <3>1, <3>2
  <2>2. PICK g \in 0..(A * B - 1) : Turn(m, g, B) = k - 1
    BY <2>1
  <2>3. IndexAt(p, g, idx) \in 0..(K - 1)
    <3>1. g \in 0..(Executions(p) - 1)
      BY <1>2, <2>2
    <3>2. n \in DOMAIN acc.indexes
      BY <1>1
    <3> QED BY <3>1, <3>2 DEF InBounds, idx, K
  <2>4. IndexAt(p, g, idx) = ValueOf(p, n, (k - 1) + 1)
    BY <1>6, <2>2
  <2>5. (k - 1) + 1 = k
    OBVIOUS
  <2> QED BY <2>3, <2>4, <2>5
<1> QED BY <1>6, <1>7 DEF A, B, T, K, idx, nest

(* The rows picked from a square matrix: each value of the first axis with *)
(* each of the second, and nothing is repeated.                            *)
SquareElement(type, d, i, j) == IF type = "rowMajor" THEN i * d + j ELSE j * d + i

SquareRows(list, type, d, N, M, y, x) ==
  list = [t \in 1..(N * M) |->
            SquareElement(type, d, y[((t - 1) \div M) + 1], x[((t - 1) % M) + 1])]

Within(v, n, d) == \A k \in 1..n : v[k] \in 0..(d - 1)

LEMMA RowsOfSquare ==
  ASSUME NEW d \in Nat \ {0}, NEW N \in Nat \ {0}, NEW M \in Nat \ {0}, NEW its,
         NEW pis, IsPlain(pis), pis.initZeros = 0, pis.finalZeros = 0, pis.arrayCols = d,
         NEW y, NEW x, Lists(Values(LoopI(pis)), N, y), Lists(Values(LoopJ(pis)), M, x),
         Within(y, N, d), Within(x, M, d)
  PROVE  SquareRows(expandAddressList(shapeAddressList([e \in 1..(d * d) |-> e - 1], pis), pis, its),
                    pis.type, d, N, M, y, x)
<1> DEFINE list == [e \in 1..(d * d) |-> e - 1]
<1>1. expandAddressList(shapeAddressList(list, pis), pis, its) = shapeAddressList(list, pis)
  BY Zenon DEF expandAddressList
<1> DEFINE at(t) == ElementAt(list, Position(pis, y[((t - 1) \div M) + 1], x[((t - 1) % M) + 1]))
           el(t) == SquareElement(pis.type, d, y[((t - 1) \div M) + 1], x[((t - 1) % M) + 1])
<1>2. shapeAddressList(list, pis) = [t \in 1..(N * M) |-> at(t)]
  <2>1. ~IsTriangular(pis) /\ N \in Nat
    BY DEF IsTriangular
  <2> HIDE DEF list
  <2>2. PlainRows(list, pis, N, M, y, x)
    BY <2>1, ShapePlain
  <2> QED BY <2>2 DEF PlainRows
<1>3. ASSUME NEW t \in 1..(N * M)
      PROVE  at(t) = el(t)
  <2> DEFINE g == t - 1
             i == y[(g \div M) + 1]
             j == x[(g % M) + 1]
  <2>1. g \in 0..(N * M - 1)
    <3>1. N * M \in Nat
      OBVIOUS
    <3> QED BY <3>1
  <2> HIDE DEF g
  <2>2. g \div M \in 0..(N - 1) /\ g % M \in 0..(M - 1)
    BY <2>1, TurnsOfTwo
  <2>3. i \in 0..(d - 1) /\ j \in 0..(d - 1)
    <3>1. (g \div M) + 1 \in 1..N /\ (g % M) + 1 \in 1..M
      BY <2>2
    <3> QED BY <3>1 DEF Within
  <2> HIDE DEF i, j
  <2> DEFINE e == SquareElement(pis.type, d, i, j)
  <2>4. Position(pis, i, j) = e
    BY DEF Position, extractIteratorAdvancement, IsPlain, SquareElement
  <2>5. \A a, b \in 0..(d - 1) : a * d + b \in 0..(d * d - 1)
    <3> SUFFICES ASSUME NEW a \in 0..(d - 1), NEW b \in 0..(d - 1)
                 PROVE  a * d + b \in 0..(d * d - 1)
      OBVIOUS
    <3>1. (a + 1) * d <= d * d
      <4>1. a + 1 <= d /\ a + 1 \in Nat
        OBVIOUS
      <4> QED BY <4>1, ProductsGrow
    <3> DEFINE v == a * d
               w == d * d
    <3>2. (a + 1) * d = v + d /\ v \in Nat /\ w \in Nat
      OBVIOUS
    <3>3. v + d <= w
      BY <3>1, <3>2
    <3> HIDE DEF v, w
    <3>4. v + b \in 0..(w - 1)
      BY <3>2, <3>3
    <3> QED BY <3>4 DEF v, w
  <2>6. e \in 0..(d * d - 1)
    BY <2>3, <2>5 DEF SquareElement
  <2> HIDE DEF e
  <2>7. ElementAt(list, e) = e
    <3>1. d * d \in Nat
      OBVIOUS
    <3> QED BY <2>6, <3>1, ElementOfRows
  <2>8. ElementAt(list, Position(pis, i, j)) = SquareElement(pis.type, d, i, j)
    BY <2>4, <2>7 DEF e
  <2> QED BY <2>8 DEF g, i, j
<1> HIDE DEF at, el, list
<1>4. shapeAddressList(list, pis) = [t \in 1..(N * M) |-> el(t)]
  BY <1>2, <1>3
<1> QED BY <1>1, <1>4 DEF SquareRows, el, list

(* The list of addresses of a square matrix under two loops.               *)
SquareRead(p, m, n) ==
  LET info == pointerInfoMap[p]
      M == TripCount(Nest(p)[n])
  IN /\ info.initZeros = 0 /\ IsPlain(info)
     /\ m = 1 => info.type = "rowMajor"
     /\ AddressesOf(p) =
          [t \in 1..(TripCount(Nest(p)[m]) * M) |->
             SquareElement(info.type, info.arrayCols,
                           ValueOf(p, 1, ((t - 1) \div M) + 1),
                           ValueOf(p, 2, ((t - 1) % M) + 1))]

LEMMA ListOfSquare ==
  ASSUME NEW p, AccessOK(p), GeometryHeld(p), InBounds(p), Square(p), Len(Nest(p)) = 2,
         NEW m \in 1..2, NEW n \in 1..2, m # n,
         IteratorOf(Nest(p)[m]) = Iterator(p, 1), IteratorOf(Nest(p)[n]) = Iterator(p, 2),
         m = 2 => pointerInfoMap[p].type = "colMajor"
  PROVE  SquareRead(p, m, n)
<1> DEFINE info == pointerInfoMap[p]
           s == info.indexes
           l1 == loopInfoMap[s[1].iterators[1]]
           l2 == loopInfoMap[s[2].iterators[1]]
           nest == Nest(p)
           loops == getIterationVector(info.loopIterator)
           its == [k \in DOMAIN loops |-> loopInfoMap[loops[k]].iterations]
           dims == prog.dims[prog.access[p].array]
           d == dims[1]
           N == TripCount(nest[m])
           M == TripCount(nest[n])
           list == RowsOf(p)
<1>1. /\ IsNest(nest) /\ NestRead(nest) /\ Len(dims) = 2 /\ dims \in Seq(Nat \ {0})
      /\ dims[2] = d /\ d \in Nat \ {0}
      /\ loops = [k \in 1..Len(nest) |-> IteratorOf(nest[k])]
      /\ info.arrayRows = d /\ info.arrayCols = d
      /\ DOMAIN s = 1..2 /\ Len(s) = 2
      /\ 1 \in 1..Len(dims) /\ 2 \in 1..Len(dims)
      /\ m \in DOMAIN nest /\ n \in DOMAIN nest
  <2>1. Len(dims) = 2 /\ dims[2] = d
    BY DEF Square
  <2>2. /\ IsNest(nest) /\ NestRead(nest) /\ dims \in Seq(Nat \ {0})
        /\ loops = [k \in 1..Len(nest) |-> IteratorOf(nest[k])]
        /\ info.arrayRows = Dimensions(dims)[1] /\ info.arrayCols = Dimensions(dims)[2]
        /\ DOMAIN s = 1..Len(dims) /\ Len(s) = Len(dims)
    BY DEF AccessOK
  <2>3. Dimensions(dims)[1] = d /\ Dimensions(dims)[2] = d
    BY <2>1 DEF Dimensions
  <2> HIDE DEF dims
  <2>4. dims[1] \in Nat \ {0} /\ 1 \in 1..Len(dims) /\ 2 \in 1..Len(dims)
    <3>1. dims \in Seq(Nat \ {0}) /\ Len(dims) = 2
      BY <2>1, <2>2, Zenon
    <3> QED BY <3>1
  <2>5. m \in DOMAIN nest /\ n \in DOMAIN nest
    BY <2>2 DEF IsNest
  <2> QED BY <2>1, <2>2, <2>3, <2>4, <2>5, Zenon
<1>2. IndexKnown(p, 1, m) /\ IndexKnown(p, 2, n)
  <2>1. /\ 1 \in 1..Len(dims) /\ 2 \in 1..Len(dims) /\ m \in DOMAIN nest /\ n \in DOMAIN nest
    BY <1>1, Zenon
  <2> QED BY <2>1, IndexOfAccess, Zenon
<1>3. /\ Len(s[1].iterators) = 1 /\ Len(s[2].iterators) = 1
      /\ s[1].constant \in Int /\ s[2].constant \in Int
      /\ l1.init \in Int /\ l1.inc \in Nat \ {0} /\ l1.iterations = N /\ l1.isInit /\ l1.isFinal
      /\ l2.init \in Int /\ l2.inc \in Nat \ {0} /\ l2.iterations = M /\ l2.isInit /\ l2.isFinal
      /\ l1.inc = Entry(nest, m) /\ l2.inc = Entry(nest, n)
      /\ N \in Nat \ {0} /\ M \in Nat \ {0}
  BY <1>2, Zenon DEF IndexKnown
<1>4. s[1].iterators = <<IteratorOf(nest[m])>> /\ s[2].iterators = <<IteratorOf(nest[n])>>
  BY <1>1, Zenon DEF AccessOK
<1>5. /\ info.initZeros = 0 /\ info.finalZeros = 0 /\ IsPlain(info)
      /\ m = 1 => info.type = "rowMajor"
  <2> DEFINE matrix == Matrix(info)
             u == s[1]
             v == s[2]
  <2>1. matrix = IncrementMatrix(<<u, v>>, loops)
    <3>1. OneOrTwo(s)
      BY DEF GeometryHeld
    <3>2. Len(s) = 2
      BY <1>1
    <3> HIDE DEF s
    <3>3. \A a : s # <<a>>
      BY <3>2
    <3>4. s = <<s[1], s[2]>>
      BY <3>1, <3>3 DEF OneOrTwo
    <3> QED BY <3>4 DEF Matrix, s
  <2>2. /\ \E heap : info.type = detectAccessPatternType(matrix, heap)
        /\ info.initZeros = detectZeroCols(matrix).initZeros
        /\ info.finalZeros = detectZeroCols(matrix).finalZeros
    BY DEF GeometryHeld
  <2>3. Entry(nest, m) \in Int \ {0} /\ Entry(nest, n) \in Int \ {0}
    <3>1. Entry(nest, m) \in Nat \ {0} /\ Entry(nest, n) \in Nat \ {0}
      BY <1>3, Zenon
    <3>2. \A e \in Nat \ {0} : e \in Int \ {0}
      OBVIOUS
    <3> QED BY <3>1, <3>2, Zenon
  <2>4. u.iterators = <<IteratorOf(nest[m])>> /\ v.iterators = <<IteratorOf(nest[n])>>
    BY <1>4
  <2>5. /\ IsNest(nest) /\ NestRead(nest) /\ Len(nest) = 2
        /\ loops = [k \in 1..Len(nest) |-> IteratorOf(nest[k])]
    BY <1>1
  <2> HIDE DEF u, v, loops, matrix, nest
  <2>6. /\ matrix.rows = 2 /\ matrix.cols = 2
        /\ m = 1 /\ n = 2 => matrix.vec = <<Entry(nest, 1), 0, 0, Entry(nest, 2)>>
        /\ m = 2 /\ n = 1 => matrix.vec = <<0, Entry(nest, 2), Entry(nest, 1), 0>>
    <3>1. IsSquareMatrix(matrix, nest, m, n)
      BY <2>1, <2>4, <2>5, MatrixOfSquare
    <3> QED BY <3>1 DEF IsSquareMatrix
  <2>7. CASE m = 1
    <3>1. n = 2
      BY <2>7
    <3>2. matrix.vec = <<Entry(nest, 1), 0, 0, Entry(nest, 2)>>
      BY <2>6, <2>7, <3>1
    <3>3. Entry(nest, 1) \in Int \ {0} /\ Entry(nest, 2) \in Int \ {0}
      BY <2>3, <2>7, <3>1
    <3>4. info.type = "rowMajor"
      BY <2>2, <2>6, <3>2, <3>3, TypeOfSquare
    <3>5. detectZeroCols(matrix).initZeros = 0 /\ detectZeroCols(matrix).finalZeros = 0
      BY <2>6, <3>2, <3>3, ZerosOfSquare
    <3> QED BY <2>2, <3>4, <3>5 DEF IsPlain
  <2>8. CASE m = 2
    <3>1. n = 1
      BY <2>8
    <3>2. matrix.vec = <<0, Entry(nest, 2), Entry(nest, 1), 0>>
      BY <2>6, <2>8, <3>1
    <3>3. Entry(nest, 1) # 0 /\ Entry(nest, 2) # 0
      BY <2>3, <2>8, <3>1
    <3>4. detectZeroCols(matrix).initZeros = 0 /\ detectZeroCols(matrix).finalZeros = 0
      BY <2>6, <3>2, <3>3, ZerosOfSquare
    <3> QED BY <2>2, <2>8, <3>4 DEF IsPlain
  <2> QED BY <2>7, <2>8
<1>6. info.Y = Single(l1, s[1].constant) /\ info.X = Single(l2, s[2].constant)
  <2>1. Geometry(s) = Measured(Single(l1, s[1].constant), Single(l2, s[2].constant))
    <3>1. DOMAIN s = {1, 2} /\ \A k \in DOMAIN s : Len(s[k].iterators) = 1
      <4>1. \A k \in 1..2 : k = 1 \/ k = 2
        OBVIOUS
      <4>2. DOMAIN s = {1, 2}
        <5>1. 1..2 = {1, 2}
          OBVIOUS
        <5> QED BY <1>1, <5>1, Zenon
      <4> QED BY <1>3, <4>2, Zenon
    <3> HIDE DEF s
    <3>2. l1.isInit /\ l1.isFinal /\ l2.isInit /\ l2.isFinal
      BY <1>3, Zenon
    <3> QED BY <3>1, <3>2, GeometryOfTwo, Zenon
  <2>2. info.X = Geometry(s).X /\ info.Y = Geometry(s).Y
    BY DEF GeometryHeld
  <2> HIDE DEF s, l1, l2
  <2> QED BY <2>1, <2>2 DEF Measured
<1> DEFINE y == [k \in 1..N |-> ValueOf(p, 1, k)]
           x == [k \in 1..M |-> ValueOf(p, 2, k)]
<1>7. Values(LoopI(info)) = y /\ Values(LoopJ(info)) = x
  <2>1. ~IsTriangular(info)
    BY <1>5 DEF IsTriangular
  <2>2. /\ \A k : ValueOf(p, 1, k) = (l1.init + s[1].constant) + (k - 1) * l1.inc
        /\ \A k : ValueOf(p, 2, k) = (l2.init + s[2].constant) + (k - 1) * l2.inc
    BY DEF ValueOf
  <2> DEFINE c1 == s[1].constant
             c2 == s[2].constant
  <2>3. /\ c1 \in Int /\ l1.init \in Int /\ l1.inc \in Nat \ {0} /\ l1.iterations \in Nat \ {0}
        /\ c2 \in Int /\ l2.init \in Int /\ l2.inc \in Nat \ {0} /\ l2.iterations \in Nat \ {0}
        /\ l1.iterations = N /\ l2.iterations = M
    BY <1>3, Zenon
  <2> HIDE DEF c1, c2, l1, l2, N, M
  <2>4. LoopI(info) = LET axis == Single(l1, c1)
                      IN Bounds(axis.offset, axis.stop + 1, axis.spacing)
    BY <1>6, <2>1 DEF LoopI, c1
  <2>5. LoopJ(info) = LET axis == Single(l2, c2)
                      IN Bounds(axis.offset, axis.stop + 1, axis.spacing)
    BY <1>5, <1>6, <2>1 DEF LoopJ, c2
  <2>6. Values(LoopI(info)) = [k \in 1..N |-> (l1.init + c1) + (k - 1) * l1.inc]
    <3>1. Values(LET axis == Single(l1, c1)
                 IN Bounds(axis.offset, axis.stop + 1, axis.spacing))
            = [k \in 1..l1.iterations |-> (l1.init + c1) + (k - 1) * l1.inc]
      BY <2>3, ValuesOfAxis
    <3> QED BY <2>4, <2>3, <3>1
  <2>7. Values(LoopJ(info)) = [k \in 1..M |-> (l2.init + c2) + (k - 1) * l2.inc]
    <3>1. Values(LET axis == Single(l2, c2)
                 IN Bounds(axis.offset, axis.stop + 1, axis.spacing))
            = [k \in 1..l2.iterations |-> (l2.init + c2) + (k - 1) * l2.inc]
      BY <2>3, ValuesOfAxis
    <3> QED BY <2>5, <2>3, <3>1
  <2> HIDE DEF info, s
  <2> QED BY <2>2, <2>6, <2>7 DEF c1, c2
<1>8. /\ \A k \in 1..N : y[k] \in 0..(d - 1)
      /\ \A k \in 1..M : x[k] \in 0..(d - 1)
  <2>1. \A k \in 1..N : ValueOf(p, 1, k) \in 0..(dims[1] - 1)
    BY <1>1, IndexUnderTwo, Zenon
  <2>2. \A k \in 1..M : ValueOf(p, 2, k) \in 0..(dims[2] - 1)
    BY <1>1, IndexUnderTwo, Zenon
  <2> HIDE DEF N, M, dims
  <2> QED BY <1>1, <2>1, <2>2
<1>9. list = [e \in 1..(d * d) |-> e - 1]
  BY <1>1 DEF RowsOf
<1> DEFINE at(t) == SquareElement(info.type, d, y[((t - 1) \div M) + 1], x[((t - 1) % M) + 1])
           el(t) == SquareElement(info.type, d, ValueOf(p, 1, ((t - 1) \div M) + 1),
                                                ValueOf(p, 2, ((t - 1) % M) + 1))
<1>10. AddressesOf(p) = [t \in 1..(N * M) |-> at(t)]
  <2>1. AddressesOf(p) = expandAddressList(shapeAddressList(list, info), info, its)
    BY DEF AddressesOf
  <2>2. Lists(Values(LoopI(info)), N, y) /\ Lists(Values(LoopJ(info)), M, x)
    BY <1>7 DEF Lists
  <2>3. Within(y, N, d) /\ Within(x, M, d)
    BY <1>8 DEF Within
  <2> HIDE DEF list, its, N, M, y, x, d
  <2>4. info.initZeros = 0 /\ info.finalZeros = 0 /\ IsPlain(info) /\ info.arrayCols = d
    BY <1>1, <1>5, Zenon
  <2>5. d \in Nat \ {0} /\ N \in Nat \ {0} /\ M \in Nat \ {0}
    BY <1>1, <1>3, Zenon
  <2> HIDE DEF info
  <2>6. SquareRows(expandAddressList(shapeAddressList(list, info), info, its),
                   info.type, d, N, M, y, x)
    BY <1>9, <2>2, <2>4, <2>3, <2>5, RowsOfSquare
  <2> QED BY <2>1, <2>6 DEF SquareRows
<1>11. ASSUME NEW t \in 1..(N * M)
       PROVE  at(t) = el(t)
  <2> HIDE DEF N, M, d
  <2>1. t - 1 \in 0..(N * M - 1)
    <3> DEFINE W == N * M
    <3>1. W \in Nat /\ t \in 1..W
      <4>1. N \in Nat \ {0} /\ M \in Nat \ {0}
        BY <1>3, Zenon
      <4>2. \A a, b \in Nat \ {0} : a * b \in Nat
        OBVIOUS
      <4> QED BY <4>1, <4>2, Zenon
    <3> HIDE DEF W
    <3>2. t - 1 \in 0..(W - 1)
      BY <3>1
    <3> QED BY <3>2 DEF W
  <2>1a. N \in Nat \ {0} /\ M \in Nat \ {0}
    BY <1>3, Zenon
  <2>2. (t - 1) \div M \in 0..(N - 1) /\ (t - 1) % M \in 0..(M - 1)
    BY <2>1, <2>1a, TurnsOfTwo, Zenon
  <2>3. ((t - 1) \div M) + 1 \in 1..N /\ ((t - 1) % M) + 1 \in 1..M
    <3>1. \A b \in Nat \ {0} : \A a \in 0..(b - 1) : a + 1 \in 1..b
      OBVIOUS
    <3> QED BY <2>1a, <2>2, <3>1, Zenon
  <2> QED BY <2>3
<1> HIDE DEF at, el
<1>12. AddressesOf(p) = [t \in 1..(N * M) |-> el(t)]
  BY <1>10, <1>11
<1>13. d = info.arrayCols
  BY <1>1
<1> QED BY <1>5, <1>12, <1>13 DEF SquareRead, el

(* What an execution reads of a square matrix under two loops.             *)
LEMMA ReadsOfSquare ==
  ASSUME NEW p, AccessOK(p), InBounds(p), Square(p), Len(Nest(p)) = 2,
         NEW m \in 1..2, NEW n \in 1..2,
         IteratorOf(Nest(p)[m]) = Iterator(p, 1), IteratorOf(Nest(p)[n]) = Iterator(p, 2)
  PROVE  LET A == TripCount(Nest(p)[1])
             B == TripCount(Nest(p)[2])
         IN /\ A \in Nat \ {0} /\ B \in Nat \ {0}
            /\ ElementsRead(p) =
                 [t \in 1..(A * B) |->
                    ValueOf(p, 1, Turn(m, t - 1, B) + 1) * pointerInfoMap[p].arrayCols
                      + ValueOf(p, 2, Turn(n, t - 1, B) + 1)]
<1> DEFINE A == TripCount(Nest(p)[1])
           B == TripCount(Nest(p)[2])
           acc == prog.access[p]
           dims == prog.dims[acc.array]
           cols == pointerInfoMap[p].arrayCols
           el(g) == ValueOf(p, 1, Turn(m, g, B) + 1) * cols + ValueOf(p, 2, Turn(n, g, B) + 1)
<1>1. IsNest(Nest(p)) /\ NestRead(Nest(p))
  BY DEF AccessOK
<1>2. A \in Nat \ {0} /\ B \in Nat \ {0} /\ Executions(p) = A * B
  BY <1>1, LoopsOfTwo, ExecutionsOfNest DEF TwoLoops
<1>3. Len(dims) = 2 /\ cols = dims[2] /\ 1 \in 1..Len(dims) /\ 2 \in 1..Len(dims)
  <2>1. Len(dims) = 2 /\ dims[1] = dims[2]
    BY DEF Square
  <2>2. cols = Dimensions(dims)[2]
    BY Zenon DEF AccessOK
  <2> QED BY <2>1, <2>2 DEF Dimensions
<1>4. ASSUME NEW g \in 0..(A * B - 1)
      PROVE  ElementRead(p, g) = el(g)
  <2>1. IndexAt(p, g, acc.indexes[1]) = ValueOf(p, 1, Turn(m, g, B) + 1)
    BY <1>3, IndexUnderTwo
  <2>2. IndexAt(p, g, acc.indexes[2]) = ValueOf(p, 2, Turn(n, g, B) + 1)
    BY <1>3, IndexUnderTwo
  <2>3. ElementRead(p, g) = IndexAt(p, g, acc.indexes[1]) * dims[2] + IndexAt(p, g, acc.indexes[2])
    BY <1>3 DEF ElementRead
  <2> QED BY <1>3, <2>1, <2>2, <2>3
<1> HIDE DEF A, B, el
<1>5. \A t \in 1..(A * B) : t - 1 \in 0..(A * B - 1)
  <2> DEFINE W == A * B
  <2>1. W \in Nat
    BY <1>2
  <2> HIDE DEF W
  <2>2. \A t \in 1..W : t - 1 \in 0..(W - 1)
    BY <2>1
  <2> QED BY <2>2 DEF W
<1>6. ElementsRead(p) = [t \in 1..(A * B) |-> el(t - 1)]
  BY <1>2, <1>4, <1>5 DEF ElementsRead
<1> QED BY <1>2, <1>6 DEF A, B, el

(* By rows: the loops pick in the order in which they run.                 *)
LEMMA RowsExact ==
  ASSUME NEW p, AccessOK(p), GeometryHeld(p), InBounds(p), Square(p), Len(Nest(p)) = 2,
         \A k \in {1, 2} : Iterator(p, k) = IteratorOf(Nest(p)[k])
  PROVE  AddressesOf(p) = ElementsRead(p) /\ pointerInfoMap[p].initZeros # 2
<1>1. /\ 1 \in 1..2 /\ 2 \in 1..2 /\ 1 # 2
      /\ IteratorOf(Nest(p)[1]) = Iterator(p, 1) /\ IteratorOf(Nest(p)[2]) = Iterator(p, 2)
  OBVIOUS
<1>2. SquareRead(p, 1, 2)
  <2>1. 1 = 2 => pointerInfoMap[p].type = "colMajor"
    OBVIOUS
  <2> QED BY <1>1, <2>1, ListOfSquare, Zenon
<1> DEFINE A == TripCount(Nest(p)[1])
           B == TripCount(Nest(p)[2])
           cols == pointerInfoMap[p].arrayCols
<1>3. /\ pointerInfoMap[p].initZeros = 0 /\ pointerInfoMap[p].type = "rowMajor"
      /\ AddressesOf(p) =
           [t \in 1..(A * B) |->
              SquareElement(pointerInfoMap[p].type, cols,
                            ValueOf(p, 1, ((t - 1) \div B) + 1),
                            ValueOf(p, 2, ((t - 1) % B) + 1))]
  BY <1>2 DEF SquareRead
<1>4. ElementsRead(p) =
        [t \in 1..(A * B) |-> ValueOf(p, 1, Turn(1, t - 1, B) + 1) * cols
                                + ValueOf(p, 2, Turn(2, t - 1, B) + 1)]
  BY <1>1, ReadsOfSquare, Zenon
<1> HIDE DEF A, B, cols
<1>5. \A g : Turn(1, g, B) = g \div B /\ Turn(2, g, B) = g % B
  BY DEF Turn
<1>6. \A i, j : SquareElement(pointerInfoMap[p].type, cols, i, j) = i * cols + j
  BY <1>3 DEF SquareElement
<1> QED BY <1>3, <1>4, <1>5, <1>6

(* By columns: the inner loop goes by the rows, and both loops alike.      *)
LEMMA ColumnsExact ==
  ASSUME NEW p, AccessOK(p), GeometryHeld(p), InBounds(p), Square(p), Len(Nest(p)) = 2,
         \A k \in {1, 2} : Iterator(p, k) = IteratorOf(Nest(p)[3 - k]),
         \A t \in 0..MaxTrips : IteratorValue(Nest(p)[1], t) = IteratorValue(Nest(p)[2], t),
         TripCount(Nest(p)[1]) = TripCount(Nest(p)[2]),
         prog.access[p].indexes[1].constant = prog.access[p].indexes[2].constant,
         pointerInfoMap[p].type = "colMajor"
  PROVE  AddressesOf(p) = ElementsRead(p) /\ pointerInfoMap[p].initZeros # 2
<1>1. /\ 1 \in 1..2 /\ 2 \in 1..2 /\ 2 # 1
      /\ IteratorOf(Nest(p)[2]) = Iterator(p, 1) /\ IteratorOf(Nest(p)[1]) = Iterator(p, 2)
  <2>1. 3 - 1 = 2 /\ 3 - 2 = 1
    OBVIOUS
  <2>2. Iterator(p, 1) = IteratorOf(Nest(p)[3 - 1]) /\ Iterator(p, 2) = IteratorOf(Nest(p)[3 - 2])
    OBVIOUS
  <2> QED BY <2>1, <2>2
<1>2. SquareRead(p, 2, 1)
  BY <1>1, ListOfSquare, Zenon
<1> DEFINE A == TripCount(Nest(p)[1])
           B == TripCount(Nest(p)[2])
           info == pointerInfoMap[p]
           cols == info.arrayCols
<1>3. /\ info.initZeros = 0
      /\ AddressesOf(p) =
           [t \in 1..(B * A) |->
              SquareElement(info.type, cols, ValueOf(p, 1, ((t - 1) \div A) + 1),
                                             ValueOf(p, 2, ((t - 1) % A) + 1))]
  BY <1>2 DEF SquareRead
<1>4. ElementsRead(p) =
        [t \in 1..(A * B) |-> ValueOf(p, 1, Turn(2, t - 1, B) + 1) * cols
                                + ValueOf(p, 2, Turn(1, t - 1, B) + 1)]
  BY <1>1, ReadsOfSquare, Zenon
<1>5. \A k : ValueOf(p, 1, k) = ValueOf(p, 2, k)
  <2> DEFINE s == info.indexes
             nest == Nest(p)
             o == prog.loops[nest[1]]
             i == prog.loops[nest[2]]
  <2>1. /\ 1 \in DOMAIN nest /\ 2 \in DOMAIN nest /\ NestRead(nest)
        /\ 1 \in 1..Len(prog.dims[prog.access[p].array])
        /\ 2 \in 1..Len(prog.dims[prog.access[p].array])
    <3>1. IsNest(nest) /\ NestRead(nest)
      BY Zenon DEF AccessOK
    <3>2. Len(prog.dims[prog.access[p].array]) = 2
      BY Zenon DEF Square
    <3>3. 1 \in DOMAIN nest /\ 2 \in DOMAIN nest
      BY <3>1 DEF IsNest
    <3>4. /\ 1 \in 1..Len(prog.dims[prog.access[p].array])
          /\ 2 \in 1..Len(prog.dims[prog.access[p].array])
      BY <3>2
    <3> QED BY <3>1, <3>3, <3>4, Zenon
  <2>2. /\ s[1].iterators = <<IteratorOf(nest[2])>> /\ s[2].iterators = <<IteratorOf(nest[1])>>
        /\ s[1].constant = s[2].constant
    BY <1>1, <2>1, Zenon DEF AccessOK
  <2>3. /\ loopInfoMap[IteratorOf(nest[1])].init = o.init /\ loopInfoMap[IteratorOf(nest[1])].inc = o.inc
        /\ loopInfoMap[IteratorOf(nest[2])].init = i.init /\ loopInfoMap[IteratorOf(nest[2])].inc = i.inc
        /\ o.init \in Int /\ o.inc \in Nat /\ i.init \in Int /\ i.inc \in Nat
        /\ TripCount(nest[1]) \in 1..MaxTrips
    BY <2>1 DEF NestRead
  <2>4. o.init = i.init /\ o.inc = i.inc
    <3>1. 0 \in 0..MaxTrips /\ 1 \in 0..MaxTrips
      BY <2>3, MaxTripsAssumption
    <3>2. IteratorValue(nest[1], 0) = IteratorValue(nest[2], 0)
      BY <3>1
    <3>3. IteratorValue(nest[1], 1) = IteratorValue(nest[2], 1)
      BY <3>1
    <3>4. \A t : /\ IteratorValue(nest[1], t) = o.init + t * o.inc
                /\ IteratorValue(nest[2], t) = i.init + t * i.inc
      BY DEF IteratorValue
    <3>5. o.init + 0 * o.inc = i.init + 0 * i.inc /\ o.init + 1 * o.inc = i.init + 1 * i.inc
      BY <3>2, <3>3, <3>4
    <3> HIDE DEF o, i
    <3> QED BY <2>3, <3>5
  <2> HIDE DEF s, o, i
  <2>5. \A k : /\ ValueOf(p, 1, k) = (i.init + s[1].constant) + (k - 1) * i.inc
               /\ ValueOf(p, 2, k) = (o.init + s[2].constant) + (k - 1) * o.inc
    BY <2>2, <2>3 DEF ValueOf, s
  <2> QED BY <2>2, <2>4, <2>5
<1>6. A = B
  OBVIOUS
<1>7. info.type # "rowMajor"
  OBVIOUS
<1> HIDE DEF A, B, info, cols
<1>8. \A g : Turn(1, g, B) = g \div B /\ Turn(2, g, B) = g % B
  BY DEF Turn
<1>9. \A i, j : SquareElement(info.type, cols, i, j) = j * cols + i
  BY <1>7 DEF SquareElement
<1> DEFINE list == [t \in 1..(B * B) |-> ValueOf(p, 1, ((t - 1) % B) + 1) * cols
                                           + ValueOf(p, 2, ((t - 1) \div B) + 1)]
<1>10. AddressesOf(p) = list
  BY <1>3, <1>5, <1>6, <1>9
<1>11. ElementsRead(p) = list
  BY <1>4, <1>6, <1>8
<1> HIDE DEF list
<1>12. info.initZeros # 2
  BY <1>3
<1> QED BY <1>10, <1>11, <1>12 DEF info

(* shapeAddressList and expandAddressList (AddressList.cpp:97-253) on the  *)
(* tables of CollectInfo, for every program: the rows bound to an operand  *)
(* are the elements that the loops read, in the order in which they read   *)
(* them, for a vector under any nest by any loop but the third, for a      *)
(* square matrix by rows, and by columns where it is recognised, whatever  *)
(* the trip counts, the increments, the constants and the sizes are.       *)
THEOREM AddressesCorrect == Spec => []AddressesExact
<1>1. AccessInv /\ GeometriesHeld /\ LoopsRecorded => AddressesExact
  <2> SUFFICES ASSUME AccessInv, GeometriesHeld, LoopsRecorded, Parsed,
                      NEW p \in DOMAIN pointerInfoMap,
                      \/ VectorAccess(p) \/ ByRows(p)
                      \/ ByColumns(p) /\ pointerInfoMap[p].type = "colMajor"
               PROVE  Exact(p)
    BY DEF AddressesExact
  <2>1. Simple(p)
    BY DEF VectorAccess, ByRows, ByColumns
  <2>2. AccessOK(p) /\ GeometryHeld(p) /\ InBounds(p)
    BY <2>1, SimpleAccess DEF GeometriesHeld, Simple
  <2>3. AddressesOf(p) = ElementsRead(p) /\ pointerInfoMap[p].initZeros # 2
    <3>1. CASE VectorAccess(p)
      <4>1. Len(prog.dims[prog.access[p].array]) = 1
        BY <2>2, <3>1 DEF VectorAccess, AccessOK
      <4>2. \A k \in DOMAIN Nest(p) : IteratorOf(Nest(p)[k]) = Iterator(p, 1) => k # 3
        BY <3>1 DEF VectorAccess
      <4> QED BY <2>2, <4>1, <4>2, VectorExact
    <3>2. CASE ByRows(p)
      <4>1. /\ Square(p) /\ Len(Nest(p)) = 2
            /\ \A k \in {1, 2} : Iterator(p, k) = IteratorOf(Nest(p)[k])
        BY <3>2 DEF ByRows
      <4> QED BY <2>2, <4>1, RowsExact
    <3>3. CASE ByColumns(p) /\ pointerInfoMap[p].type = "colMajor"
      <4>1. /\ Square(p) /\ Len(Nest(p)) = 2
            /\ \A k \in {1, 2} : Iterator(p, k) = IteratorOf(Nest(p)[3 - k])
            /\ \A t \in 0..MaxTrips : IteratorValue(Nest(p)[1], t) = IteratorValue(Nest(p)[2], t)
            /\ TripCount(Nest(p)[1]) = TripCount(Nest(p)[2])
            /\ prog.access[p].indexes[1].constant = prog.access[p].indexes[2].constant
        BY <3>3 DEF ByColumns
      <4> QED BY <2>2, <3>3, <4>1, ColumnsExact
    <3> QED BY <3>1, <3>2, <3>3
  <2>4. ~RunsAway(pointerInfoMap[p])
    BY <2>1, <2>3, ReturnsOf
  <2> QED BY <2>3, <2>4 DEF Exact
<1> QED BY <1>1, AccessInvariance, GeometriesInvariance, LoopTablesCorrect, PTL
=============================================================================
