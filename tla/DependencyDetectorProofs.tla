---------------------- MODULE DependencyDetectorProofs ----------------------
(***************************************************************************)
(* Proofs about DependencyDetector, for every set of variables, arrays and *)
(* opcodes, every shape a program may use, and every bound.                *)
(***************************************************************************)
EXTENDS DependencyDetector, TLAPS, SequenceTheorems, NaturalFacts

OperationName == Opcodes \cup {"null", "load", "xnor", "nand", "nor"}

(* The types of TypeOK as functions of the number of registers.            *)
DefinitionAt(n) == Vars \cup 1..n \cup {Number}
RegisterAt(n) == Vars \cup 1..n \cup {Null, Garbage, Number, MinusOne}
SourceAt(n) == [reg : RegisterAt(n), type : OperandType, ptr : PtrType]
LatchAt(n) == [reg : RegisterAt(n), type : OperandType, ptr : PtrType, isArray : BOOLEAN]
ValueAt(n) ==
  [ssa : 1..n \cup {Number, MinusOne}, reg : DefinitionAt(n),
   type : {"array", "singleVariable", "constant", "result"}, ptr : PtrType]
EntryAt(n) ==
  [operation : OperationName, accumulation : BOOLEAN, destRegType : OperandType, destRegPtr : PtrType,
   src1 : SourceAt(n), src2 : SourceAt(n), isInLoopBody : BOOLEAN]
MapAt(map, n) ==
  /\ DOMAIN map \subseteq Vars \cup 1..n
  /\ map \in [DOMAIN map -> EntryAt(n)]

StreamOK ==
  /\ regs \in Nat /\ inLoop \in BOOLEAN
  /\ stack \in Seq(ValueAt(regs))
  /\ reaching \in [Vars -> DefinitionAt(regs)]
  /\ DOMAIN asked \subseteq 1..regs

LatchesOK ==
  /\ src1 \in LatchAt(regs) /\ src2 \in LatchAt(regs) /\ dest \in SourceAt(regs)
  /\ loadCount \in Nat /\ accumulationValidityCount \in Nat
  /\ operation \in OperationName /\ tmpSrcReg2 \in RegisterAt(regs)

LastOK ==
  \A k \in DOMAIN lastUsedRegMap : k \in Vars /\ lastUsedRegMap[k] \in RegisterAt(regs)

(* TypeOK, and what keeps it: no complement is ever stored, and the entries*)
(* of the table have all their fields.                                     *)
TypeInv == StreamOK /\ LatchesOK /\ LastOK /\ MapAt(instructionMap, regs)

(* What the latches hold in a program of left-nested statements.  Before   *)
(* the first operation: the one or two values loaded.                      *)
IsLoaded(value) == value.type \in {"array", "singleVariable"} /\ value.ssa \in Nat

Holds(latch, value) ==
  /\ latch.reg = value.reg /\ latch.ptr = value.ptr
  /\ latch.isArray <=> value.type = "array"

FirstOperands ==
  /\ dest.reg = Null /\ loadCount = Len(stack)
  /\ IsLoaded(stack[1]) /\ Holds(src1, stack[1])
  /\ Len(stack) = 1 => src2 = NoOperand
  /\ Len(stack) = 2 => IsLoaded(stack[2]) /\ Holds(src2, stack[2])

(* After it: the last result, which no variable has yet, and perhaps the   *)
(* value loaded since.  The latch of that value, and so the order of the   *)
(* operands in the table, follow the parity of the loads.                  *)
Straight(entry, q) == entry.src1.reg = q.x.reg /\ entry.src2.reg = q.y.reg
Crossed(entry, q) == entry.src1.reg = q.y.reg /\ entry.src2.reg = q.x.reg

LastResult ==
  /\ dest.reg \in DOMAIN asked
  /\ IF loadCount % 2 = 1 THEN Crossed(instructionMap[dest.reg], asked[dest.reg])
     ELSE Straight(instructionMap[dest.reg], asked[dest.reg])
  /\ loadCount > 2 => asked[dest.reg].x.reg # asked[dest.reg].y.reg

NextOperand ==
  /\ IsLoaded(stack[2]) /\ loadCount > 2
  /\ stack[2].reg # stack[1].reg
  /\ IF loadCount % 2 = 1 THEN Holds(src1, stack[2]) /\ src2 = NoOperand
     ELSE Holds(src2, stack[2]) /\ src1 = NoOperand

Continued ==
  /\ dest.reg = stack[1].reg /\ dest.reg = stack[1].ssa
  /\ \A v \in Vars : reaching[v] # dest.reg
  /\ Len(stack) = 1 =>
       /\ src1 = NoOperand /\ src2 = NoOperand
       /\ loadCount >= 2 /\ operation \notin {"null", "load"}
       /\ LastResult
  /\ Len(stack) = 2 => NextOperand

Between ==
  /\ src1 = NoOperand /\ src2 = NoOperand /\ dest.reg = Null /\ loadCount = 0

Statement ==
  /\ stack = << >> => Between
  /\ stack # << >> => IF stack[1].type = "result" THEN Continued ELSE FirstOperands

DefinitionsFollowed == \A v \in Vars : getRealSrcReg(v) = reaching[v]

KeptBy(entry, q) ==
  /\ entry.operation = q.operation
  /\ \/ Records(entry.src1, q.x) /\ Records(entry.src2, q.y)
     \/ Records(entry.src2, q.x) /\ Records(entry.src1, q.y)

AllKept ==
  \A r \in DOMAIN asked : r \in DOMAIN instructionMap /\ KeptBy(instructionMap[r], asked[r])

PlainBody ==
  ~isNegated /\ Len(stack) <= 2 /\ DefinitionsFollowed /\ AllKept /\ Statement

PlainInv == plain => PlainBody

-----------------------------------------------------------------------------
LEMMA Names ==
  /\ Vars \cap Nat = {} /\ Vars \cap Pointers = {} /\ Scalars \cap Arrays = {}
  /\ \A c \in {Null, Garbage, Number, MinusOne} : c \notin Nat /\ c \notin Vars /\ c \notin Pointers
  /\ Null # Garbage /\ Null # Number /\ Null # MinusOne /\ Number # MinusOne
  /\ Garbage # Number /\ Garbage # MinusOne
  BY NamesAssumption

(* Registers given later only widen the types.                             *)
LEMMA Wider ==
  ASSUME NEW n \in Nat, NEW m \in {n, n + 1}
  PROVE  /\ 1..n \subseteq 1..m /\ DefinitionAt(n) \subseteq DefinitionAt(m)
         /\ RegisterAt(n) \subseteq RegisterAt(m)
         /\ SourceAt(n) \subseteq SourceAt(m) /\ LatchAt(n) \subseteq LatchAt(m)
         /\ ValueAt(n) \subseteq ValueAt(m) /\ EntryAt(n) \subseteq EntryAt(m)
<1>1. 1..n \subseteq 1..m
  OBVIOUS
<1>2. DefinitionAt(n) \subseteq DefinitionAt(m) /\ RegisterAt(n) \subseteq RegisterAt(m)
  BY <1>1 DEF DefinitionAt, RegisterAt
<1>3. SourceAt(n) \subseteq SourceAt(m)
  BY <1>2 DEF SourceAt
<1>4. LatchAt(n) \subseteq LatchAt(m)
  BY <1>2 DEF LatchAt
<1>5. ValueAt(n) \subseteq ValueAt(m)
  BY <1>1, <1>2 DEF ValueAt
<1>6. EntryAt(n) \subseteq EntryAt(m)
  BY <1>3 DEF EntryAt
<1> QED BY <1>1, <1>2, <1>3, <1>4, <1>5, <1>6

LEMMA OneOrTwo ==
  ASSUME NEW n \in Nat
  PROVE  /\ n < 2 => n = 0 \/ n = 1
         /\ n <= 2 /\ n >= 2 => n = 2
         /\ n = 1 => n <= 2 /\ ~(n >= 2)
  OBVIOUS

LEMMA Lengths ==
  ASSUME NEW S, NEW s \in Seq(S)
  PROVE  Len(s) \in Nat /\ (s = << >> <=> Len(s) = 0)
  BY EmptySeq

LEMMA Pair ==
  ASSUME NEW S, NEW s \in Seq(S), Len(s) = 2
  PROVE  /\ s[1] \in S /\ s[2] \in S /\ s # << >>
         /\ s[Len(s)] = s[2] /\ s[Len(s) - 1] = s[1]
         /\ SubSeq(s, 1, Len(s) - 2) = << >>
<1>1. s \in [1..2 -> S]
  BY LenProperties
<1>2. s[1] \in S /\ s[2] \in S /\ s[Len(s)] = s[2] /\ s[Len(s) - 1] = s[1]
  BY <1>1
<1>3. s # << >>
  <2>1. s = << >> <=> Len(s) = 0
    BY Lengths
  <2>2. Len(s) # 0
    OBVIOUS
  <2> QED BY <2>1, <2>2, Zenon
<1>4. SubSeq(s, 1, Len(s) - 2) = << >>
  <2>1. Len(s) - 2 = 0
    OBVIOUS
  <2>2. SubSeq(s, 1, 0) \in Seq(S) /\ Len(SubSeq(s, 1, 0)) = 0
    BY SubSeqProperties
  <2> QED BY <2>1, <2>2, Lengths
<1> QED BY <1>2, <1>3, <1>4

LEMMA LastElement ==
  ASSUME NEW S, NEW s \in Seq(S), Len(s) >= 1
  PROVE  s[Len(s)] \in S
  OBVIOUS

LEMMA Appended ==
  ASSUME NEW S, NEW s \in Seq(S), NEW e
  PROVE  /\ Append(s, e) # << >> /\ Len(Append(s, e)) = Len(s) + 1
         /\ \A k \in 1..Len(s) : Append(s, e)[k] = s[k]
         /\ Append(s, e)[Len(s) + 1] = e
<1>1. s \in Seq(S \cup {e}) /\ e \in S \cup {e}
  BY SeqMonotonic
<1>2. Append(s, e) \in Seq(S \cup {e}) /\ Len(Append(s, e)) = Len(s) + 1
  BY <1>1, AppendProperties
<1> QED BY <1>1, <1>2, AppendProperties, Lengths

LEMMA WiderMap ==
  ASSUME NEW n \in Nat, NEW m \in {n, n + 1}, NEW map, MapAt(map, n)
  PROVE  MapAt(map, m)
<1>1. EntryAt(n) \subseteq EntryAt(m) /\ 1..n \subseteq 1..m
  BY Wider
<1>2. map \in [DOMAIN map -> EntryAt(m)]
  BY <1>1 DEF MapAt
<1> QED BY <1>1, <1>2 DEF MapAt

LEMMA InsertMap ==
  ASSUME NEW n, NEW map, MapAt(map, n), NEW reg \in Vars \cup 1..n, NEW entry \in EntryAt(n)
  PROVE  MapAt(Insert(map, reg, entry), n)
  BY DEF MapAt, Insert

LEMMA EmptyTypes ==
  ASSUME NEW n \in Nat
  PROVE  NoOperand \in LatchAt(n) /\ NoDest \in SourceAt(n)
  BY DEF NoOperand, NoDest, LatchAt, SourceAt, RegisterAt, OperandType, PtrType

LEMMA InitType == Init => TypeInv
<1> SUFFICES ASSUME Init PROVE TypeInv
  OBVIOUS
<1>1. StreamOK
  <2>1. regs \in Nat /\ inLoop \in BOOLEAN /\ stack \in Seq(ValueAt(regs))
    BY DEF Init
  <2>2. reaching \in [Vars -> DefinitionAt(regs)]
    BY DEF Init, DefinitionAt
  <2>3. DOMAIN asked \subseteq 1..regs
    BY DEF Init, EmptyMap
  <2> QED BY <2>1, <2>2, <2>3 DEF StreamOK
<1>2. LatchesOK
  <2>1. NoOperand \in LatchAt(regs) /\ NoDest \in SourceAt(regs)
    BY <1>1, EmptyTypes DEF StreamOK
  <2>2. tmpSrcReg2 \in RegisterAt(regs)
    BY DEF Init, RegisterAt
  <2> QED BY <2>1, <2>2 DEF Init, LatchesOK, OperationName
<1>3. LastOK /\ MapAt(instructionMap, regs)
  BY DEF Init, LastOK, MapAt, EmptyMap
<1> QED BY <1>1, <1>2, <1>3 DEF TypeInv

(* The latches a load leaves.                                              *)
LEMMA LatchedType ==
  ASSUME NEW n \in Nat, NEW latch \in LatchAt(n), NEW address \in Scalars \cup Pointers,
         LastOK, n = regs
  PROVE  Latched(latch, address) \in LatchAt(n)
<1>1. getAllocatedReg(address) \in Vars
  BY DEF getAllocatedReg, Vars, Pointers
<1>2. getRealSrcReg(getAllocatedReg(address)) \in RegisterAt(n)
  BY <1>1 DEF getRealSrcReg, LastOK, RegisterAt
<1>3. address \in Pointers => address \in PtrType
  BY DEF PtrType
<1> QED BY <1>2, <1>3 DEF Latched, LatchAt

LEMMA LoadType ==
  ASSUME TypeInv, NEW address \in Scalars \cup Pointers, Load(address)
  PROVE  TypeInv'
<1> DEFINE v == getAllocatedReg(address)
<1>0. regs \in Nat /\ regs' = regs + 1 /\ v \in Vars
  BY DEF TypeInv, StreamOK, Load, getAllocatedReg, Vars, Pointers
<1>1. StreamOK'
  <2>1. reaching[v] \in DefinitionAt(regs)
    BY <1>0 DEF TypeInv, StreamOK
  <2> DEFINE value == Value(regs + 1, reaching[v], TypeOf(v \in Arrays),
                            IF v \in Arrays THEN address ELSE Null)
  <2>2. (IF v \in Arrays THEN address ELSE Null) \in PtrType
    BY Names DEF getAllocatedReg, PtrType
  <2>3. regs + 1 \in 1..(regs + 1)
    BY <1>0
  <2>4. value \in ValueAt(regs + 1)
    BY <1>0, <2>1, <2>2, <2>3, Wider DEF Value, ValueAt, TypeOf
  <2>5. stack \in Seq(ValueAt(regs + 1))
    BY <1>0, Wider, SeqMonotonic DEF TypeInv, StreamOK
  <2>6. stack' = Append(stack, value)
    BY DEF Load, Push
  <2>7. stack' \in Seq(ValueAt(regs'))
    <3> HIDE DEF value
    <3> QED BY <1>0, <2>4, <2>5, <2>6
  <2>8. reaching' \in [Vars -> DefinitionAt(regs')] /\ DOMAIN asked' \subseteq 1..regs'
    BY <1>0, Wider DEF TypeInv, StreamOK, Load
  <2> QED BY <1>0, <2>7, <2>8 DEF StreamOK, TypeInv, Load
<1>2. LatchesOK'
  <2>1. src1 \in LatchAt(regs) /\ src2 \in LatchAt(regs)
    BY DEF TypeInv, LatchesOK
  <2>2. Latched(src1, address) \in LatchAt(regs) /\ Latched(src2, address) \in LatchAt(regs)
    BY <1>0, <2>1, LatchedType DEF TypeInv
  <2>3. src1' \in LatchAt(regs) /\ src2' \in LatchAt(regs)
    BY <2>1, <2>2 DEF Load
  <2>4. dest' \in SourceAt(regs) /\ tmpSrcReg2' \in RegisterAt(regs)
    BY DEF Load, negation, TypeInv, LatchesOK
  <2>5. /\ loadCount' \in Nat /\ accumulationValidityCount' \in Nat
        /\ operation' \in OperationName
    BY DEF Load, TypeInv, LatchesOK, OperationName
  <2> QED BY <1>0, <2>3, <2>4, <2>5, Wider DEF LatchesOK
<1>3. LastOK'
  BY <1>0, Wider DEF LastOK, TypeInv, Load
<1>4. MapAt(instructionMap, regs)'
  <2>1. MapAt(instructionMap, regs + 1)
    BY <1>0, WiderMap DEF TypeInv
  <2> DEFINE entry == Entry("load", TypeOf(v \in Arrays), Null, NoOperand, NoOperand, FALSE)
  <2>2. NoOperand \in LatchAt(regs + 1)
    BY <1>0, EmptyTypes
  <2>3. entry \in EntryAt(regs + 1)
    BY <2>2 DEF Entry, EntryAt, SourceAt, LatchAt, PtrType, TypeOf,
              OperandType, OperationName
  <2>4. MapAt(Insert(instructionMap, v, entry), regs + 1)
    BY <1>0, <2>1, <2>3, InsertMap
  <2>5. instructionMap' \in {instructionMap, Insert(instructionMap, v, entry)}
    BY DEF Load, insertLoadInstruction, insertInstruction, table
  <2> HIDE DEF entry
  <2> QED BY <1>0, <2>1, <2>4, <2>5
<1> QED BY <1>1, <1>2, <1>3, <1>4 DEF TypeInv

(* The stack after an operation, and its operands.                         *)
LEMMA CombineType ==
  ASSUME TypeInv, NEW op, NEW shown, Combine(op, shown)
  PROVE  /\ StreamOK' /\ LastOK' /\ regs' = regs + 1
         /\ loadCount' \in Nat /\ accumulationValidityCount' \in Nat
         /\ Top \in ValueAt(regs) /\ Below \in ValueAt(regs)
<1>0. /\ regs \in Nat /\ regs' = regs + 1
      /\ stack \in Seq(ValueAt(regs)) /\ Len(stack) \in Nat /\ Len(stack) >= 2
  BY DEF TypeInv, StreamOK, Combine
<1>1. Top \in ValueAt(regs) /\ Below \in ValueAt(regs)
  BY <1>0 DEF Top, Below
<1> DEFINE value == Value(regs + 1, regs + 1, "result", Null)
           rest == SubSeq(stack, 1, Len(stack) - 2)
<1>2. regs + 1 \in 1..(regs + 1)
  BY <1>0
<1>3. value \in ValueAt(regs + 1)
  BY <1>2 DEF Value, ValueAt, DefinitionAt, PtrType
<1>4. rest \in Seq(ValueAt(regs))
  BY <1>0
<1>5. rest \in Seq(ValueAt(regs + 1))
  BY <1>0, <1>4, Wider, SeqMonotonic
<1>6. stack' = Append(rest, value)
  BY DEF Combine
<1>7. stack' \in Seq(ValueAt(regs'))
  <2> HIDE DEF value, rest
  <2> QED BY <1>0, <1>3, <1>5, <1>6
<1>8. reaching' \in [Vars -> DefinitionAt(regs')]
  BY <1>0, Wider DEF TypeInv, StreamOK, Combine
<1>9. DOMAIN asked' \subseteq 1..regs'
  <2>1. DOMAIN asked' = DOMAIN asked \cup {regs + 1}
    BY DEF Combine, Insert
  <2> QED BY <1>0, <1>2, <2>1, Wider DEF TypeInv, StreamOK
<1>10. StreamOK'
  BY <1>0, <1>7, <1>8, <1>9 DEF StreamOK, TypeInv, Combine
<1>11. LastOK'
  BY <1>0, Wider DEF LastOK, TypeInv, Combine
<1>12. loadCount' \in Nat /\ accumulationValidityCount' \in Nat
  BY DEF Combine, TypeInv, LatchesOK
<1> QED BY <1>0, <1>1, <1>10, <1>11, <1>12

InsertedOK(n) ==
  /\ src1' \in LatchAt(n) /\ src2' \in LatchAt(n) /\ dest' \in SourceAt(n)
  /\ MapAt(instructionMap', n)

LEMMA InsertBothType ==
  ASSUME TypeInv, NEW op \in OperationName,
         NEW s1 \in LatchAt(regs), NEW s2 \in LatchAt(regs), NEW ptr \in PtrType,
         InsertBoth(op, regs + 1, s1, s2, ptr)
  PROVE  InsertedOK(regs + 1)
<1> DEFINE type == IF IsArrayType(s1.type) \/ IsArrayType(s2.type) THEN "fakeArray"
                   ELSE "singleVariable"
           entry == Entry(op, type, ptr, s1, s2, inLoop)
<1>0. regs \in Nat /\ inLoop \in BOOLEAN /\ regs + 1 \in 1..(regs + 1)
  BY DEF TypeInv, StreamOK
<1>1. type \in OperandType
  BY DEF OperandType
<1>2. src1' = NoOperand /\ src2' = NoOperand /\ dest' = [reg |-> regs + 1, type |-> type, ptr |-> ptr]
  BY DEF InsertBoth
<1>3. dest' \in SourceAt(regs + 1)
  <2> HIDE DEF type
  <2> QED BY <1>0, <1>1, <1>2 DEF SourceAt, RegisterAt
<1>4. src1' \in LatchAt(regs + 1) /\ src2' \in LatchAt(regs + 1)
  BY <1>0, <1>2, EmptyTypes
<1>5. s1 \in LatchAt(regs + 1) /\ s2 \in LatchAt(regs + 1)
  BY <1>0, Wider
<1>6. entry \in EntryAt(regs + 1)
  <2> HIDE DEF type
  <2> QED BY <1>0, <1>1, <1>5 DEF Entry, EntryAt, SourceAt, LatchAt
<1>7. MapAt(instructionMap, regs + 1)
  BY <1>0, WiderMap DEF TypeInv
<1>8. MapAt(Insert(instructionMap, regs + 1, entry), regs + 1)
  BY <1>0, <1>6, <1>7, InsertMap
<1>9. instructionMap' = Insert(instructionMap, regs + 1, entry)
  BY DEF InsertBoth, insertInstruction
<1> QED BY <1>3, <1>4, <1>8, <1>9 DEF InsertedOK

LEMMA HandleType ==
  ASSUME TypeInv, NEW op \in OperationName,
         NEW s1 \in LatchAt(regs), NEW s2 \in LatchAt(regs),
         NEW x \in ValueAt(regs), NEW y \in ValueAt(regs),
         handleInstructionInserting(op, regs + 1, s1, s2, x, y)
  PROVE  InsertedOK(regs + 1)
<1>0. dest \in SourceAt(regs) /\ regs \in Nat
  BY DEF TypeInv, LatchesOK, StreamOK
<1>1. \A isArray \in BOOLEAN : TypeOf(isArray) \in OperandType
  BY DEF TypeOf, OperandType
<1>2. \A l \in LatchAt(regs) : WithLastResult(l) \in LatchAt(regs) /\ Typed(l) \in LatchAt(regs)
  BY <1>0, <1>1 DEF WithLastResult, Typed, LatchAt, SourceAt
<1>3. CASE dest.reg \in {x.ssa, y.ssa}
  <2> DEFINE s == MultiOperand(s1, s2)
  <2>1. s[1] \in LatchAt(regs) /\ s[2] \in LatchAt(regs)
    BY <1>2 DEF MultiOperand
  <2>2. PICK ptr \in MultiOperandPtr(s[1], s[2]) : InsertBoth(op, regs + 1, s[1], s[2], ptr)
    BY <1>3 DEF handleInstructionInserting
  <2>3. ptr \in PtrType
    <3> HIDE DEF s
    <3> QED BY <1>0, <2>1, <2>2 DEF MultiOperandPtr, LatchAt, SourceAt
  <2> HIDE DEF s
  <2> QED BY <2>1, <2>2, <2>3, InsertBothType
<1>4. CASE dest.reg \notin {x.ssa, y.ssa}
  <2>1. /\ x.ssa \in RegisterAt(regs) /\ y.ssa \in RegisterAt(regs)
    BY DEF ValueAt, RegisterAt
  <2>2. \A l \in LatchAt(regs), z \in {x, y} : TwoOperand(l, z) \in LatchAt(regs)
    BY <1>2, <2>1 DEF TwoOperand, LatchAt, OperandType
  <2>3. TwoOperandPtr(s1, s2, x, y) \in PtrType
    BY <1>0 DEF TwoOperandPtr, LatchAt, SourceAt
  <2>4. InsertBoth(op, regs + 1, TwoOperand(s1, x), TwoOperand(s2, y), TwoOperandPtr(s1, s2, x, y))
    BY <1>4 DEF handleInstructionInserting
  <2> QED BY <2>2, <2>3, <2>4, InsertBothType
<1> QED BY <1>3, <1>4

(* Operations that insert, and operations that do not.                     *)
LEMMA OperateType ==
  ASSUME TypeInv, NEW op,
         \/ op \in Ops /\ (Operate(op) \/ OperateNegated(op) \/ OperateSuppressed(op))
         \/ OperateUnknown
  PROVE  TypeInv'
<1>0. /\ regs \in Nat /\ src1 \in LatchAt(regs) /\ src2 \in LatchAt(regs)
      /\ dest \in SourceAt(regs) /\ tmpSrcReg2 \in RegisterAt(regs)
      /\ operation \in OperationName
  BY DEF TypeInv, StreamOK, LatchesOK
<1>1. /\ op \in Ops => op \in OperationName
      /\ op \in DOMAIN Negated => Negated[op] \in OperationName
  BY OpsAssumption DEF OperationName, Negated
<1>2. PICK name, shown : Combine(name, shown)
  BY DEF Operate, OperateNegated, OperateSuppressed, OperateUnknown
<1>3. /\ StreamOK' /\ LastOK' /\ regs' = regs + 1
      /\ loadCount' \in Nat /\ accumulationValidityCount' \in Nat
      /\ Top \in ValueAt(regs) /\ Below \in ValueAt(regs)
  BY <1>2, CombineType
<1>4. operation' \in OperationName
  <2>1. CASE op \in Ops /\ (Operate(op) \/ OperateSuppressed(op))
    BY <1>1, <2>1 DEF Operate, OperateSuppressed
  <2>2. CASE OperateNegated(op)
    BY <1>1, <2>2 DEF OperateNegated, Completes
  <2>3. CASE OperateUnknown
    BY <1>0, <2>3 DEF OperateUnknown
  <2> QED BY <2>1, <2>2, <2>3
<1>5. tmpSrcReg2' = tmpSrcReg2
  BY DEF Operate, OperateNegated, OperateSuppressed, OperateUnknown, negation
<1>6. ASSUME UNCHANGED <<src1, src2, dest, instructionMap>>
      PROVE  InsertedOK(regs + 1)
  BY <1>0, <1>3, <1>6, Wider, WiderMap DEF InsertedOK, TypeInv
<1>7. ASSUME NEW s2 \in LatchAt(regs), NEW o \in OperationName,
             handleInstructionInserting(o, regs + 1, src1, s2, Below, Top)
      PROVE  InsertedOK(regs + 1)
  BY <1>0, <1>3, <1>7, HandleType
<1>8. InsertedOK(regs + 1)
  <2>1. CASE op \in Ops /\ Operate(op)
    BY <1>0, <1>1, <1>7, <2>1 DEF Operate
  <2>2. CASE OperateNegated(op)
    <3>1. [src2 EXCEPT !.reg = tmpSrcReg2] \in LatchAt(regs)
      BY <1>0 DEF LatchAt
    <3> QED BY <1>0, <1>1, <1>7, <2>2, <3>1 DEF OperateNegated, Completes
  <2>3. CASE OperateSuppressed(op)
    BY <1>6, <2>3 DEF OperateSuppressed, table
  <2>4. CASE OperateUnknown
    BY <1>0, <1>6, <1>7, <2>4 DEF OperateUnknown, table
  <2> QED BY <2>1, <2>2, <2>3, <2>4
<1>9. LatchesOK'
  BY <1>0, <1>3, <1>4, <1>5, <1>8, Wider DEF LatchesOK, InsertedOK
<1> QED BY <1>3, <1>8, <1>9 DEF TypeInv, InsertedOK

LEMMA ComplementType ==
  ASSUME TypeInv, NEW op, Complement(op)
  PROVE  TypeInv'
<1>0. /\ regs \in Nat /\ regs' = regs + 1 /\ op \in {"xor", "or"}
      /\ stack \in Seq(ValueAt(regs)) /\ stack # << >>
  BY DEF TypeInv, StreamOK, Complement
<1> DEFINE value == Value(regs + 1, regs + 1, "result", Null)
<1>1. regs + 1 \in 1..(regs + 1)
  BY <1>0
<1>2. value \in ValueAt(regs + 1)
  BY <1>1 DEF Value, ValueAt, DefinitionAt, PtrType
<1>3. stack \in Seq(ValueAt(regs + 1))
  BY <1>0, Wider, SeqMonotonic
<1>4. stack' = [stack EXCEPT ![Len(stack)] = value]
  BY DEF Complement
<1>5. stack' \in Seq(ValueAt(regs'))
  <2> HIDE DEF value
  <2> QED BY <1>0, <1>2, <1>3, <1>4
<1>6. reaching' \in [Vars -> DefinitionAt(regs')]
  BY <1>0, Wider DEF TypeInv, StreamOK, Complement
<1>7. DOMAIN asked' \subseteq 1..regs'
  <2>1. DOMAIN asked' = DOMAIN asked \cup {regs + 1}
    BY DEF Complement, Insert
  <2> QED BY <1>0, <1>1, <2>1, Wider DEF TypeInv, StreamOK
<1>8. StreamOK'
  BY <1>0, <1>5, <1>6, <1>7 DEF StreamOK, TypeInv, Complement
<1>9. LatchesOK'
  <2>1. Top \in ValueAt(regs)
    BY <1>0 DEF Top
  <2>2. Top.ssa \in RegisterAt(regs)
    BY <2>1 DEF ValueAt, RegisterAt
  <2>3. tmpSrcReg2' \in RegisterAt(regs)
    BY <2>2 DEF Complement, TypeInv, LatchesOK
  <2>4. operation' \in OperationName
    BY <1>0 DEF Complement, OperationName, Opcodes
  <2> QED BY <1>0, <2>3, <2>4, Wider DEF LatchesOK, TypeInv, Complement
<1>10. LastOK'
  BY <1>0, Wider DEF LastOK, TypeInv, Complement
<1>11. MapAt(instructionMap, regs)'
  BY <1>0, WiderMap DEF TypeInv, Complement, table
<1> QED BY <1>8, <1>9, <1>10, <1>11 DEF TypeInv

LEMMA PushConstantType ==
  ASSUME TypeInv, PushConstant
  PROVE  TypeInv'
<1> DEFINE value == Value(Number, Number, "constant", Null)
<1>1. value \in ValueAt(regs)
  BY DEF Value, ValueAt, DefinitionAt, PtrType
<1>2. stack' = Append(stack, value)
  BY DEF PushConstant, Push
<1>3. stack' \in Seq(ValueAt(regs))
  <2> HIDE DEF value
  <2> QED BY <1>1, <1>2 DEF TypeInv, StreamOK
<1> QED BY <1>3 DEF TypeInv, StreamOK, LatchesOK, LastOK, PushConstant, latches, negation, table

(* What a store does to entries: never more than change fields.            *)
LEMMA StoreMaps ==
  ASSUME NEW n, NEW map, MapAt(map, n), NEW reg, NEW address \in Scalars \cup Pointers
  PROVE  /\ MapAt(SetDest(map, reg, StoreType(address), StorePtr(address)), n)
         /\ MapAt(CopyInto(map, reg, address), n)
         /\ \A k \in DOMAIN map : Accumulate(map[k], address) \in EntryAt(n)
<1>1. StoreType(address) \in OperandType /\ StorePtr(address) \in PtrType
  BY DEF StoreType, StorePtr, TypeOf, OperandType, PtrType
<1> DEFINE dest1 == SetDest(map, reg, StoreType(address), StorePtr(address))
<1>2. \A k \in DOMAIN map : map[k] \in EntryAt(n)
  BY DEF MapAt
<1>3. ASSUME NEW e \in EntryAt(n)
      PROVE  [e EXCEPT !.destRegType = StoreType(address), !.destRegPtr = StorePtr(address)]
               \in EntryAt(n)
  BY <1>1 DEF EntryAt
<1>4. DOMAIN dest1 = DOMAIN map /\ \A k \in DOMAIN map : dest1[k] \in EntryAt(n)
  BY <1>2, <1>3 DEF SetDest
<1>5. MapAt(dest1, n)
  BY <1>4 DEF MapAt, SetDest
<1>6. ASSUME NEW e \in EntryAt(n)
      PROVE  [e EXCEPT !.src2.type = StoreType(address)] \in EntryAt(n)
  BY <1>1 DEF EntryAt, SourceAt
<1>7. MapAt(CopyInto(map, reg, address), n)
  <2>1. CopyInto(map, reg, address) =
          [k \in DOMAIN map |-> IF k = reg THEN [dest1[k] EXCEPT !.src2.type = StoreType(address)]
                                ELSE dest1[k]]
    BY DEF CopyInto
  <2> HIDE DEF dest1
  <2> QED BY <1>4, <1>6, <2>1 DEF MapAt
<1>8. ASSUME NEW e \in EntryAt(n) PROVE Accumulate(e, address) \in EntryAt(n)
  BY <1>1 DEF Accumulate, EntryAt
<1> QED BY <1>2, <1>5, <1>7, <1>8

LEMMA EndStatementType ==
  ASSUME TypeInv, NEW address \in Scalars \cup Pointers,
         NEW definition \in RegisterAt(regs), EndStatement(address, definition)
  PROVE  /\ \A k \in DOMAIN lastUsedRegMap' : k \in Vars /\ lastUsedRegMap'[k] \in RegisterAt(regs)
         /\ src1' \in LatchAt(regs) /\ src2' \in LatchAt(regs) /\ dest' \in SourceAt(regs)
         /\ loadCount' \in Nat /\ accumulationValidityCount' \in Nat
         /\ operation' \in OperationName
<1>1. getAllocatedReg(address) \in Vars
  BY DEF getAllocatedReg, Vars, Pointers
<1>2. NoOperand \in LatchAt(regs) /\ NoDest \in SourceAt(regs)
  BY EmptyTypes DEF TypeInv, StreamOK
<1>3. \A k \in DOMAIN lastUsedRegMap' : k \in Vars /\ lastUsedRegMap'[k] \in RegisterAt(regs)
  BY <1>1 DEF EndStatement, Assign, TypeInv, LastOK
<1> QED BY <1>2, <1>3 DEF EndStatement, OperationName

LEMMA StoreTypes ==
  ASSUME TypeInv, NEW address \in Scalars \cup Pointers, handleStoreInstruction(address)
  PROVE  TypeInv'
<1>0. /\ regs \in Nat /\ stack \in Seq(ValueAt(regs)) /\ dest \in SourceAt(regs)
      /\ MapAt(instructionMap, regs)
  BY DEF TypeInv, StreamOK, LatchesOK
<1>1. /\ StoredValue(address)
      /\ regs' = regs /\ tmpSrcReg2' = tmpSrcReg2
  BY DEF handleStoreInstruction, StoreIgnored, StoreResult, StoreCopy, StoreUnloaded,
         StoreAccumulation, StoreUndefined, StoredValue, negation
<1>2. Top \in ValueAt(regs)
  <2>1. Len(stack) >= 1
    BY <1>1 DEF StoredValue
  <2> QED BY <1>0, <2>1, LastElement DEF Top
<1>3. StreamOK'
  <2>1. getAllocatedReg(address) \in Vars
    BY DEF getAllocatedReg, Vars, Pointers
  <2>2. reaching' \in [Vars -> DefinitionAt(regs)]
    BY <1>1, <1>2, <2>1 DEF StoredValue, TypeInv, StreamOK, ValueAt
  <2>3. stack' \in Seq(ValueAt(regs))
    BY <1>0, <1>1 DEF StoredValue
  <2> QED BY <1>1, <2>2, <2>3 DEF StoredValue, StreamOK, TypeInv
<1>4. dest.reg \in RegisterAt(regs) /\ Top.ssa \in RegisterAt(regs)
  BY <1>0, <1>2 DEF SourceAt, ValueAt, RegisterAt
<1>5. LatchesOK' /\ LastOK'
  <2>1. CASE UNCHANGED <<latches, lastUsedRegMap>>
    BY <1>1, <2>1 DEF latches, TypeInv, LatchesOK, LastOK
  <2>2. ASSUME NEW definition \in RegisterAt(regs), EndStatement(address, definition)
        PROVE  LatchesOK' /\ LastOK'
    BY <1>1, <2>2, EndStatementType DEF LatchesOK, LastOK, TypeInv
  <2>3. CASE StoreIgnored(address)
    <3>1. dest' \in SourceAt(regs)
      <4>1. address \in Pointers => address \in PtrType
        BY DEF PtrType
      <4>2. dest' = dest \/ (dest' = [dest EXCEPT !.ptr = address] /\ address \in Pointers)
        BY <1>0, <2>3 DEF StoreIgnored, SourceAt
      <4> QED BY <1>0, <4>1, <4>2 DEF SourceAt
    <3>2. UNCHANGED <<src1, src2, operation, loadCount, accumulationValidityCount,
                      tmpAccumulationOp, lastUsedRegMap>>
      BY <2>3 DEF StoreIgnored
    <3> QED BY <1>1, <3>1, <3>2 DEF TypeInv, LatchesOK, LastOK
  <2> QED BY <1>4, <2>1, <2>2, <2>3 DEF handleStoreInstruction, StoreResult, StoreCopy,
             StoreUnloaded, StoreAccumulation, StoreUndefined
<1>6. MapAt(instructionMap', regs)
  <2>1. CASE UNCHANGED instructionMap
    BY <1>0, <2>1
  <2>2. CASE StoreResult(address) \/ StoreCopy(address)
    BY <1>0, <2>2, StoreMaps DEF StoreResult, StoreCopy
  <2>3. CASE StoreAccumulation(address)
    BY <1>0, <2>3, StoreMaps DEF StoreAccumulation, MapAt
  <2> QED BY <2>1, <2>2, <2>3 DEF handleStoreInstruction, StoreIgnored, StoreUnloaded, StoreUndefined
<1> QED BY <1>1, <1>3, <1>5, <1>6 DEF TypeInv

LEMMA NextType ==
  ASSUME TypeInv, [Next]_vars PROVE TypeInv'
<1>1. CASE UNCHANGED vars
  BY <1>1 DEF vars, block, latches, negation, table, TypeInv, StreamOK, LatchesOK, LastOK
<1>2. CASE NextBlock
  BY <1>2 DEF NextBlock, latches, negation, table, TypeInv, StreamOK, LatchesOK, LastOK
<1>3. CASE Finish
  BY <1>3 DEF Finish, block, latches, negation, table, TypeInv, StreamOK, LatchesOK, LastOK
<1>4. CASE PushConstant
  BY <1>4, PushConstantType
<1>5. ASSUME NEW address \in Scalars \cup Pointers,
             Load(address) \/ handleStoreInstruction(address)
      PROVE  TypeInv'
  BY <1>5, LoadType, StoreTypes
<1>6. ASSUME NEW op \in Ops,
             Operate(op) \/ OperateNegated(op) \/ OperateSuppressed(op) \/ Complement(op)
      PROVE  TypeInv'
  BY <1>6, OperateType, ComplementType
<1>7. CASE OperateUnknown
  BY <1>7, OperateType
<1> QED BY <1>1, <1>2, <1>3, <1>4, <1>5, <1>6, <1>7 DEF Next

LEMMA TypeInvariance == Spec => []TypeInv
<1>1. Init => TypeInv
  BY InitType
<1>2. TypeInv /\ [Next]_vars => TypeInv'
  BY NextType
<1> QED BY <1>1, <1>2, PTL DEF Spec

(* Every variable of the detector keeps the type of the member it stands   *)
(* for, whatever the instruction stream is.                                *)
THEOREM TypeCorrect == Spec => []TypeOK
<1>1. TypeInv => TypeOK
  <2> SUFFICES ASSUME TypeInv PROVE TypeOK
    OBVIOUS
  <2>1. ValueAt(regs) \subseteq ValueType
    BY DEF ValueAt, ValueType, DefinitionAt, Definition
  <2>2. stack \in Seq(ValueType)
    BY <2>1, SeqMonotonic DEF TypeInv, StreamOK
  <2>3. RegisterAt(regs) = Register /\ DefinitionAt(regs) = Definition
        /\ SourceAt(regs) = SourceType
    BY DEF RegisterAt, Register, DefinitionAt, Definition, SourceAt, SourceType
  <2>4. \A k \in DOMAIN instructionMap :
          /\ k \in Vars \cup 1..regs
          /\ instructionMap[k].src1 \in SourceType
          /\ instructionMap[k].src2 \in SourceType
          /\ instructionMap[k].destRegPtr \in PtrType
    BY <2>3 DEF TypeInv, MapAt, EntryAt
  <2>5. /\ src1 \in [reg : Register, type : OperandType, ptr : PtrType, isArray : BOOLEAN]
        /\ src2 \in [reg : Register, type : OperandType, ptr : PtrType, isArray : BOOLEAN]
        /\ dest \in [reg : Register, type : OperandType, ptr : PtrType]
    BY <2>3 DEF TypeInv, LatchesOK, LatchAt, SourceAt
  <2> QED BY <2>2, <2>3, <2>4, <2>5 DEF TypeOK, TypeInv, StreamOK, LatchesOK, LastOK
<1> QED BY <1>1, TypeInvariance, PTL

-----------------------------------------------------------------------------
LEMMA InitPlain == Init => PlainInv
<1> SUFFICES ASSUME Init PROVE PlainBody
  BY DEF PlainInv
<1>1. stack = << >> /\ asked = EmptyMap /\ lastUsedRegMap = EmptyMap
      /\ reaching = [v \in Vars |-> v] /\ isNegated = FALSE
  BY DEF Init
<1>2. DefinitionsFollowed
  BY <1>1 DEF DefinitionsFollowed, getRealSrcReg, EmptyMap
<1>3. AllKept
  BY <1>1 DEF AllKept, EmptyMap
<1>4. Statement
  BY DEF Init, Statement, Between, NoDest
<1> QED BY <1>1, <1>2, <1>3, <1>4 DEF PlainBody

(* What a load puts into a free latch is the value it loads.               *)
LEMMA LatchedHolds ==
  ASSUME TypeInv, DefinitionsFollowed, NEW address \in Scalars \cup Pointers, NEW ssa
  PROVE  LET v == getAllocatedReg(address) IN
         Holds(Latched(NoOperand, address),
               Value(ssa, reaching[v], TypeOf(v \in Arrays),
                     IF v \in Arrays THEN address ELSE Null))
<1> DEFINE v == getAllocatedReg(address)
<1>1. v \in Vars /\ (address \in Pointers <=> v \in Arrays)
  BY Names DEF getAllocatedReg, Vars, Pointers
<1>2. getRealSrcReg(v) = reaching[v]
  BY <1>1 DEF DefinitionsFollowed
<1>3. Latched(NoOperand, address) =
        IF v \in Arrays
        THEN [NoOperand EXCEPT !.reg = reaching[v], !.ptr = address, !.isArray = TRUE]
        ELSE [NoOperand EXCEPT !.reg = reaching[v]]
  BY <1>1, <1>2 DEF Latched
<1> QED BY <1>3 DEF Holds, Value, TypeOf, NoOperand

LEMMA LoadPlain ==
  ASSUME TypeInv, PlainInv, NEW address \in Scalars \cup Pointers, Load(address)
  PROVE  PlainInv'
<1> SUFFICES ASSUME plain' PROVE PlainBody'
  BY DEF PlainInv
<1> DEFINE v == getAllocatedReg(address)
           value == Value(regs + 1, reaching[v], TypeOf(v \in Arrays),
                          IF v \in Arrays THEN address ELSE Null)
<1>1. plain /\ Len(stack) < 2
  BY DEF Load, plain
<1>2. PlainBody
  BY <1>1 DEF PlainInv
<1>3. /\ stack \in Seq(ValueAt(regs)) /\ Len(stack) \in Nat /\ regs \in Nat /\ loadCount \in Nat
      /\ v \in Vars
  BY DEF TypeInv, StreamOK, LatchesOK, getAllocatedReg, Vars, Pointers
<1>a. stack # << >> => Len(stack) = 1
  <2>1. stack = << >> <=> Len(stack) = 0
    BY <1>3, Lengths
  <2>2. Len(stack) \in Nat /\ Len(stack) < 2
    BY <1>1, <1>3
  <2>3. Len(stack) = 0 \/ Len(stack) = 1
    BY <2>2, OneOrTwo, Zenon
  <2> QED BY <2>1, <2>3, Zenon
<1>4. /\ stack' = Append(stack, value) /\ loadCount' = loadCount + 1 /\ dest' = dest
      /\ UNCHANGED <<reaching, asked, lastUsedRegMap, isNegated>>
  BY DEF Load, Push, negation
<1>5. IsLoaded(value)
  BY <1>3 DEF IsLoaded, Value, TypeOf
<1>6. Holds(Latched(NoOperand, address), value)
  BY <1>2, LatchedHolds DEF PlainBody
<1>7. DefinitionsFollowed'
  BY <1>2, <1>4 DEF PlainBody, DefinitionsFollowed, getRealSrcReg
<1>8. AllKept'
  <2>1. instructionMap' = instructionMap
        \/ \E e : instructionMap' = Insert(instructionMap, v, e)
    BY DEF Load, insertLoadInstruction, insertInstruction, table
  <2>2. \A r \in DOMAIN instructionMap :
          r \in DOMAIN instructionMap' /\ instructionMap'[r] = instructionMap[r]
    BY <2>1 DEF Insert
  <2> QED BY <1>2, <1>4, <2>2 DEF PlainBody, AllKept
<1>9. /\ loadCount % 2 = 0 => src1' = Latched(src1, address) /\ src2' = src2
      /\ loadCount % 2 # 0 => src2' = Latched(src2, address) /\ src1' = src1
  BY DEF Load
<1>10. Statement'
  <2> HIDE DEF value
  <2>1. CASE stack = << >>
    <3>1. src1 = NoOperand /\ src2 = NoOperand /\ dest.reg = Null /\ loadCount = 0
      BY <1>2, <2>1 DEF PlainBody, Statement, Between
    <3>2. stack' = <<value>> /\ Len(stack') = 1 /\ stack'[1] = value /\ stack' # << >>
      BY <1>4, <2>1
    <3>3. src1' = Latched(NoOperand, address) /\ src2' = NoOperand
      BY <1>9, <3>1
    <3>4. FirstOperands'
      BY <1>4, <1>5, <1>6, <3>1, <3>2, <3>3 DEF FirstOperands
    <3> QED BY <1>5, <3>2, <3>4 DEF Statement, IsLoaded
  <2>2. CASE stack # << >>
    <3>1. Len(stack) = 1
      BY <1>a, <2>2
    <3>2. /\ Len(stack') = 2 /\ stack'[1] = stack[1] /\ stack'[2] = value /\ stack' # << >>
      <4>1. /\ stack' # << >> /\ Len(stack') = Len(stack) + 1
            /\ \A k \in 1..Len(stack) : stack'[k] = stack[k]
            /\ stack'[Len(stack) + 1] = value
        BY <1>3, <1>4, Appended
      <4> QED BY <3>1, <4>1
    <3>3. CASE stack[1].type = "result"
      <4>1. /\ dest.reg = stack[1].reg /\ dest.reg = stack[1].ssa
            /\ \A w \in Vars : reaching[w] # dest.reg
            /\ src1 = NoOperand /\ src2 = NoOperand /\ loadCount >= 2
        BY <1>2, <2>2, <3>1, <3>3 DEF PlainBody, Statement, Continued
      <4>2. value.reg # stack[1].reg
        BY <1>3, <4>1 DEF value, Value
      <4>3. CASE loadCount % 2 = 0
        <5>1. loadCount' % 2 = 1 /\ loadCount' > 2
          BY <1>3, <1>4, <4>1, <4>3
        <5>2. Holds(src1', value) /\ src2' = NoOperand
          BY <1>6, <1>9, <4>1, <4>3
        <5>3. NextOperand'
          BY <1>5, <3>2, <4>2, <5>1, <5>2 DEF NextOperand
        <5>4. Continued'
          BY <1>4, <3>2, <4>1, <5>3 DEF Continued
        <5> QED BY <3>2, <3>3, <5>4 DEF Statement
      <4>4. CASE loadCount % 2 # 0
        <5>1. loadCount' % 2 # 1 /\ loadCount' > 2
          BY <1>3, <1>4, <4>1, <4>4
        <5>2. Holds(src2', value) /\ src1' = NoOperand
          BY <1>6, <1>9, <4>1, <4>4
        <5>3. NextOperand'
          BY <1>5, <3>2, <4>2, <5>1, <5>2 DEF NextOperand
        <5>4. Continued'
          BY <1>4, <3>2, <4>1, <5>3 DEF Continued
        <5> QED BY <3>2, <3>3, <5>4 DEF Statement
      <4> QED BY <4>3, <4>4
    <3>4. CASE stack[1].type # "result"
      <4>1. /\ dest.reg = Null /\ loadCount = 1 /\ IsLoaded(stack[1])
            /\ Holds(src1, stack[1]) /\ src2 = NoOperand
        BY <1>2, <2>2, <3>1, <3>4 DEF PlainBody, Statement, FirstOperands
      <4>2. src2' = Latched(NoOperand, address) /\ src1' = src1
        BY <1>9, <4>1
      <4>3. FirstOperands'
        BY <1>4, <1>5, <1>6, <3>2, <4>1, <4>2 DEF FirstOperands
      <4> QED BY <3>2, <3>4, <4>3 DEF Statement
    <3> QED BY <3>3, <3>4
  <2> QED BY <2>1, <2>2
<1>11. ~isNegated' /\ Len(stack') <= 2
  BY <1>1, <1>2, <1>3, <1>4 DEF PlainBody
<1> QED BY <1>7, <1>8, <1>10, <1>11 DEF PlainBody

(* The entry an operation of such a program gets, and what it answers.     *)
LEMMA OperandsOfPlain ==
  ASSUME TypeInv, PlainBody, Len(stack) = 2, NEW op,
         handleInstructionInserting(op, regs + 1, src1, src2, Below, Top)
  PROVE  \E s1, s2, ptr :
           /\ InsertBoth(op, regs + 1, s1, s2, ptr)
           /\ \/ /\ Records(s1, Below) /\ Records(s2, Top)
                 /\ loadCount % 2 = 0
              \/ /\ Records(s2, Below) /\ Records(s1, Top)
                 /\ loadCount % 2 = 1
           /\ loadCount >= 2
           /\ loadCount > 2 => Below.reg # Top.reg
<1>1. /\ Below = stack[1] /\ Top = stack[2]
      /\ stack[1] \in ValueAt(regs) /\ stack[2] \in ValueAt(regs)
      /\ stack # << >> /\ loadCount \in Nat
  <2>1. stack \in Seq(ValueAt(regs)) /\ loadCount \in Nat
    BY DEF TypeInv, StreamOK, LatchesOK
  <2> QED BY <2>1, Pair DEF Below, Top
<1>3. CASE stack[1].type # "result"
  <2>1. /\ dest.reg = Null /\ loadCount = 2
        /\ IsLoaded(stack[1]) /\ Holds(src1, stack[1])
        /\ IsLoaded(stack[2]) /\ Holds(src2, stack[2])
    BY <1>1, <1>3 DEF PlainBody, Statement, FirstOperands
  <2>2. /\ stack[1].ssa \in Nat /\ stack[2].ssa \in Nat
    BY <2>1 DEF IsLoaded
  <2>3. /\ dest.reg \notin {Below.ssa, Top.ssa} /\ ~IsConstant(Below) /\ ~IsConstant(Top)
    BY <1>1, <2>1, <2>2, Names DEF IsConstant
  <2>4. InsertBoth(op, regs + 1, Typed(src1), Typed(src2), TwoOperandPtr(src1, src2, Below, Top))
    BY <2>3 DEF handleInstructionInserting, TwoOperand
  <2>5. src1 \in LatchAt(regs) /\ src2 \in LatchAt(regs)
    BY DEF TypeInv, LatchesOK
  <2>6. Records(Typed(src1), Below) /\ Records(Typed(src2), Top)
    BY <1>1, <2>1, <2>5 DEF Records, Typed, TypeOf, Holds, IsLoaded, LatchAt
  <2>7. loadCount % 2 = 0 /\ loadCount >= 2 /\ ~(loadCount > 2)
    BY <2>1
  <2> QED BY <2>4, <2>6, <2>7
<1>4. CASE stack[1].type = "result"
  <2>1. /\ dest.reg = stack[1].reg /\ dest.reg = stack[1].ssa
        /\ IsLoaded(stack[2]) /\ loadCount > 2 /\ stack[2].reg # stack[1].reg
        /\ IF loadCount % 2 = 1 THEN Holds(src1, stack[2]) /\ src2 = NoOperand
           ELSE Holds(src2, stack[2]) /\ src1 = NoOperand
    BY <1>1, <1>4 DEF PlainBody, Statement, Continued, NextOperand
  <2> DEFINE s == MultiOperand(src1, src2)
  <2>2. PICK ptr : InsertBoth(op, regs + 1, s[1], s[2], ptr)
    BY <1>1, <2>1 DEF handleInstructionInserting
  <2>3. src1 \in LatchAt(regs) /\ src2 \in LatchAt(regs)
    BY DEF TypeInv, LatchesOK
  <2>4. \A l \in LatchAt(regs) : Records(WithLastResult(l), Below)
    BY <1>1, <1>4, <2>1 DEF WithLastResult, Records, LatchAt
  <2>5. \A l \in LatchAt(regs) : Holds(l, stack[2]) => Records(Typed(l), Top) /\ l.reg # Null
    BY <1>1, <2>1, Names DEF Holds, Typed, TypeOf, Records, LatchAt, IsLoaded, ValueAt, DefinitionAt
  <2>6. loadCount >= 2
    BY <1>1, <2>1
  <2>7. CASE loadCount % 2 = 1
    <3>1. s = <<Typed(src1), WithLastResult(src2)>>
      BY <2>1, <2>3, <2>5, <2>7 DEF MultiOperand, NoOperand
    <3>2. Records(s[2], Below) /\ Records(s[1], Top)
      BY <2>1, <2>3, <2>4, <2>5, <2>7, <3>1
    <3> HIDE DEF s
    <3> QED BY <1>1, <2>1, <2>2, <2>6, <2>7, <3>2
  <2>8. CASE loadCount % 2 # 1
    <3>1. s = <<WithLastResult(src1), Typed(src2)>>
      BY <2>1, <2>8 DEF MultiOperand, NoOperand
    <3>2. Records(s[1], Below) /\ Records(s[2], Top)
      BY <2>1, <2>3, <2>4, <2>5, <2>8, <3>1
    <3>3. loadCount % 2 = 0
      BY <1>1, <2>8
    <3> HIDE DEF s
    <3> QED BY <1>1, <2>1, <2>2, <2>6, <3>2, <3>3
  <2> QED BY <2>7, <2>8
<1> QED BY <1>3, <1>4

LEMMA OperatePlain ==
  ASSUME TypeInv, PlainInv, NEW op \in Ops, Operate(op)
  PROVE  PlainInv'
<1> SUFFICES ASSUME plain' PROVE PlainBody'
  BY DEF PlainInv
<1>1. plain /\ PlainBody
  BY DEF Operate, PlainInv, plain
<1>2. /\ stack \in Seq(ValueAt(regs)) /\ Len(stack) \in Nat /\ regs \in Nat
      /\ DOMAIN asked \subseteq 1..regs /\ reaching \in [Vars -> DefinitionAt(regs)]
      /\ DOMAIN instructionMap \subseteq Vars \cup 1..regs
  BY DEF TypeInv, StreamOK, MapAt
<1>3. Len(stack) = 2
  <2>1. Len(stack) >= 2
    BY DEF Operate, Combine
  <2>2. Len(stack) <= 2
    BY <1>1 DEF PlainBody
  <2> QED BY <1>2, <2>1, <2>2, OneOrTwo, Zenon
<1> DEFINE value == Value(regs + 1, regs + 1, "result", Null)
           q == [operation |-> op, x |-> Below, y |-> Top]
<1>4. stack' = <<value>>
  <2>1. stack' = Append(SubSeq(stack, 1, Len(stack) - 2), value)
    BY DEF Operate, Combine
  <2>2. SubSeq(stack, 1, Len(stack) - 2) = << >>
    BY <1>2, <1>3, Pair
  <2>3. stack' = Append(<< >>, value)
    BY <2>1, <2>2, Zenon
  <2> HIDE DEF value
  <2>4. Append(<< >>, value) = <<value>>
    OBVIOUS
  <2> QED BY <2>3, <2>4
<1>5. /\ asked' = Insert(asked, regs + 1, q) /\ operation' = op
      /\ UNCHANGED <<reaching, loadCount, lastUsedRegMap, isNegated>>
  BY DEF Operate, Combine, negation
<1>6. PICK s1, s2, ptr :
        /\ InsertBoth(op, regs + 1, s1, s2, ptr)
        /\ \/ /\ Records(s1, Below) /\ Records(s2, Top) /\ loadCount % 2 = 0
           \/ /\ Records(s2, Below) /\ Records(s1, Top) /\ loadCount % 2 = 1
        /\ loadCount >= 2 /\ (loadCount > 2 => Below.reg # Top.reg)
  BY <1>1, <1>3, OperandsOfPlain DEF Operate
<1>7. PICK type : /\ dest' = [reg |-> regs + 1, type |-> type, ptr |-> ptr]
                  /\ instructionMap' = Insert(instructionMap, regs + 1,
                                              Entry(op, type, ptr, s1, s2, inLoop))
                  /\ src1' = NoOperand /\ src2' = NoOperand
  BY <1>6 DEF InsertBoth, insertInstruction
<1> DEFINE e == Entry(op, type, ptr, s1, s2, inLoop)
<1>8. regs + 1 \notin DOMAIN asked /\ regs + 1 \notin DOMAIN instructionMap
  BY <1>2, Names
<1>9. /\ DOMAIN asked' = DOMAIN asked \cup {regs + 1} /\ asked'[regs + 1] = q
      /\ \A r \in DOMAIN asked : asked'[r] = asked[r]
  <2> HIDE DEF q
  <2> QED BY <1>5, <1>8 DEF Insert
<1>10. /\ regs + 1 \in DOMAIN instructionMap' /\ instructionMap'[regs + 1] = e
       /\ \A r \in DOMAIN instructionMap :
             r \in DOMAIN instructionMap' /\ instructionMap'[r] = instructionMap[r]
  <2> HIDE DEF e
  <2> QED BY <1>7, <1>8 DEF Insert, e
<1>11. KeptBy(e, q)
  <2>1. e.operation = q.operation /\ q.x = Below /\ q.y = Top
    BY DEF Entry
  <2>2. \A v : /\ Records(e.src1, v) <=> Records(s1, v)
               /\ Records(e.src2, v) <=> Records(s2, v)
    BY DEF Entry, Records
  <2> HIDE DEF e, q
  <2> QED BY <1>6, <2>1, <2>2 DEF KeptBy
<1>12. AllKept'
  <2> HIDE DEF e, q
  <2>1. \A r \in DOMAIN asked : r \in DOMAIN instructionMap /\ KeptBy(instructionMap[r], asked[r])
    BY <1>1 DEF PlainBody, AllKept
  <2>2. \A r \in DOMAIN asked :
          r \in DOMAIN instructionMap' /\ KeptBy(instructionMap'[r], asked'[r])
    BY <1>9, <1>10, <2>1
  <2>3. regs + 1 \in DOMAIN instructionMap' /\ KeptBy(instructionMap'[regs + 1], asked'[regs + 1])
    BY <1>9, <1>10, <1>11
  <2> QED BY <1>9, <2>2, <2>3 DEF AllKept
<1>13. LastResult'
  <2>1. dest'.reg = regs + 1
    BY <1>7
  <2>2. IF loadCount % 2 = 1 THEN Crossed(e, q) ELSE Straight(e, q)
    BY <1>6 DEF Crossed, Straight, Entry, Records
  <2>3. loadCount > 2 => q.x.reg # q.y.reg
    BY <1>6
  <2> HIDE DEF e, q
  <2> QED BY <1>5, <1>9, <1>10, <2>1, <2>2, <2>3 DEF LastResult
<1>14. Statement'
  <2>1. /\ Len(stack') = 1 /\ stack'[1] = value /\ stack' # << >>
    BY <1>4
  <2>2. value.type = "result" /\ value.reg = regs + 1 /\ value.ssa = regs + 1
    BY DEF Value
  <2>3. \A v \in Vars : reaching[v] # regs + 1
    BY <1>2, Names DEF DefinitionAt
  <2>4. op \notin {"null", "load"}
    BY OpsAssumption DEF Opcodes
  <2> HIDE DEF value
  <2>5. Continued'
    BY <1>5, <1>6, <1>7, <1>13, <2>1, <2>2, <2>3, <2>4 DEF Continued
  <2> QED BY <2>1, <2>2, <2>5 DEF Statement
<1>15. DefinitionsFollowed'
  BY <1>1, <1>5 DEF PlainBody, DefinitionsFollowed, getRealSrcReg
<1>16. ~isNegated' /\ Len(stack') <= 2
  BY <1>1, <1>4, <1>5 DEF PlainBody
<1> QED BY <1>12, <1>14, <1>15, <1>16 DEF PlainBody

(* What a store does to an entry leaves it an answer to what was asked.    *)
LEMMA StillKept ==
  ASSUME NEW n, NEW map, MapAt(map, n), NEW address \in Scalars \cup Pointers, NEW reg,
         NEW r \in DOMAIN map, NEW q, KeptBy(map[r], q)
  PROVE  /\ KeptBy(SetDest(map, reg, StoreType(address), StorePtr(address))[r], q)
         /\ KeptBy(Accumulate(map[r], address), q)
<1>1. map[r] \in EntryAt(n)
  BY DEF MapAt
<1> DEFINE changed == SetDest(map, reg, StoreType(address), StorePtr(address))[r]
<1>2. /\ changed.operation = map[r].operation
      /\ changed.src1 = map[r].src1 /\ changed.src2 = map[r].src2
  BY <1>1 DEF SetDest, EntryAt
<1>3. Accumulate(map[r], address).operation = map[r].operation
  BY <1>1 DEF Accumulate, EntryAt
<1>4. \/ /\ Accumulate(map[r], address).src1 = map[r].src1
         /\ Accumulate(map[r], address).src2 = map[r].src2
      \/ /\ Accumulate(map[r], address).src1 = map[r].src2
         /\ Accumulate(map[r], address).src2 = map[r].src1
  BY <1>1 DEF Accumulate, EntryAt
<1> HIDE DEF changed
<1>5. KeptBy(changed, q)
  BY <1>2 DEF KeptBy
<1>6. KeptBy(Accumulate(map[r], address), q)
  BY <1>3, <1>4 DEF KeptBy
<1> QED BY <1>5, <1>6 DEF changed

(* When a value is stored in such a program, it is the last result.        *)
LEMMA ResultStored ==
  ASSUME TypeInv, PlainBody, NEW address, StoredValue(address), loadCount # 1
  PROVE  /\ Top = stack[1] /\ dest.reg = Top.reg
         /\ loadCount >= 2 /\ operation \notin {"null", "load"} /\ LastResult
<1>1. stack \in Seq(ValueAt(regs)) /\ Len(stack) = 1 /\ Top = stack[1]
  BY DEF TypeInv, StreamOK, StoredValue, Top
<1>2. stack # << >>
  <2>1. stack = << >> <=> Len(stack) = 0
    BY <1>1, Lengths
  <2>2. Len(stack) # 0
    BY <1>1
  <2> QED BY <2>1, <2>2, Zenon
<1>3. stack[1].type = "result"
  <2> SUFFICES ASSUME stack[1].type # "result" PROVE FALSE
    OBVIOUS
  <2>1. loadCount = Len(stack)
    BY <1>2 DEF PlainBody, Statement, FirstOperands
  <2> QED BY <1>1, <2>1
<1>4. Continued
  BY <1>2, <1>3 DEF PlainBody, Statement
<1> QED BY <1>1, <1>4 DEF Continued

LEMMA StorePlain ==
  ASSUME TypeInv, PlainInv, NEW address \in Scalars \cup Pointers,
         handleStoreInstruction(address)
  PROVE  PlainInv'
<1> SUFFICES ASSUME plain' PROVE PlainBody'
  BY DEF PlainInv
<1>1. /\ StoredValue(address) /\ UNCHANGED <<asked, isNegated>>
  BY DEF handleStoreInstruction, StoreIgnored, StoreResult, StoreCopy, StoreUnloaded,
         StoreAccumulation, StoreUndefined, StoredValue, negation
<1>2. PICK kept \in {FALSE} \cup {Uses("chain")} :
        /\ stack' = IF kept THEN stack ELSE << >>
        /\ shape' = IF Top.type \in {"array", "singleVariable"} THEN "copy"
                    ELSE IF kept THEN "chain"
                    ELSE IF Top.type = "constant" THEN "constant" ELSE shape
  BY <1>1 DEF StoredValue
<1>3. plain /\ ~kept /\ Top.type = "result"
  <2>1. /\ Top.type \notin {"array", "singleVariable", "constant"}
        /\ ~kept /\ shape = "none"
    BY <1>2 DEF plain
  <2>2. Top.type \in {"array", "singleVariable", "constant", "result"}
    <3>1. stack \in Seq(ValueAt(regs)) /\ Len(stack) >= 1
      BY <1>1 DEF TypeInv, StreamOK, StoredValue
    <3>2. Top \in ValueAt(regs)
      BY <3>1, LastElement DEF Top
    <3> QED BY <3>2 DEF ValueAt
  <2> QED BY <2>1, <2>2 DEF plain
<1>4. stack' = << >>
  BY <1>2, <1>3, Zenon
<1>5. PlainBody
  BY <1>3 DEF PlainInv
<1>6. loadCount # 1
  <2>1. stack # << >> /\ stack[1] = Top
    <3>1. stack \in Seq(ValueAt(regs)) /\ Len(stack) = 1
      BY <1>1 DEF TypeInv, StreamOK, StoredValue
    <3>2. stack = << >> <=> Len(stack) = 0
      BY <3>1, Lengths
    <3>3. Len(stack) # 0
      BY <3>1
    <3>4. stack # << >>
      BY <3>2, <3>3, Zenon
    <3> QED BY <3>1, <3>4 DEF Top
  <2>2. Continued
    BY <1>3, <1>5, <2>1 DEF PlainBody, Statement
  <2>3. Len(stack) = 1
    BY <1>1 DEF StoredValue
  <2> QED BY <2>2, <2>3 DEF Continued
<1>7. /\ dest.reg = Top.reg /\ loadCount >= 2 /\ operation \notin {"null", "load"}
      /\ dest.reg \in DOMAIN asked
  BY <1>1, <1>5, <1>6, ResultStored DEF LastResult
<1>8. dest.reg \in DOMAIN instructionMap
  BY <1>5, <1>7 DEF PlainBody, AllKept
<1>9. StoreResult(address) \/ StoreAccumulation(address)
  <2>1. ~StoreIgnored(address) /\ ~StoreUndefined(address)
    BY <1>7, <1>8 DEF StoreIgnored, StoreUndefined
  <2>2. ~StoreCopy(address)
    BY <1>6 DEF StoreCopy
  <2>3. ~StoreUnloaded(address)
    <3>1. loadCount # 0
      BY <1>7
    <3> QED BY <3>1 DEF StoreUnloaded
  <2> QED BY <2>1, <2>2, <2>3 DEF handleStoreInstruction
<1>10. /\ EndStatement(address, dest.reg)
       /\ \/ instructionMap' = SetDest(instructionMap, dest.reg, StoreType(address), StorePtr(address))
          \/ instructionMap' = instructionMap
          \/ instructionMap' = [instructionMap EXCEPT ![dest.reg] = Accumulate(@, address)]
  BY <1>9 DEF StoreResult, StoreAccumulation
<1>11. DefinitionsFollowed'
  <2> DEFINE v == getAllocatedReg(address)
  <2>1. v \in Vars
    BY DEF getAllocatedReg, Vars, Pointers
  <2>2. /\ lastUsedRegMap' = Assign(lastUsedRegMap, v, dest.reg)
        /\ reaching' = [reaching EXCEPT ![v] = dest.reg]
    BY <1>1, <1>7, <1>10 DEF EndStatement, StoredValue
  <2>3. reaching \in [Vars -> DefinitionAt(regs)]
    BY DEF TypeInv, StreamOK
  <2>4. \A w \in Vars : getRealSrcReg(w) = reaching[w]
    BY <1>5 DEF PlainBody, DefinitionsFollowed
  <2> HIDE DEF v
  <2>5. ASSUME NEW w \in Vars PROVE getRealSrcReg(w)' = reaching'[w]
    <3>1. reaching'[w] = IF w = v THEN dest.reg ELSE reaching[w]
      BY <2>1, <2>2, <2>3
    <3>2. getRealSrcReg(w)' = IF w = v THEN dest.reg ELSE getRealSrcReg(w)
      BY <2>2 DEF getRealSrcReg, Assign
    <3> QED BY <2>4, <3>1, <3>2
  <2> QED BY <2>5 DEF DefinitionsFollowed
<1>12. AllKept'
  <2>1. MapAt(instructionMap, regs)
    BY DEF TypeInv
  <2>2. DOMAIN instructionMap' = DOMAIN instructionMap
    BY <1>10 DEF SetDest
  <2>3. \A r \in DOMAIN asked : r \in DOMAIN instructionMap /\ KeptBy(instructionMap[r], asked[r])
    BY <1>5 DEF PlainBody, AllKept
  <2>4. ASSUME NEW r \in DOMAIN asked PROVE KeptBy(instructionMap'[r], asked[r])
    <3>1. r \in DOMAIN instructionMap /\ KeptBy(instructionMap[r], asked[r])
      BY <2>3
    <3>2. /\ KeptBy(SetDest(instructionMap, dest.reg, StoreType(address), StorePtr(address))[r], asked[r])
          /\ KeptBy(Accumulate(instructionMap[r], address), asked[r])
      BY <2>1, <3>1, StillKept
    <3> QED BY <1>10, <3>1, <3>2
  <2> QED BY <1>1, <2>2, <2>3, <2>4 DEF AllKept
<1>13. Statement'
  BY <1>4, <1>10 DEF Statement, Between, EndStatement, NoDest
<1>14. ~isNegated' /\ Len(stack') <= 2
  BY <1>1, <1>4, <1>5 DEF PlainBody
<1> QED BY <1>11, <1>12, <1>13, <1>14 DEF PlainBody

LEMMA NextPlain ==
  ASSUME TypeInv, PlainInv, [Next]_vars PROVE PlainInv'
<1>1. CASE UNCHANGED vars \/ NextBlock \/ Finish
  <2>1. UNCHANGED <<stack, src1, src2, dest, operation, loadCount, isNegated,
                    lastUsedRegMap, instructionMap, reaching, asked, shape>>
    BY <1>1 DEF vars, NextBlock, Finish, block, latches, negation, table
  <2> QED BY <2>1 DEF PlainInv, plain, PlainBody, DefinitionsFollowed, getRealSrcReg,
             AllKept, Statement, Between, Continued, FirstOperands, NextOperand, LastResult
<1>2. CASE PushConstant \/ OperateUnknown
  <2>1. ~plain'
    BY <1>2 DEF PushConstant, OperateUnknown, plain
  <2> QED BY <2>1 DEF PlainInv
<1>3. ASSUME NEW address \in Scalars \cup Pointers,
             Load(address) \/ handleStoreInstruction(address)
      PROVE  PlainInv'
  BY <1>3, LoadPlain, StorePlain
<1>4. ASSUME NEW op \in Ops,
             Operate(op) \/ OperateNegated(op) \/ OperateSuppressed(op) \/ Complement(op)
      PROVE  PlainInv'
  <2>1. CASE Operate(op)
    BY <2>1, OperatePlain
  <2>2. CASE OperateNegated(op) \/ OperateSuppressed(op)
    <3>1. isNegated /\ plain' = plain
      BY <2>2 DEF OperateNegated, OperateSuppressed, Completes, plain
    <3>2. ~plain
      BY <3>1 DEF PlainInv, PlainBody
    <3>3. ~plain'
      BY <3>1, <3>2, Zenon
    <3> QED BY <3>3 DEF PlainInv
  <2>3. CASE Complement(op)
    <3>1. ~plain'
      BY <2>3 DEF Complement, plain
    <3> QED BY <3>1 DEF PlainInv
  <2> QED BY <1>4, <2>1, <2>2, <2>3
<1> QED BY <1>1, <1>2, <1>3, <1>4 DEF Next

LEMMA Invariance == Spec => [](TypeInv /\ PlainInv)
<1>1. Init => TypeInv /\ PlainInv
  BY InitType, InitPlain
<1>2. TypeInv /\ PlainInv /\ [Next]_vars => (TypeInv /\ PlainInv)'
  BY NextType, NextPlain
<1> QED BY <1>1, <1>2, PTL DEF Spec

(* In left-nested statements every operation is recorded with what it      *)
(* really reads, for every number of variables and of statements: what     *)
(* ties the latches to the operands is the parity of the loads.            *)
THEOREM OperandsAreKept == Spec => []OperandsKept
<1>1. PlainInv => OperandsKept
  BY DEF PlainInv, PlainBody, AllKept, KeptBy, OperandsKept
<1> QED BY <1>1, Invariance, PTL

(* After such statements, the definition a load finds is the last one.     *)
THEOREM DefinitionsAreCurrent == Spec => []DefinitionsCurrent
<1>1. PlainInv => DefinitionsCurrent
  BY DEF PlainInv, PlainBody, DefinitionsFollowed, DefinitionsCurrent
<1> QED BY <1>1, Invariance, PTL

-----------------------------------------------------------------------------
(* Only the store of an accumulation marks an entry as one.                *)
SameMarks == \A k \in DOMAIN instructionMap :
  instructionMap'[k].accumulation = instructionMap[k].accumulation

LEMMA InsertMarks ==
  ASSUME NEW reg, NEW entry, instructionMap' = Insert(instructionMap, reg, entry)
  PROVE  SameMarks
  BY DEF SameMarks, Insert

LEMMA InsertingMarks ==
  ASSUME NEW op, NEW reg, NEW s1, NEW s2, NEW x, NEW y,
         handleInstructionInserting(op, reg, s1, s2, x, y)
  PROVE  SameMarks
<1>1. PICK t1, t2, ptr : InsertBoth(op, reg, t1, t2, ptr)
  BY DEF handleInstructionInserting
<1>2. PICK entry : instructionMap' = Insert(instructionMap, reg, entry)
  BY <1>1 DEF InsertBoth, insertInstruction
<1> QED BY <1>2, InsertMarks

LEMMA StoreMarks ==
  ASSUME TypeInv, NEW address, handleStoreInstruction(address)
  PROVE  SameMarks \/ StoreAccumulation(address)
<1>1. \A k \in DOMAIN instructionMap : instructionMap[k] \in EntryAt(regs)
  BY DEF TypeInv, MapAt
<1>2. CASE StoreIgnored(address) \/ StoreUnloaded(address) \/ StoreUndefined(address)
  <2>1. instructionMap' = instructionMap
    BY <1>2 DEF StoreIgnored, StoreUnloaded, StoreUndefined
  <2> QED BY <2>1 DEF SameMarks
<1>3. CASE StoreResult(address)
  <2>1. instructionMap' = SetDest(instructionMap, dest.reg, StoreType(address), StorePtr(address))
    BY <1>3 DEF StoreResult
  <2> QED BY <1>1, <2>1 DEF SameMarks, SetDest, EntryAt
<1>4. CASE StoreCopy(address)
  <2>1. instructionMap' = CopyInto(instructionMap, src1.reg, address)
    BY <1>4 DEF StoreCopy
  <2> QED BY <1>1, <2>1 DEF SameMarks, CopyInto, SetDest, EntryAt
<1> QED BY <1>2, <1>3, <1>4 DEF handleStoreInstruction

LEMMA NextMarks ==
  ASSUME TypeInv, [Next]_vars
  PROVE  SameMarks \/ \E address \in Scalars \cup Pointers : StoreAccumulation(address)
<1>1. ASSUME instructionMap' = instructionMap PROVE SameMarks
  BY <1>1 DEF SameMarks
<1>2. CASE UNCHANGED vars \/ NextBlock \/ Finish \/ PushConstant
  <2>1. instructionMap' = instructionMap
    BY <1>2 DEF vars, NextBlock, Finish, PushConstant, table
  <2> QED BY <1>1, <2>1
<1>3. ASSUME NEW address \in Scalars \cup Pointers, Load(address)
      PROVE  SameMarks
  <2> DEFINE v == getAllocatedReg(address)
  <2>1. insertLoadInstruction(v, TypeOf(v \in Arrays))
    BY <1>3 DEF Load
  <2>2. CASE v \in DOMAIN instructionMap
    <3>1. instructionMap' = instructionMap
      BY <2>1, <2>2 DEF insertLoadInstruction, table
    <3> QED BY <1>1, <3>1
  <2>3. CASE v \notin DOMAIN instructionMap
    <3> DEFINE entry == Entry("load", TypeOf(v \in Arrays), Null, NoOperand, NoOperand, FALSE)
    <3>1. instructionMap' = Insert(instructionMap, v, entry)
      BY <2>1, <2>3 DEF insertLoadInstruction, insertInstruction
    <3> HIDE DEF v, entry
    <3> QED BY <3>1, InsertMarks
  <2> QED BY <2>2, <2>3
<1>4. ASSUME NEW op \in Ops,
             Operate(op) \/ OperateNegated(op) \/ OperateSuppressed(op) \/ Complement(op)
      PROVE  SameMarks
  <2>1. CASE Operate(op)
    BY <2>1, InsertingMarks DEF Operate
  <2>2. CASE OperateNegated(op)
    BY <2>2, InsertingMarks DEF OperateNegated
  <2>3. CASE OperateSuppressed(op) \/ Complement(op)
    <3>1. instructionMap' = instructionMap
      BY <2>3 DEF OperateSuppressed, Complement, table
    <3> QED BY <1>1, <3>1
  <2> QED BY <1>4, <2>1, <2>2, <2>3
<1>5. CASE OperateUnknown
  <2>1. \/ instructionMap' = instructionMap
        \/ handleInstructionInserting(operation, regs + 1, src1, src2, Below, Top)
    BY <1>5 DEF OperateUnknown, table
  <2> QED BY <1>1, <2>1, InsertingMarks
<1> QED BY <1>2, <1>3, <1>4, <1>5, StoreMarks DEF Next

(* The operands of an accumulation: as they were asked, exchanged by the   *)
(* parity of the loads and once more by the swap.                          *)
LEMMA AccumulationOrder ==
  ASSUME TypeInv, PlainBody, plain, NEW address \in Scalars \cup Pointers,
         StoreAccumulation(address), NEW k \in DOMAIN instructionMap,
         instructionMap'[k].accumulation, ~instructionMap[k].accumulation
  PROVE  instructionMap'[k].src2.reg = asked[k].y.reg <=> loadCount = 2 \/ loadCount % 2 = 1
<1> DEFINE e == instructionMap[k]
           q == asked[k]
<1>1. /\ StoredValue(address) /\ loadCount >= 2 /\ loadCount \in Nat
      /\ instructionMap' =
           IF instructionMap[dest.reg].isInLoopBody
           THEN [instructionMap EXCEPT ![dest.reg] = Accumulate(@, address)]
           ELSE instructionMap
  BY DEF StoreAccumulation, TypeInv, LatchesOK
<1>2. LastResult
  BY <1>1, ResultStored
<1>3. k = dest.reg /\ instructionMap'[k] = Accumulate(e, address)
  BY <1>1
<1>4. /\ IF loadCount % 2 = 1 THEN Crossed(e, q) ELSE Straight(e, q)
      /\ loadCount > 2 => q.x.reg # q.y.reg
  BY <1>2, <1>3 DEF LastResult
<1>5. e \in EntryAt(regs)
  BY DEF TypeInv, MapAt
<1>6. Accumulate(e, address).src2 = IF loadCount > 2 THEN e.src1 ELSE e.src2
  BY <1>5 DEF Accumulate, EntryAt
<1> HIDE DEF e, q
<1>7. CASE loadCount = 2
  <2>1. loadCount % 2 # 1 /\ ~(loadCount > 2)
    BY <1>7
  <2>2. Straight(e, q) /\ Accumulate(e, address).src2 = e.src2
    BY <1>4, <1>6, <2>1
  <2> QED BY <1>3, <1>7, <2>2 DEF Straight, q
<1>8. CASE loadCount # 2
  <2>1. loadCount > 2
    BY <1>1, <1>8
  <2>2. Accumulate(e, address).src2 = e.src1 /\ q.x.reg # q.y.reg
    BY <1>4, <1>6, <2>1
  <2>3. e.src1.reg = q.y.reg <=> loadCount % 2 = 1
    BY <1>4, <2>2 DEF Straight, Crossed
  <2> QED BY <1>3, <1>8, <2>2, <2>3 DEF q
<1> QED BY <1>7, <1>8

(* The second operand of an accumulation is the set in every left-nested   *)
(* statement but those that load an even number of values from four on.    *)
THEOREM AccumulatorIsSecond == Spec => AccumulatorSecond
<1> DEFINE Ordered == \A k \in DOMAIN instructionMap :
      plain /\ instructionMap'[k].accumulation /\ ~instructionMap[k].accumulation =>
        (instructionMap'[k].src2.reg = asked[k].y.reg
           <=> loadCount = 2 \/ loadCount % 2 = 1)
<1>1. TypeInv /\ PlainInv /\ [Next]_vars => Ordered
  <2> SUFFICES ASSUME TypeInv, PlainInv, [Next]_vars, plain, NEW k \in DOMAIN instructionMap,
                      instructionMap'[k].accumulation, ~instructionMap[k].accumulation
               PROVE  instructionMap'[k].src2.reg = asked[k].y.reg
                        <=> loadCount = 2 \/ loadCount % 2 = 1
    OBVIOUS
  <2>1. ~SameMarks
    BY DEF SameMarks
  <2>2. PICK address \in Scalars \cup Pointers : StoreAccumulation(address)
    BY <2>1, NextMarks
  <2>3. PlainBody
    BY DEF PlainInv
  <2> QED BY <2>2, <2>3, AccumulationOrder
<1> QED BY <1>1, Invariance, PTL DEF Spec, AccumulatorSecond

-----------------------------------------------------------------------------
(* The loops of reorderInstructionVector, one iteration after the other.   *)
Taken(pair, loads) == IsLoadPair(pair) = loads

IsPushed(vector, loads, n, f) ==
  f = [i \in 0..n |->
         IF i = 0 THEN << >>
         ELSE IF Taken(vector[i], loads) THEN Append(f[i - 1], vector[i])
         ELSE f[i - 1]]

LEMMA PushedExists ==
  ASSUME NEW vector, NEW loads
  PROVE  \A n \in Nat : \E f : IsPushed(vector, loads, n, f)
<1> DEFINE Good == {n \in Nat : \E f : IsPushed(vector, loads, n, f)}
<1>1. 0 \in Good
  <2> DEFINE f == [i \in 0..0 |-> << >>]
  <2>1. IsPushed(vector, loads, 0, f)
    BY DEF IsPushed
  <2> QED BY <2>1
<1>2. ASSUME NEW n \in Nat, n \in Good PROVE n + 1 \in Good
  <2>1. PICK f : IsPushed(vector, loads, n, f)
    BY <1>2
  <2> DEFINE last == IF Taken(vector[n + 1], loads) THEN Append(f[n], vector[n + 1]) ELSE f[n]
             g == [i \in 0..(n + 1) |-> IF i = n + 1 THEN last ELSE f[i]]
             step(h, i) == IF i = 0 THEN << >>
                           ELSE IF Taken(vector[i], loads) THEN Append(h[i - 1], vector[i])
                           ELSE h[i - 1]
  <2>2. ASSUME NEW i \in 0..(n + 1) PROVE g[i] = step(g, i)
    <3>1. CASE i = n + 1
      <4>1. i # 0 /\ i - 1 = n /\ g[i] = last /\ g[n] = f[n] /\ n \in 0..(n + 1)
        BY <3>1
      <4> QED BY <3>1, <4>1
    <3>2. CASE i # n + 1
      <4>1. i \in 0..n /\ g[i] = f[i]
        BY <3>2
      <4>2. f[i] = step(f, i)
        BY <2>1, <4>1 DEF IsPushed
      <4>3. i # 0 => i - 1 \in 0..(n + 1) /\ i - 1 # n + 1
        BY <4>1
      <4>4. i # 0 => g[i - 1] = f[i - 1]
        BY <4>3
      <4> QED BY <4>1, <4>2, <4>4
    <3> QED BY <3>1, <3>2
  <2>3. g = [i \in 0..(n + 1) |-> g[i]]
    OBVIOUS
  <2>4. IsPushed(vector, loads, n + 1, g)
    <3>1. [i \in 0..(n + 1) |-> g[i]] = [i \in 0..(n + 1) |-> step(g, i)]
      BY <2>2
    <3> HIDE DEF g
    <3> QED BY <2>3, <3>1 DEF IsPushed
  <2> QED BY <2>4
<1> HIDE DEF Good
<1>3. \A n \in Nat : n \in Good
  BY <1>1, <1>2, Induction
<1> QED BY <1>3 DEF Good

LEMMA PushedUnfold ==
  ASSUME NEW vector, Len(vector) \in Nat, NEW loads
  PROVE  \E f : IsPushed(vector, loads, Len(vector), f) /\ PushedBack(vector, loads) = f[Len(vector)]
<1> DEFINE f == CHOOSE f : IsPushed(vector, loads, Len(vector), f)
<1>1. IsPushed(vector, loads, Len(vector), f)
  BY PushedExists
<1>2. PushedBack(vector, loads) = f[Len(vector)]
  BY DEF PushedBack, IsPushed, Taken
<1> QED BY <1>1, <1>2

(* part is what the first n pairs of vector leave, and pos says where each *)
(* of its pairs was.                                                       *)
Extracts(vector, loads, n, part, pos) ==
  /\ pos \in [1..Len(part) -> 1..n]
  /\ \A k \in 1..Len(part) : part[k] = vector[pos[k]] /\ Taken(part[k], loads)
  /\ \A j, k \in 1..Len(part) : j < k => pos[j] < pos[k]
  /\ \A m \in 1..n : Taken(vector[m], loads) => \E k \in 1..Len(part) : pos[k] = m

LEMMA ExtractStep ==
  ASSUME NEW S, NEW vector \in Seq(S), NEW loads, NEW n \in Nat, n + 1 <= Len(vector),
         NEW part \in Seq(S), NEW pos, Extracts(vector, loads, n, part, pos)
  PROVE  /\ ~Taken(vector[n + 1], loads) => Extracts(vector, loads, n + 1, part, pos)
         /\ Taken(vector[n + 1], loads) =>
              \E p : Extracts(vector, loads, n + 1, Append(part, vector[n + 1]), p)
<1>0. /\ Len(part) \in Nat /\ n + 1 \in 1..(n + 1) /\ 1..n \subseteq 1..(n + 1)
      /\ vector[n + 1] \in S
      /\ \A m \in 1..(n + 1) : m = n + 1 \/ m \in 1..n
  OBVIOUS
<1>1. CASE ~Taken(vector[n + 1], loads)
  <2>1. pos \in [1..Len(part) -> 1..(n + 1)]
    BY <1>0 DEF Extracts
  <2>2. \A m \in 1..(n + 1) : Taken(vector[m], loads) => \E k \in 1..Len(part) : pos[k] = m
    BY <1>0, <1>1 DEF Extracts
  <2> QED BY <1>1, <2>1, <2>2 DEF Extracts
<1>2. CASE Taken(vector[n + 1], loads)
  <2> DEFINE l == Len(part)
             w == Append(part, vector[n + 1])
             p == [k \in 1..(l + 1) |-> IF k = l + 1 THEN n + 1 ELSE pos[k]]
  <2>1. /\ Len(w) = l + 1 /\ w[l + 1] = vector[n + 1]
        /\ \A k \in 1..l : w[k] = part[k]
    BY Appended
  <2>2. /\ \A k \in 1..(l + 1) : k = l + 1 \/ k \in 1..l
        /\ \A k \in 1..l : k # l + 1 /\ k \in 1..(l + 1)
        /\ l + 1 \in 1..(l + 1)
    BY <1>0
  <2>3. /\ p[l + 1] = n + 1 
        /\ \A k \in 1..l : p[k] = pos[k] /\ pos[k] \in 1..n /\ p[k] < n + 1
    <3>1. p[l + 1] = n + 1 /\ \A k \in 1..l : p[k] = pos[k]
      BY <2>2
    <3>2. \A k \in 1..l : pos[k] \in 1..n
      BY DEF Extracts
    <3> HIDE DEF p, l
    <3>3. \A k \in 1..n : k < n + 1
      OBVIOUS
    <3> QED BY <3>1, <3>2, <3>3
  <2>4. p \in [1..(l + 1) -> 1..(n + 1)]
    BY <1>0, <2>2 DEF Extracts
  <2>5. \A k \in 1..(l + 1) : w[k] = vector[p[k]] /\ Taken(w[k], loads)
    <3> SUFFICES ASSUME NEW k \in 1..(l + 1) PROVE w[k] = vector[p[k]] /\ Taken(w[k], loads)
      OBVIOUS
    <3>1. CASE k = l + 1
      <4> HIDE DEF w, p
      <4> QED BY <1>2, <2>1, <2>3, <3>1
    <3>2. CASE k \in 1..l
      <4> HIDE DEF w, p
      <4> QED BY <2>1, <2>3, <3>2 DEF Extracts
    <3> QED BY <2>2, <3>1, <3>2
  <2>6. ASSUME NEW j \in 1..(l + 1), NEW k \in 1..(l + 1), j < k PROVE p[j] < p[k]
    <3>1. j \in 1..l
      BY <1>0, <2>6
    <3>2. CASE k = l + 1
      <4> HIDE DEF p
      <4> QED BY <2>3, <3>1, <3>2
    <3>3. CASE k \in 1..l
      <4> HIDE DEF p
      <4> QED BY <2>3, <2>6, <3>1, <3>3 DEF Extracts
    <3> QED BY <2>2, <3>2, <3>3
  <2>7. ASSUME NEW m \in 1..(n + 1), Taken(vector[m], loads)
        PROVE  \E k \in 1..(l + 1) : p[k] = m
    <3>1. CASE m = n + 1
      <4> HIDE DEF p
      <4> QED BY <2>2, <2>3, <3>1
    <3>2. CASE m \in 1..n
      <4>1. PICK k \in 1..l : pos[k] = m
        BY <2>7, <3>2 DEF Extracts
      <4> HIDE DEF p
      <4> QED BY <2>2, <2>3, <4>1
    <3> QED BY <1>0, <3>1, <3>2
  <2>8. Extracts(vector, loads, n + 1, w, p)
    <3> HIDE DEF w, p
    <3> QED BY <2>1, <2>4, <2>5, <2>6, <2>7 DEF Extracts
  <2> QED BY <1>2, <2>8
<1> QED BY <1>1, <1>2

(* A loop leaves the pairs of its kind, all of them, in their order.       *)
LEMMA PushedExtracts ==
  ASSUME NEW S, NEW vector \in Seq(S), NEW loads
  PROVE  /\ PushedBack(vector, loads) \in Seq(S)
         /\ \E pos : Extracts(vector, loads, Len(vector), PushedBack(vector, loads), pos)
<1>0. Len(vector) \in Nat
  OBVIOUS
<1>1. PICK f : /\ IsPushed(vector, loads, Len(vector), f)
               /\ PushedBack(vector, loads) = f[Len(vector)]
  BY <1>0, PushedUnfold
<1> DEFINE Good == {n \in Nat : n <= Len(vector) =>
                      f[n] \in Seq(S) /\ \E pos : Extracts(vector, loads, n, f[n], pos)}
<1>2. 0 \in Good
  <2>1. f[0] = << >>
    BY <1>0, <1>1 DEF IsPushed
  <2> DEFINE pos == [k \in 1..0 |-> 0]
  <2>2. Extracts(vector, loads, 0, << >>, pos)
    BY DEF Extracts
  <2> HIDE DEF pos
  <2>3. f[0] \in Seq(S) /\ Extracts(vector, loads, 0, f[0], pos)
    BY <2>1, <2>2
  <2> QED BY <2>3
<1>3. ASSUME NEW n \in Nat, n \in Good PROVE n + 1 \in Good
  <2> SUFFICES ASSUME n + 1 <= Len(vector)
               PROVE  /\ f[n + 1] \in Seq(S)
                      /\ \E pos : Extracts(vector, loads, n + 1, f[n + 1], pos)
    OBVIOUS
  <2>1. n <= Len(vector) /\ n + 1 \in 0..Len(vector) /\ n + 1 # 0 /\ (n + 1) - 1 = n
    BY <1>0
  <2>2. f[n] \in Seq(S) /\ \E pos : Extracts(vector, loads, n, f[n], pos)
    BY <1>3, <2>1
  <2>3. f[n + 1] = IF Taken(vector[n + 1], loads) THEN Append(f[n], vector[n + 1]) ELSE f[n]
    <3>1. f[n + 1] = IF n + 1 = 0 THEN << >>
                     ELSE IF Taken(vector[n + 1], loads) THEN Append(f[(n + 1) - 1], vector[n + 1])
                     ELSE f[(n + 1) - 1]
      BY <1>1, <2>1 DEF IsPushed
    <3> QED BY <2>1, <3>1
  <2>4. PICK pos : Extracts(vector, loads, n, f[n], pos)
    BY <2>2
  <2>5. vector[n + 1] \in S
    BY <2>1
  <2>6. /\ ~Taken(vector[n + 1], loads) => Extracts(vector, loads, n + 1, f[n], pos)
        /\ Taken(vector[n + 1], loads) =>
             \E p : Extracts(vector, loads, n + 1, Append(f[n], vector[n + 1]), p)
    BY <2>2, <2>4, ExtractStep
  <2>7. CASE Taken(vector[n + 1], loads)
    <3>1. f[n + 1] = Append(f[n], vector[n + 1])
      BY <2>3, <2>7, Zenon
    <3>2. f[n + 1] \in Seq(S)
      BY <2>2, <2>5, <3>1
    <3> QED BY <2>6, <2>7, <3>1, <3>2
  <2>8. CASE ~Taken(vector[n + 1], loads)
    <3>1. f[n + 1] = f[n]
      BY <2>3, <2>8, Zenon
    <3> QED BY <2>2, <2>6, <2>8, <3>1
  <2> QED BY <2>7, <2>8
<1> HIDE DEF Good
<1>4. Len(vector) \in Good
  BY <1>0, <1>2, <1>3, Induction
<1> QED BY <1>0, <1>1, <1>4 DEF Good

-----------------------------------------------------------------------------
(* While the detector runs: what the table and the vector say of each      *)
(* other.  Registers are numbered as they are inserted, and a load is its  *)
(* variable, so that an operand is only ever an earlier key.               *)
Sources(entry) == {entry.src1.reg, entry.src2.reg}
PairAt(n) == (Vars \cup 1..n) \X OperationName

KeysOnce(v, map) ==
  /\ \A k \in 1..Len(v) : v[k][1] \in DOMAIN map
  /\ \A r \in DOMAIN map : \E k \in 1..Len(v) : v[k][1] = r
  /\ \A j, k \in 1..Len(v) : v[j][1] = v[k][1] => j = k

LoadsRead(v, map) ==
  \A k \in 1..Len(v) :
    /\ IsLoadPair(v[k]) <=> v[k][1] \in Vars
    /\ IsLoadPair(v[k]) => Sources(map[v[k][1]]) = {Null}

OperandsFirst(v, map) ==
  \A j, k \in 1..Len(v) :
    ~IsLoadPair(v[j]) /\ v[j][1] \in Sources(map[v[k][1]]) => j < k

Recorded(v, map, n) ==
  v \in Seq(PairAt(n)) /\ KeysOnce(v, map) /\ LoadsRead(v, map) /\ OperandsFirst(v, map)

Bindable(v, map) ==
  /\ {v[k][1] : k \in DOMAIN v} = DOMAIN map
  /\ \A j, k \in DOMAIN v :
       /\ v[j][1] = v[k][1] => j = k
       /\ IsLoadPair(v[k]) /\ j < k => IsLoadPair(v[j])
       /\ v[j][1] \in Sources(map[v[k][1]]) => j < k

OrderInv ==
  IF status = "done" THEN Bindable(instructionOrderVector, instructionMap)
  ELSE Recorded(instructionOrderVector, instructionMap, regs)

(* The two loops one after the other: w has the pairs of v, the nl loads   *)
(* first, and those of a kind in their order.                              *)
Regroups(v, w, nl, pos) ==
  /\ pos \in [1..Len(w) -> 1..Len(v)]
  /\ \A k \in 1..Len(w) : w[k] = v[pos[k]] /\ (IsLoadPair(w[k]) <=> k <= nl)
  /\ \A j, k \in 1..Len(w) : j < k /\ (k <= nl \/ nl < j) => pos[j] < pos[k]
  /\ \A m \in 1..Len(v) : \E k \in 1..Len(w) : pos[k] = m

LEMMA Reordered ==
  ASSUME NEW S, NEW v \in Seq(S)
  PROVE  /\ PushedBack(v, TRUE) \o PushedBack(v, FALSE) \in Seq(S)
         /\ \E nl, pos :
              /\ nl \in Nat
              /\ Regroups(v, PushedBack(v, TRUE) \o PushedBack(v, FALSE), nl, pos)
<1> DEFINE a == PushedBack(v, TRUE)
           b == PushedBack(v, FALSE)
           w == a \o b
<1>1. PICK p : a \in Seq(S) /\ Extracts(v, TRUE, Len(v), a, p)
  BY PushedExtracts
<1>2. PICK q : b \in Seq(S) /\ Extracts(v, FALSE, Len(v), b, q)
  BY PushedExtracts
<1>3. \A pair : (Taken(pair, TRUE) <=> IsLoadPair(pair)) /\ (Taken(pair, FALSE) <=> ~IsLoadPair(pair))
  BY DEF Taken, IsLoadPair
<1> DEFINE la == Len(a)
           pos == [k \in 1..Len(w) |-> IF k <= la THEN p[k] ELSE q[k - la]]
<1> HIDE DEF a, b
<1>4. /\ w \in Seq(S) /\ Len(w) = la + Len(b) /\ la \in Nat /\ Len(b) \in Nat
      /\ \A k \in 1..Len(w) : w[k] = IF k <= la THEN a[k] ELSE b[k - la]
  BY <1>1, <1>2, ConcatProperties
<1> HIDE DEF w, la
<1>5. \A k \in 1..Len(w) :
        /\ k <= la => /\ k \in 1..la /\ pos[k] = p[k] /\ w[k] = a[k]
        /\ ~(k <= la) => /\ k - la \in 1..Len(b) /\ pos[k] = q[k - la] /\ w[k] = b[k - la]
  BY <1>4
<1>6. /\ \A k \in 1..la : k \in 1..Len(w) /\ k <= la
      /\ \A k \in 1..Len(b) : k + la \in 1..Len(w) /\ ~(k + la <= la) /\ (k + la) - la = k
  BY <1>4
<1>7. /\ \A k \in 1..la : p[k] \in 1..Len(v) /\ a[k] = v[p[k]] /\ IsLoadPair(a[k])
      /\ \A j, k \in 1..la : j < k => p[j] < p[k]
      /\ \A m \in 1..Len(v) : IsLoadPair(v[m]) => \E k \in 1..la : p[k] = m
  BY <1>1, <1>3 DEF Extracts, la
<1>8. /\ \A k \in 1..Len(b) : q[k] \in 1..Len(v) /\ b[k] = v[q[k]] /\ ~IsLoadPair(b[k])
      /\ \A j, k \in 1..Len(b) : j < k => q[j] < q[k]
      /\ \A m \in 1..Len(v) : ~IsLoadPair(v[m]) => \E k \in 1..Len(b) : q[k] = m
  BY <1>2, <1>3 DEF Extracts
<1>9. pos \in [1..Len(w) -> 1..Len(v)]
  BY <1>5, <1>7, <1>8
<1> HIDE DEF pos
<1>10. \A k \in 1..Len(w) : w[k] = v[pos[k]] /\ (IsLoadPair(w[k]) <=> k <= la)
  BY <1>5, <1>7, <1>8
<1>11. ASSUME NEW j \in 1..Len(w), NEW k \in 1..Len(w), j < k, k <= la \/ la < j
       PROVE  pos[j] < pos[k]
  <2>1. CASE k <= la
    <3>1. j <= la
      BY <1>4, <1>11, <2>1
    <3> QED BY <1>5, <1>7, <1>11, <2>1, <3>1
  <2>2. CASE la < j
    <3>1. ~(j <= la) /\ ~(k <= la) /\ j - la < k - la
      BY <1>4, <1>11, <2>2
    <3> QED BY <1>5, <1>8, <3>1
  <2> QED BY <1>11, <2>1, <2>2
<1>12. ASSUME NEW m \in 1..Len(v) PROVE \E k \in 1..Len(w) : pos[k] = m
  <2>1. CASE IsLoadPair(v[m])
    <3>1. PICK k \in 1..la : p[k] = m
      BY <1>7, <2>1
    <3> QED BY <1>5, <1>6, <3>1
  <2>2. CASE ~IsLoadPair(v[m])
    <3>1. PICK k \in 1..Len(b) : q[k] = m
      BY <1>8, <2>2
    <3>2. k + la \in 1..Len(w) /\ pos[k + la] = q[(k + la) - la] /\ (k + la) - la = k
      BY <1>5, <1>6
    <3> QED BY <3>1, <3>2
  <2> QED BY <2>1, <2>2
<1>13. Regroups(v, w, la, pos)
  BY <1>9, <1>10, <1>11, <1>12 DEF Regroups
<1> QED BY <1>4, <1>13 DEF w, a, b

LEMMA FinishOrder ==
  ASSUME NEW n \in Nat, NEW v, NEW map, MapAt(map, n), Recorded(v, map, n)
  PROVE  Bindable(PushedBack(v, TRUE) \o PushedBack(v, FALSE), map)
<1> DEFINE w == PushedBack(v, TRUE) \o PushedBack(v, FALSE)
<1>0. v \in Seq(PairAt(n)) /\ KeysOnce(v, map) /\ LoadsRead(v, map) /\ OperandsFirst(v, map)
  BY DEF Recorded
<1>a. PICK nl, pos : nl \in Nat /\ w \in Seq(PairAt(n)) /\ Regroups(v, w, nl, pos)
  BY <1>0, Reordered
<1> HIDE DEF w
<1>1. /\ nl \in Nat
      /\ w \in Seq(PairAt(n))
      /\ pos \in [1..Len(w) -> 1..Len(v)]
      /\ \A k \in 1..Len(w) : w[k] = v[pos[k]] /\ (IsLoadPair(w[k]) <=> k <= nl)
      /\ \A j, k \in 1..Len(w) : j < k /\ (k <= nl \/ nl < j) => pos[j] < pos[k]
      /\ \A m \in 1..Len(v) : \E k \in 1..Len(w) : pos[k] = m
  BY <1>a DEF Regroups
<1>2. DOMAIN w = 1..Len(w) /\ Len(w) \in Nat
  BY <1>1
<1>3. \A k \in 1..Len(w) : pos[k] \in 1..Len(v) /\ w[k] = v[pos[k]]
  BY <1>1
<1>4. \A k \in 1..Len(w) : w[k][1] \in DOMAIN map
  BY <1>0, <1>3 DEF KeysOnce
<1>5. {w[k][1] : k \in DOMAIN w} = DOMAIN map
  <2>1. ASSUME NEW r \in DOMAIN map PROVE \E k \in 1..Len(w) : w[k][1] = r
    <3>1. PICK m \in 1..Len(v) : v[m][1] = r
      BY <1>0 DEF KeysOnce
    <3>2. PICK k \in 1..Len(w) : pos[k] = m
      BY <1>1
    <3> QED BY <1>3, <3>1, <3>2
  <2> QED BY <1>2, <1>4, <2>1
<1>6. ASSUME NEW j \in 1..Len(w), NEW k \in 1..Len(w)
      PROVE  /\ w[j][1] = w[k][1] => j = k
             /\ IsLoadPair(w[k]) /\ j < k => IsLoadPair(w[j])
             /\ w[j][1] \in Sources(map[w[k][1]]) => j < k
  <2>0. j \in Nat /\ k \in Nat /\ nl \in Nat
    BY <1>1, <1>2
  <2>1. ASSUME w[j][1] = w[k][1], j # k PROVE FALSE
    <3>0. /\ pos[j] \in 1..Len(v) /\ pos[k] \in 1..Len(v)
          /\ v[pos[j]][1] = v[pos[k]][1]
      BY <1>3, <2>1
    <3>1. pos[j] = pos[k] /\ (IsLoadPair(w[j]) <=> IsLoadPair(w[k]))
      <4>1. pos[j] = pos[k]
        <5>1. \A a, b \in 1..Len(v) : v[a][1] = v[b][1] => a = b
          BY <1>0, Zenon DEF KeysOnce
        <5> QED BY <3>0, <5>1, Zenon
      <4>2. w[j] = w[k]
        BY <1>3, <4>1
      <4> QED BY <4>1, <4>2, Zenon
    <3>2. pos[j] \in Int
      BY <1>3
    <3>3. (j <= nl <=> k <= nl) /\ (j < k \/ k < j)
      BY <1>1, <2>0, <2>1, <3>1
    <3>4. ~(j < k /\ (k <= nl \/ nl < j)) /\ ~(k < j /\ (j <= nl \/ nl < k))
      BY <1>1, <3>1, <3>2
    <3> QED BY <2>0, <3>3, <3>4
  <2>2. ASSUME IsLoadPair(w[k]), j < k PROVE IsLoadPair(w[j])
    <3>1. k <= nl
      BY <1>1, <2>2
    <3>2. j <= nl
      BY <2>0, <2>2, <3>1
    <3> QED BY <1>1, <3>2
  <2>3. ASSUME w[j][1] \in Sources(map[w[k][1]]) PROVE j < k
    <3>1. ~IsLoadPair(w[k])
      <4>1. w[j][1] # Null
        <5>1. DOMAIN map \subseteq Vars \cup 1..n
          BY DEF MapAt
        <5>2. Null \notin Vars /\ Null \notin Nat
          BY Names
        <5> QED BY <1>4, <5>1, <5>2
      <4>2. IsLoadPair(w[k]) => Sources(map[w[k][1]]) = {Null}
        BY <1>0, <1>3 DEF LoadsRead
      <4> QED BY <2>3, <4>1, <4>2
    <3>2. ~(k <= nl)
      BY <1>1, <3>1
    <3>3. CASE IsLoadPair(w[j])
      <4>1. j <= nl
        BY <1>1, <3>3
      <4> QED BY <2>0, <3>2, <4>1
    <3>4. CASE ~IsLoadPair(w[j])
      <4>1. ~(j <= nl)
        BY <1>1, <3>4
      <4>2. pos[j] < pos[k]
        BY <1>0, <1>3, <2>3, <3>4 DEF OperandsFirst
      <4>3. pos[j] \in Int /\ pos[k] \in Int
        BY <1>3
      <4>4. j # k
        BY <4>2, <4>3
      <4>5. ~(k < j)
        <5>1. k < j => pos[k] < pos[j]
          BY <1>1, <2>0, <3>2
        <5> QED BY <4>2, <4>3, <5>1
      <4> QED BY <2>0, <4>4, <4>5
    <3> QED BY <3>3, <3>4
  <2> QED BY <2>1, <2>2, <2>3
<1> QED BY <1>2, <1>5, <1>6 DEF Bindable, w

-----------------------------------------------------------------------------
(* What steps do to the table: nothing that changes a key or a source      *)
(* register, or one more entry with its pair.                              *)
SameSources(map, other) ==
  /\ DOMAIN other = DOMAIN map
  /\ \A k \in DOMAIN map : Sources(other[k]) = Sources(map[k])

LEMMA RecordedWider ==
  ASSUME NEW n \in Nat, NEW m \in {n, n + 1}, NEW v, NEW map, NEW other,
         Recorded(v, map, n), SameSources(map, other)
  PROVE  Recorded(v, other, m)
<1>1. v \in Seq(PairAt(m))
  <2>1. PairAt(n) \subseteq PairAt(m)
    BY Wider DEF PairAt
  <2> QED BY <2>1, SeqMonotonic DEF Recorded
<1>2. KeysOnce(v, other)
  BY DEF Recorded, KeysOnce, SameSources
<1>3. \A k \in 1..Len(v) : Sources(other[v[k][1]]) = Sources(map[v[k][1]])
  BY DEF Recorded, KeysOnce, SameSources
<1>4. LoadsRead(v, other) /\ OperandsFirst(v, other)
  BY <1>3 DEF Recorded, LoadsRead, OperandsFirst
<1> QED BY <1>1, <1>2, <1>4 DEF Recorded

LEMMA InsertRecorded ==
  ASSUME NEW n \in Nat, NEW m \in {n, n + 1}, NEW v, NEW map, MapAt(map, n), Recorded(v, map, n),
         NEW reg \in Vars \cup 1..m, reg \notin DOMAIN map, NEW entry, NEW op \in OperationName,
         \/ reg \in Vars /\ op = "load" /\ Sources(entry) = {Null}
         \/ reg = n + 1 /\ op # "load" /\ Sources(entry) \subseteq RegisterAt(n)
  PROVE  Recorded(Append(v, <<reg, op>>), Insert(map, reg, entry), m)
<1> DEFINE w == Append(v, <<reg, op>>)
           other == Insert(map, reg, entry)
           l == Len(v)
<1>0. /\ v \in Seq(PairAt(n)) /\ KeysOnce(v, map) /\ LoadsRead(v, map) /\ OperandsFirst(v, map)
      /\ DOMAIN map \subseteq Vars \cup 1..n /\ l \in Nat
  BY DEF Recorded, MapAt
<1>1. w \in Seq(PairAt(m))
  <2>1. PairAt(n) \subseteq PairAt(m) /\ <<reg, op>> \in PairAt(m)
    BY Wider DEF PairAt
  <2> QED BY <1>0, <2>1, SeqMonotonic
<1>2. /\ Len(w) = l + 1 /\ w[l + 1] = <<reg, op>>
      /\ \A k \in 1..l : w[k] = v[k]
  BY <1>0, Appended
<1>3. /\ DOMAIN other = DOMAIN map \cup {reg} /\ other[reg] = entry
      /\ \A k \in DOMAIN map : other[k] = map[k]
  BY DEF Insert
<1>4. /\ \A k \in 1..(l + 1) : k = l + 1 \/ k \in 1..l
      /\ \A k \in 1..l : k \in 1..(l + 1) /\ k < l + 1
      /\ l + 1 \in 1..(l + 1)
  BY <1>0
<1> HIDE DEF w, other, l
<1>5. /\ \A k \in 1..l : w[k][1] \in DOMAIN map /\ w[k][1] # reg /\ w[k][1] = v[k][1]
      /\ w[l + 1][1] = reg
  BY <1>0, <1>2 DEF KeysOnce, l
<1>6. KeysOnce(w, other)
  <2>1. \A k \in 1..(l + 1) : w[k][1] \in DOMAIN other
    BY <1>3, <1>4, <1>5
  <2>2. ASSUME NEW r \in DOMAIN other PROVE \E k \in 1..(l + 1) : w[k][1] = r
    <3>1. CASE r = reg
      BY <1>4, <1>5, <3>1
    <3>2. CASE r \in DOMAIN map
      <4>1. PICK k \in 1..l : v[k][1] = r
        BY <1>0, <3>2 DEF KeysOnce, l
      <4> QED BY <1>4, <1>5, <4>1
    <3> QED BY <1>3, <3>1, <3>2
  <2>3. ASSUME NEW j \in 1..(l + 1), NEW k \in 1..(l + 1), w[j][1] = w[k][1] PROVE j = k
    <3>1. CASE j \in 1..l /\ k \in 1..l
      BY <1>0, <1>5, <2>3, <3>1 DEF KeysOnce, l
    <3>2. CASE j = l + 1 \/ k = l + 1
      BY <1>4, <1>5, <2>3, <3>2
    <3> QED BY <1>4, <3>1, <3>2
  <2> QED BY <1>2, <2>1, <2>2, <2>3 DEF KeysOnce
<1>7. /\ \A k \in 1..l : Sources(other[w[k][1]]) = Sources(map[v[k][1]])
      /\ Sources(other[w[l + 1][1]]) = Sources(entry)
  BY <1>3, <1>5
<1>8. reg \in Vars <=> op = "load"
  BY Names
<1>9. LoadsRead(w, other)
  <2>1. ASSUME NEW k \in 1..(l + 1)
        PROVE  /\ IsLoadPair(w[k]) <=> w[k][1] \in Vars
               /\ IsLoadPair(w[k]) => Sources(other[w[k][1]]) = {Null}
    <3>1. CASE k \in 1..l
      BY <1>0, <1>2, <1>7, <3>1 DEF LoadsRead, l
    <3>2. CASE k = l + 1
      <4>1. IsLoadPair(w[k]) <=> op = "load"
        BY <1>2, <3>2 DEF IsLoadPair
      <4>2. op = "load" => Sources(entry) = {Null}
        OBVIOUS
      <4> QED BY <1>5, <1>7, <1>8, <3>2, <4>1, <4>2
    <3> QED BY <1>4, <3>1, <3>2
  <2> QED BY <1>2, <2>1 DEF LoadsRead
<1>10. OperandsFirst(w, other)
  <2>1. ASSUME NEW j \in 1..(l + 1), NEW k \in 1..(l + 1),
               ~IsLoadPair(w[j]), w[j][1] \in Sources(other[w[k][1]])
        PROVE  j < k
    <3>1. CASE j \in 1..l /\ k \in 1..l
      <4>1. ~IsLoadPair(v[j]) /\ v[j][1] \in Sources(map[v[k][1]])
        BY <1>2, <1>7, <2>1, <3>1
      <4> QED BY <1>0, <3>1, <4>1 DEF OperandsFirst, l
    <3>2. CASE j \in 1..l /\ k = l + 1
      BY <1>4, <3>2
    <3>3. CASE j = l + 1
      <4>1. reg = n + 1 /\ op # "load" /\ Sources(entry) \subseteq RegisterAt(n)
        <5>1. ~(op = "load")
          BY <1>2, <2>1, <3>3 DEF IsLoadPair
        <5> QED BY <5>1
      <4>2. n + 1 \notin RegisterAt(n)
        <5>1. n + 1 \notin 1..n /\ n + 1 \in Nat
          OBVIOUS
        <5> QED BY <5>1, Names DEF RegisterAt
      <4>3. \A r \in DOMAIN map : Sources(map[r]) \subseteq RegisterAt(n)
        BY DEF MapAt, EntryAt, SourceAt, Sources
      <4>4. Sources(other[w[k][1]]) \subseteq RegisterAt(n)
        BY <1>3, <1>4, <1>5, <4>1, <4>3
      <4>5. w[j][1] = reg
        BY <1>5, <3>3
      <4> QED BY <2>1, <4>1, <4>2, <4>4, <4>5
    <3> QED BY <1>4, <3>1, <3>2, <3>3
  <2> QED BY <1>2, <2>1 DEF OperandsFirst
<1> QED BY <1>1, <1>6, <1>9, <1>10 DEF Recorded, w, other

(* The steps of the detector, on the two variables of the table.           *)
TableRecorded == Recorded(instructionOrderVector, instructionMap, regs)

LEMMA TableKept ==
  ASSUME TypeInv, TableRecorded, UNCHANGED instructionOrderVector, regs' \in {regs, regs + 1},
         SameSources(instructionMap, instructionMap')
  PROVE  TableRecorded'
  BY RecordedWider DEF TableRecorded, TypeInv, StreamOK

LEMMA SameMap ==
  ASSUME NEW map
  PROVE  SameSources(map, map)
  BY DEF SameSources

LEMMA LoadRecorded ==
  ASSUME TypeInv, TableRecorded, NEW address \in Scalars \cup Pointers, Load(address)
  PROVE  TableRecorded'
<1> DEFINE v == getAllocatedReg(address)
           entry == Entry("load", TypeOf(v \in Arrays), Null, NoOperand, NoOperand, FALSE)
<1>1. /\ regs \in Nat /\ regs' = regs + 1 /\ MapAt(instructionMap, regs)
      /\ insertLoadInstruction(v, TypeOf(v \in Arrays))
  BY DEF TypeInv, StreamOK, Load
<1>2. v \in Vars
  BY DEF getAllocatedReg, Vars, Pointers
<1>3. Sources(entry) = {Null} /\ entry.operation = "load" /\ "load" \in OperationName
  BY DEF Sources, Entry, NoOperand, OperationName
<1> HIDE DEF v
<1>4. CASE v \in DOMAIN instructionMap
  <2>1. UNCHANGED <<instructionMap, instructionOrderVector>>
    BY <1>1, <1>4 DEF insertLoadInstruction, table
  <2> QED BY <1>1, <2>1, TableKept, SameMap
<1>5. CASE v \notin DOMAIN instructionMap
  <2>1. /\ instructionMap' = Insert(instructionMap, v, entry)
        /\ instructionOrderVector' = Append(instructionOrderVector, <<v, "load">>)
    BY <1>1, <1>3, <1>5 DEF insertLoadInstruction, insertInstruction
  <2> HIDE DEF entry
  <2>2. Recorded(Append(instructionOrderVector, <<v, "load">>),
                 Insert(instructionMap, v, entry), regs + 1)
    BY <1>1, <1>2, <1>3, <1>5, InsertRecorded DEF TableRecorded
  <2> QED BY <1>1, <2>1, <2>2 DEF TableRecorded
<1> QED BY <1>4, <1>5

LEMMA BothRecorded ==
  ASSUME TypeInv, TableRecorded, regs' = regs + 1, NEW op \in OperationName \ {"load"},
         NEW s1 \in LatchAt(regs), NEW s2 \in LatchAt(regs), NEW ptr,
         InsertBoth(op, regs + 1, s1, s2, ptr)
  PROVE  TableRecorded'
<1> DEFINE type == IF IsArrayType(s1.type) \/ IsArrayType(s2.type) THEN "fakeArray"
                   ELSE "singleVariable"
           entry == Entry(op, type, ptr, s1, s2, inLoop)
<1>1. regs \in Nat /\ MapAt(instructionMap, regs)
  BY DEF TypeInv, StreamOK
<1>2. regs + 1 \notin DOMAIN instructionMap /\ regs + 1 \in Vars \cup 1..(regs + 1)
  <2>1. regs + 1 \notin 1..regs /\ regs + 1 \in Nat /\ regs + 1 \in 1..(regs + 1)
    BY <1>1
  <2> QED BY <1>1, <2>1, Names DEF MapAt
<1>3. Sources(entry) = {s1.reg, s2.reg} /\ entry.operation = op
  BY DEF Sources, Entry
<1>4. Sources(entry) \subseteq RegisterAt(regs)
  BY <1>3 DEF LatchAt
<1>5. /\ instructionMap' = Insert(instructionMap, regs + 1, entry)
      /\ instructionOrderVector' = Append(instructionOrderVector, <<regs + 1, op>>)
  BY <1>3 DEF InsertBoth, insertInstruction
<1> HIDE DEF entry
<1>6. Recorded(Append(instructionOrderVector, <<regs + 1, op>>),
               Insert(instructionMap, regs + 1, entry), regs + 1)
  BY <1>1, <1>2, <1>4, InsertRecorded DEF TableRecorded
<1> QED BY <1>5, <1>6 DEF TableRecorded

LEMMA HandleRecorded ==
  ASSUME TypeInv, TableRecorded, regs' = regs + 1, NEW op \in OperationName \ {"load"},
         NEW s1 \in LatchAt(regs), NEW s2 \in LatchAt(regs),
         NEW x \in ValueAt(regs), NEW y \in ValueAt(regs),
         handleInstructionInserting(op, regs + 1, s1, s2, x, y)
  PROVE  TableRecorded'
<1>0. dest.reg \in RegisterAt(regs)
  BY DEF TypeInv, LatchesOK, SourceAt
<1>1. CASE dest.reg \in {x.ssa, y.ssa}
  <2> DEFINE s == MultiOperand(s1, s2)
  <2>1. \A l \in {s1, s2} : l.isArray \in BOOLEAN /\ TypeOf(l.isArray) \in OperandType
    BY DEF LatchAt, TypeOf, OperandType
  <2>2. \A l \in {s1, s2} : WithLastResult(l) \in LatchAt(regs) /\ Typed(l) \in LatchAt(regs)
    BY <2>1 DEF WithLastResult, Typed, LatchAt, TypeInv, LatchesOK, SourceAt
  <2>3. s[1] \in LatchAt(regs) /\ s[2] \in LatchAt(regs)
    BY <2>2 DEF MultiOperand
  <2>4. PICK ptr : InsertBoth(op, regs + 1, s[1], s[2], ptr)
    BY <1>1 DEF handleInstructionInserting
  <2> HIDE DEF s
  <2> QED BY <2>3, <2>4, BothRecorded
<1>2. CASE dest.reg \notin {x.ssa, y.ssa}
  <2>1. x.ssa \in RegisterAt(regs) /\ y.ssa \in RegisterAt(regs)
    BY DEF ValueAt, RegisterAt
  <2>2. \A l \in {s1, s2} : l.isArray \in BOOLEAN /\ TypeOf(l.isArray) \in OperandType
    BY DEF LatchAt, TypeOf, OperandType
  <2>3. \A l \in {s1, s2}, z \in {x, y} : TwoOperand(l, z) \in LatchAt(regs)
    BY <2>1, <2>2 DEF TwoOperand, Typed, LatchAt, OperandType
  <2>4. PICK ptr : InsertBoth(op, regs + 1, TwoOperand(s1, x), TwoOperand(s2, y), ptr)
    BY <1>2 DEF handleInstructionInserting
  <2> QED BY <2>3, <2>4, BothRecorded
<1> QED BY <1>1, <1>2

LEMMA OperateRecorded ==
  ASSUME TypeInv, TableRecorded, NEW op,
         \/ op \in Ops /\ (Operate(op) \/ OperateNegated(op) \/ OperateSuppressed(op))
         \/ OperateUnknown
  PROVE  TableRecorded'
<1>0. /\ regs \in Nat /\ src1 \in LatchAt(regs) /\ src2 \in LatchAt(regs)
      /\ tmpSrcReg2 \in RegisterAt(regs) /\ operation \in OperationName
  BY DEF TypeInv, StreamOK, LatchesOK
<1>1. /\ op \in Ops => op \in OperationName \ {"load"}
      /\ op \in DOMAIN Negated => Negated[op] \in OperationName \ {"load"}
  <2>1. "load" \notin Opcodes /\ Opcodes \subseteq OperationName
    BY DEF OperationName, Opcodes
  <2>2. op \in Ops => op \in OperationName \ {"load"}
    BY <2>1, OpsAssumption
  <2>3. {"xnor", "nand", "nor"} \subseteq OperationName \ {"load"}
    BY DEF OperationName
  <2>4. op \in DOMAIN Negated => Negated[op] \in {"xnor", "nand", "nor"}
    BY DEF Negated
  <2> QED BY <2>2, <2>3, <2>4
<1>2. PICK name, shown : Combine(name, shown)
  BY DEF Operate, OperateNegated, OperateSuppressed, OperateUnknown
<1>3. regs' = regs + 1 /\ Top \in ValueAt(regs) /\ Below \in ValueAt(regs)
  BY <1>2, CombineType
<1>4. ASSUME UNCHANGED table
      PROVE  TableRecorded'
  BY <1>3, <1>4, TableKept, SameMap DEF table
<1>5. ASSUME NEW s2 \in LatchAt(regs), NEW o \in OperationName \ {"load"},
             handleInstructionInserting(o, regs + 1, src1, s2, Below, Top)
      PROVE  TableRecorded'
  BY <1>0, <1>3, <1>5, HandleRecorded
<1>6. CASE op \in Ops /\ Operate(op)
  BY <1>0, <1>1, <1>5, <1>6 DEF Operate
<1>7. CASE OperateNegated(op)
  <2>1. [src2 EXCEPT !.reg = tmpSrcReg2] \in LatchAt(regs)
    BY <1>0 DEF LatchAt
  <2> QED BY <1>0, <1>1, <1>5, <1>7, <2>1 DEF OperateNegated, Completes
<1>8. CASE OperateSuppressed(op)
  BY <1>4, <1>8 DEF OperateSuppressed
<1>9. CASE OperateUnknown
  <2>1. \/ UNCHANGED table
        \/ /\ operation \in OperationName \ {"load"}
           /\ handleInstructionInserting(operation, regs + 1, src1, src2, Below, Top)
    BY <1>0, <1>9 DEF OperateUnknown, table
  <2> QED BY <1>0, <1>4, <1>5, <2>1
<1> QED BY <1>6, <1>7, <1>8, <1>9

LEMMA StoreRecorded ==
  ASSUME TypeInv, TableRecorded, NEW address \in Scalars \cup Pointers,
         handleStoreInstruction(address)
  PROVE  TableRecorded'
<1>1. UNCHANGED <<regs, instructionOrderVector>>
  BY DEF handleStoreInstruction, StoreIgnored, StoreResult, StoreCopy, StoreUnloaded,
         StoreAccumulation, StoreUndefined, StoredValue
<1>2. \A k \in DOMAIN instructionMap : instructionMap[k] \in EntryAt(regs)
  BY DEF TypeInv, MapAt
<1>3. ASSUME NEW e \in EntryAt(regs)
      PROVE  /\ Sources([e EXCEPT !.destRegType = StoreType(address),
                                  !.destRegPtr = StorePtr(address)]) = Sources(e)
             /\ Sources([[e EXCEPT !.destRegType = StoreType(address),
                                   !.destRegPtr = StorePtr(address)]
                           EXCEPT !.src2.type = StoreType(address)]) = Sources(e)
             /\ Sources(Accumulate(e, address)) = Sources(e)
  <2>1. /\ Sources([e EXCEPT !.destRegType = StoreType(address),
                             !.destRegPtr = StorePtr(address)]) = Sources(e)
        /\ Sources([[e EXCEPT !.destRegType = StoreType(address),
                              !.destRegPtr = StorePtr(address)]
                      EXCEPT !.src2.type = StoreType(address)]) = Sources(e)
    BY DEF Sources, EntryAt, SourceAt
  <2>2. Sources(Accumulate(e, address)) = Sources(e)
    BY DEF Sources, Accumulate, EntryAt
  <2> QED BY <2>1, <2>2
<1>4. SameSources(instructionMap, instructionMap')
  <2>1. CASE UNCHANGED instructionMap
    BY <2>1, SameMap
  <2>2. CASE StoreResult(address)
    <3>1. instructionMap' =
            SetDest(instructionMap, dest.reg, StoreType(address), StorePtr(address))
      BY <2>2 DEF StoreResult
    <3> QED BY <1>2, <1>3, <3>1 DEF SameSources, SetDest
  <2>3. CASE StoreCopy(address)
    <3>1. instructionMap' = CopyInto(instructionMap, src1.reg, address)
      BY <2>3 DEF StoreCopy
    <3> QED BY <1>2, <1>3, <3>1 DEF SameSources, CopyInto, SetDest
  <2>4. CASE StoreAccumulation(address)
    <3>1. \/ instructionMap' = instructionMap
          \/ instructionMap' = [instructionMap EXCEPT ![dest.reg] = Accumulate(@, address)]
      BY <2>4 DEF StoreAccumulation
    <3>2. instructionMap \in [DOMAIN instructionMap -> EntryAt(regs)]
      BY DEF TypeInv, MapAt
    <3>3. ASSUME instructionMap' = [instructionMap EXCEPT ![dest.reg] = Accumulate(@, address)]
          PROVE  SameSources(instructionMap, instructionMap')
      <4>1. DOMAIN instructionMap' = DOMAIN instructionMap
        BY <3>3
      <4>2. ASSUME NEW k \in DOMAIN instructionMap
            PROVE  Sources(instructionMap'[k]) = Sources(instructionMap[k])
        <5>1. instructionMap'[k] \in {instructionMap[k], Accumulate(instructionMap[k], address)}
          BY <3>3
        <5> QED BY <1>2, <1>3, <5>1
      <4> QED BY <4>1, <4>2 DEF SameSources
    <3> QED BY <3>1, <3>3, SameMap
  <2> QED BY <2>1, <2>2, <2>3, <2>4 DEF handleStoreInstruction, StoreIgnored, StoreUnloaded,
             StoreUndefined
<1> QED BY <1>1, <1>4, TableKept

(* Every step but stuttering needs the detector to be running.             *)
LEMMA OnlyWhileRunning ==
  ASSUME Next PROVE status = "running"
<1>1. ASSUME NEW address \in Scalars \cup Pointers, Load(address) \/ handleStoreInstruction(address)
      PROVE  status = "running"
  BY <1>1 DEF Load, MayGrow, handleStoreInstruction, StoreIgnored, StoreResult, StoreCopy,
              StoreUnloaded, StoreAccumulation, StoreUndefined, StoredValue
<1>2. ASSUME NEW op \in Ops,
             Operate(op) \/ OperateNegated(op) \/ OperateSuppressed(op) \/ Complement(op)
      PROVE  status = "running"
  BY <1>2 DEF Operate, OperateNegated, OperateSuppressed, Complement, MayGrow
<1>3. PushConstant \/ OperateUnknown \/ NextBlock \/ Finish => status = "running"
  BY DEF PushConstant, OperateUnknown, NextBlock, Finish, MayGrow
<1> QED BY <1>1, <1>2, <1>3 DEF Next

LEMMA OnlyFinishEnds ==
  ASSUME Next PROVE Finish \/ status' # "done"
<1>1. status = "running"
  BY OnlyWhileRunning
<1>2. ASSUME NEW address \in Scalars \cup Pointers, Load(address) \/ handleStoreInstruction(address)
      PROVE  status' # "done"
  BY <1>1, <1>2 DEF Load, handleStoreInstruction, StoreIgnored, StoreResult, StoreCopy,
              StoreUnloaded, StoreAccumulation, StoreUndefined, EndStatement
<1>3. ASSUME NEW op \in Ops,
             Operate(op) \/ OperateNegated(op) \/ OperateSuppressed(op) \/ Complement(op)
      PROVE  status' # "done"
  BY <1>1, <1>3 DEF Operate, OperateNegated, OperateSuppressed, Complement, Combine
<1>4. PushConstant \/ OperateUnknown \/ NextBlock => status' # "done"
  BY <1>1 DEF PushConstant, OperateUnknown, NextBlock, Combine
<1> QED BY <1>2, <1>3, <1>4 DEF Next

LEMMA NextOrder ==
  ASSUME TypeInv, OrderInv, [Next]_vars PROVE OrderInv'
<1>1. CASE UNCHANGED vars
  BY <1>1 DEF vars, table, block, OrderInv
<1>2. CASE Next
  <2>1. status = "running"
    BY <1>2, OnlyWhileRunning
  <2>2. TableRecorded
    BY <2>1 DEF OrderInv, TableRecorded
  <2>3. CASE Finish
    <3>1. MapAt(instructionMap, regs) /\ regs \in Nat
      BY DEF TypeInv, StreamOK
    <3>2. Bindable(PushedBack(instructionOrderVector, TRUE)
                     \o PushedBack(instructionOrderVector, FALSE), instructionMap)
      BY <2>2, <3>1, FinishOrder DEF TableRecorded
    <3> QED BY <2>3, <3>2 DEF Finish, OrderInv
  <2>4. CASE ~Finish
    <3>1. status' # "done"
      BY <1>2, <2>4, OnlyFinishEnds
    <3>2. TableRecorded'
      <4>1. CASE NextBlock \/ PushConstant
        <5>1. UNCHANGED <<regs, instructionMap, instructionOrderVector>>
          BY <4>1 DEF NextBlock, PushConstant, table
        <5> QED BY <2>2, <5>1 DEF TableRecorded
      <4>2. ASSUME NEW address \in Scalars \cup Pointers,
                   Load(address) \/ handleStoreInstruction(address)
            PROVE  TableRecorded'
        BY <2>2, <4>2, LoadRecorded, StoreRecorded
      <4>3. ASSUME NEW op \in Ops,
                   Operate(op) \/ OperateNegated(op) \/ OperateSuppressed(op) \/ Complement(op)
            PROVE  TableRecorded'
        <5>1. CASE Complement(op)
          <6>1. UNCHANGED <<instructionMap, instructionOrderVector>> /\ regs' = regs + 1
            BY <5>1 DEF Complement, table
          <6> QED BY <2>2, <6>1, TableKept, SameMap
        <5> QED BY <2>2, <4>3, <5>1, OperateRecorded
      <4>4. CASE OperateUnknown
        BY <2>2, <4>4, OperateRecorded
      <4> QED BY <1>2, <2>4, <4>1, <4>2, <4>3, <4>4 DEF Next
    <3> QED BY <3>1, <3>2 DEF OrderInv, TableRecorded
  <2> QED BY <2>3, <2>4
<1> QED BY <1>1, <1>2

(* Whatever the program, the vector given to the binder lists the table,   *)
(* loads first, with no operation before one of its operands.              *)
THEOREM OrderIsBindable == Spec => []BindableOrder
<1>1. Init => OrderInv
  <2> SUFFICES ASSUME Init PROVE OrderInv
    OBVIOUS
  <2>1. /\ instructionOrderVector = << >> /\ instructionMap = EmptyMap /\ status # "done"
    BY DEF Init
  <2>2. Recorded(<< >>, EmptyMap, regs)
    BY DEF Recorded, KeysOnce, LoadsRead, OperandsFirst, EmptyMap
  <2> QED BY <2>1, <2>2 DEF OrderInv
<1>2. TypeInv /\ OrderInv /\ [Next]_vars => OrderInv'
  BY NextOrder
<1>3. OrderInv => BindableOrder
  BY DEF OrderInv, Bindable, BindableOrder, Sources
<1> QED BY <1>1, <1>2, <1>3, TypeInvariance, PTL DEF Spec
=============================================================================
