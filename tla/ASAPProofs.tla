----------------------------- MODULE ASAPProofs -----------------------------
(***************************************************************************)
(* Proofs about module ASAP, for every N, every set of operations and      *)
(* every set of address numberings.                                        *)
(***************************************************************************)
EXTENDS ASAP, TLAPS

(* The loop visits keys in increasing address order: what is visited has a *)
(* lower address than what is pending.                                     *)
VisitedPrefix == \A v \in Visited : \A p \in pending : address[v] < address[p]

(* A visited entry holds the delay of its operation.                       *)
DelaysRecorded == \A v \in Visited : di[v] = DelayOf(v)

(* The table is in single assignment form.                                 *)
SourcesEarlier ==
  \A i \in Instrs : sourceReg1[i] < i /\ sourceReg2[i] < i

(* The numbering is one of those under study.                              *)
Numbered == address \in Addresses

(* An entry the loop has yet to visit is as insertInstruction left it.     *)
PendingUntouched == \A p \in pending : ti[p] = 0 /\ di[p] = 0

(* The inductive invariant.                                                *)
IInv ==
  /\ TypeOK
  /\ Numbered
  /\ SourcesEarlier
  /\ VisitedPrefix
  /\ DelaysRecorded
  /\ PendingUntouched
  /\ StartsWhenOperandsEnd

-----------------------------------------------------------------------------
(* The larger of two integers is an integer that bounds both and is one of *)
(* them (the comparison of ASAP.cpp:83).                                   *)
LEMMA MaximumBounds ==
  ASSUME NEW a \in Int, NEW b \in Int
  PROVE  /\ Maximum(a, b) \in Int
         /\ a <= Maximum(a, b) /\ b <= Maximum(a, b)
         /\ Maximum(a, b) = a \/ Maximum(a, b) = b
BY DEF Maximum

(* A delay is -1, 0 or 1 (OperationsDelay.cpp:25-38).                      *)
LEMMA DelayRange ==
  ASSUME NEW op
  PROVE  getOperationDelay(op) \in {-1, 1}
BY DEF getOperationDelay

(* getTime returns the end of the last operand of i: ASAP.cpp:64-86.       *)
LEMMA GetTimeIsLastOperand ==
  ASSUME TypeOK, NEW i \in Instrs, ~IsLoad(i)
  PROVE  /\ getTime(sourceReg1[i], sourceReg2[i]) \in Int
         /\ LastOperandAt(i, getTime(sourceReg1[i], sourceReg2[i]))
<1> DEFINE a == OperandTime(sourceReg1[i])
           b == OperandTime(sourceReg2[i])
<1>1. \A s \in 1..N : getAvailableTime(s) \in Int
  BY DEF TypeOK, getAvailableTime, Instrs
<1>2. a \in Int /\ b \in Int
  <2>1. sourceReg1[i] \in 0..N /\ sourceReg2[i] \in 0..N
    BY DEF TypeOK
  <2>2. \A s \in 0..N : s = 0 \/ s \in 1..N
    BY NAssumption
  <2>3. \A s \in 0..N : OperandTime(s) \in Int
    <3>1. 0 \in Int
      OBVIOUS
    <3> QED BY <1>1, <2>2, <3>1, Zenon DEF OperandTime, Constant
  <2> QED BY <2>1, <2>3, Zenon
<1>3. /\ Maximum(a, b) \in Int
      /\ a <= Maximum(a, b) /\ b <= Maximum(a, b)
      /\ Maximum(a, b) = a \/ Maximum(a, b) = b
  BY <1>2, MaximumBounds
<1>4. getTime(sourceReg1[i], sourceReg2[i]) = Maximum(a, b)
  BY DEF getTime
<1>5. \A s \in Sources(i) : getAvailableTime(s) <= Maximum(a, b)
  BY <1>3 DEF Sources, OperandTime
<1>6. \/ \E s \in Sources(i) : getAvailableTime(s) = Maximum(a, b)
      \/ Anchored(i) /\ Maximum(a, b) = 0
  BY <1>3 DEF Sources, OperandTime, Constant, Anchored
<1>7. Anchored(i) => 0 <= Maximum(a, b)
  BY <1>2, <1>3 DEF Anchored, OperandTime
<1> QED BY <1>3, <1>4, <1>5, <1>6, <1>7 DEF LastOperandAt

-----------------------------------------------------------------------------
(* The table left by DependencyDetector satisfies the invariant.           *)
LEMMA InitIInv == Init => IInv
<1> SUFFICES ASSUME Init PROVE IInv
  OBVIOUS
<1>1. TypeOK
  <2>1. ti \in [Instrs -> Int] /\ di \in [Instrs -> {-1, 0, 1}]
    BY DEF Init
  <2>2. pending \subseteq Instrs /\ reordered \in BOOLEAN
    BY DEF Init
  <2>3. /\ operation \in [Instrs -> Ops] /\ address \in [Instrs -> Nat]
        /\ sourceReg1 \in [Instrs -> 0..N] /\ sourceReg2 \in [Instrs -> 0..N]
    BY AddressAssumption DEF Init, EarlierSource
  <2> QED BY <2>1, <2>2, <2>3 DEF TypeOK
<1>2. SourcesEarlier
  BY DEF Init, SourcesEarlier, EarlierSource
<1>3. Visited = {} /\ Numbered
  BY DEF Init, Visited, Numbered
<1>4. PendingUntouched
  BY DEF Init, PendingUntouched
<1> QED
  BY <1>1, <1>2, <1>3, <1>4
  DEF IInv, VisitedPrefix, DelaysRecorded, StartsWhenOperandsEnd

(* What the two scheduling actions have in common: entry i, the pending    *)
(* key of lowest address, receives time t and delay d.                     *)
Visits(i, t, d) ==
  /\ IsNext(i)
  /\ setInstructionTimeAndDelay(i, t, d)
  /\ pending' = pending \ {i}
  /\ UNCHANGED <<program, instructionOrderVector, reordered>>

(* Giving entry i the end of its last operand preserves the invariant.     *)
LEMMA VisitPreserves ==
  ASSUME IInv, NEW i \in Instrs, NEW t \in Int, NEW d \in {-1, 0, 1},
         Visits(i, t, d), d = DelayOf(i), LastOperandAt(i, t)
  PROVE  IInv'
<1> USE DEF Visits, setInstructionTimeAndDelay
<1>1. TypeOK'
  BY DEF IInv, TypeOK, IsNext, program
<1>2. Numbered' /\ SourcesEarlier'
  BY DEF IInv, Numbered, SourcesEarlier, program
<1>3. Visited' = Visited \cup {i} /\ i \notin Visited
  BY DEF Visited, IsNext
<1>4. /\ \A j \in Instrs : Sources(j)' = Sources(j)
      /\ \A j \in Instrs : OperandsFirst(j)' = OperandsFirst(j)
      /\ \A j \in Instrs : DelayOf(j)' = DelayOf(j)
      /\ \A j \in Instrs : Anchored(j)' = Anchored(j)
  BY DEF Sources, OperandsFirst, DelayOf, IsLoad, Anchored, program
<1>5. VisitedPrefix'
  <2> SUFFICES ASSUME NEW v \in Visited', NEW p \in pending'
               PROVE  address[v] < address[p]
    BY DEF VisitedPrefix, program
  <2>1. p \in pending /\ p # i /\ p \in Instrs
    BY DEF IInv, TypeOK
  <2>2. CASE v = i
    <3>1. address[i] <= address[p]
      BY <2>1 DEF IsNext
    <3>2. address[i] # address[p]
      BY <2>1, AddressAssumption DEF IInv, Numbered
    <3> QED BY <2>1, <2>2, <3>1, <3>2 DEF IInv, TypeOK
  <2>3. CASE v # i
    BY <1>3, <2>1, <2>3 DEF IInv, VisitedPrefix
  <2> QED BY <2>2, <2>3
<1>6. DelaysRecorded'
  BY <1>3, <1>4 DEF DelaysRecorded, IInv, TypeOK, Visited
<1>7. StartsWhenOperandsEnd'
  <2> SUFFICES ASSUME NEW j \in Visited', OperandsFirst(j)
               PROVE  LastOperandAt(j, ti[j])'
    BY <1>4 DEF StartsWhenOperandsEnd, Visited
  <2>1. j \in Instrs /\ Sources(j) \subseteq Instrs
    BY DEF Visited, Sources, IInv, TypeOK, Instrs, Constant
  <2>2. i \notin Sources(j)
    <3>1. CASE j = i
      BY <3>1, <2>1 DEF OperandsFirst, IInv, TypeOK
    <3>2. CASE j # i
      <4> SUFFICES ASSUME i \in Sources(j) PROVE FALSE
        OBVIOUS
      <4>1. address[i] < address[j]
        BY DEF OperandsFirst
      <4>2. address[j] < address[i]
        BY <1>3, <3>2 DEF IInv, VisitedPrefix, IsNext
      <4> QED BY <4>1, <4>2, <2>1 DEF IInv, TypeOK
    <3> QED BY <3>1, <3>2
  <2>3. \A s \in Sources(j) : getAvailableTime(s)' = getAvailableTime(s)
    BY <2>1, <2>2 DEF getAvailableTime, IInv, TypeOK
  <2>4. LastOperandAt(j, ti'[j])
    <3>1. CASE j = i
      BY <3>1 DEF IInv, TypeOK
    <3>2. CASE j # i
      BY <1>3, <3>2, <2>1 DEF IInv, TypeOK, StartsWhenOperandsEnd
    <3> QED BY <3>1, <3>2
  <2> QED BY <1>4, <2>1, <2>3, <2>4 DEF LastOperandAt
<1>8. PendingUntouched'
  BY DEF PendingUntouched, IInv, TypeOK
<1> QED BY <1>1, <1>2, <1>5, <1>6, <1>7, <1>8 DEF IInv

(* ScheduleLoad is a visit with time 0 and delay 0 (ASAP.cpp:38-40).       *)
LEMMA LoadVisits ==
  ASSUME NEW i \in Instrs, ScheduleLoad(i)
  PROVE  Visits(i, 0, 0) /\ DelayOf(i) = 0 /\ LastOperandAt(i, 0)
BY DEF ScheduleLoad, Visits, DelayOf, LastOperandAt, Sources, Anchored

(* ScheduleOperation is a visit with the time of getTime (ASAP.cpp:42-51). *)
LEMMA OperationVisits ==
  ASSUME TypeOK, NEW i \in Instrs, ScheduleOperation(i)
  PROVE  \E t \in Int : \E d \in {-1, 0, 1} :
           /\ Visits(i, t, d) /\ d = DelayOf(i) /\ LastOperandAt(i, t)
<1> DEFINE t == getTime(sourceReg1[i], sourceReg2[i])
           d == getOperationDelay(operation[i])
<1>1. ~IsLoad(i) /\ Visits(i, t, d)
  BY DEF ScheduleOperation, Visits
<1>2. t \in Int /\ LastOperandAt(i, t)
  BY <1>1, GetTimeIsLastOperand
<1>3. d \in {-1, 0, 1} /\ d = DelayOf(i)
  BY <1>1, DelayRange DEF DelayOf
<1> HIDE DEF t, d
<1> QED BY <1>1, <1>2, <1>3

(* Every step preserves the invariant.                                     *)
LEMMA NextIInv == IInv /\ [Next]_vars => IInv'
<1> SUFFICES ASSUME IInv, [Next]_vars PROVE IInv'
  OBVIOUS
<1>1. ASSUME NEW i \in Instrs, ScheduleLoad(i) PROVE IInv'
  BY <1>1, LoadVisits, VisitPreserves
<1>2. ASSUME NEW i \in Instrs, ScheduleOperation(i) PROVE IInv'
  <2>1. TypeOK
    BY DEF IInv
  <2>2. PICK t \in Int, d \in {-1, 0, 1} :
          Visits(i, t, d) /\ d = DelayOf(i) /\ LastOperandAt(i, t)
    BY <1>2, <2>1, OperationVisits
  <2> QED BY <2>2, VisitPreserves
<1>3. ASSUME \/ reorderInstructionVector
             \/ UNCHANGED vars
      PROVE  IInv'
  <2>1. UNCHANGED <<program, ti, di, pending>> /\ reordered' \in BOOLEAN
    BY <1>3 DEF reorderInstructionVector, vars, program, IInv, TypeOK
  <2> QED
    BY <2>1 DEF program, IInv, TypeOK, Numbered, SourcesEarlier, VisitedPrefix,
       DelaysRecorded, PendingUntouched, StartsWhenOperandsEnd, Visited,
       OperandsFirst, Sources, IsLoad, DelayOf, LastOperandAt, getAvailableTime,
       Anchored
<1> QED BY <1>1, <1>2, <1>3 DEF Next

(* The invariant holds of every run of the scheduler.                      *)
LEMMA Invariance == Spec => []IInv
BY InitIInv, NextIInv, PTL DEF Spec

(* Every table entry keeps the type of its field throughout the run.       *)
THEOREM TypeCorrect == Spec => []TypeOK
<1>1. IInv => TypeOK
  BY DEF IInv
<1> QED BY <1>1, Invariance, PTL

(* Whatever the address order, an operation visited after its operands     *)
(* starts exactly when the last of them ends, for good.                    *)
THEOREM ExactStarts == Spec => []StartsWhenOperandsEnd
<1>1. IInv => StartsWhenOperandsEnd
  BY DEF IInv
<1> QED BY <1>1, Invariance, PTL

-----------------------------------------------------------------------------
(* The operands of the entry under the iterator that have a lower address  *)
(* are visited; the others are available at 0, where they were left.       *)
LEMMA OperandsAtVisit ==
  ASSUME IInv, NEW i \in Instrs, IsNext(i), NEW s \in Sources(i)
  PROVE  /\ s \in Instrs
         /\ address[s] < address[i] =>
              s \in Visited /\ getAvailableTime(s) = ti[s] + DelayOf(s)
         /\ ~(address[s] < address[i]) => getAvailableTime(s) = 0
<1>1. s \in Instrs
  BY DEF Sources, IInv, TypeOK, Instrs, Constant
<1>2. ASSUME address[s] < address[i]
      PROVE  s \in Visited /\ getAvailableTime(s) = ti[s] + DelayOf(s)
  <2>1. s \notin pending
    BY <1>1, <1>2 DEF IsNext, IInv, TypeOK
  <2> QED BY <1>1, <2>1 DEF Visited, getAvailableTime, IInv, DelaysRecorded
<1>3. ASSUME ~(address[s] < address[i]) PROVE getAvailableTime(s) = 0
  <2>1. s \in pending
    BY <1>1, <1>3 DEF IsNext, IInv, VisitedPrefix, Visited
  <2> QED BY <2>1 DEF getAvailableTime, IInv, PendingUntouched
<1> QED BY <1>1, <1>2, <1>3

(* A visit gives a time before 0 only for the reasons the property names.  *)
LEMMA VisitExplained ==
  ASSUME IInv, NegativeOnlyByMissingDelay,
         NEW i \in Instrs, NEW t \in Int, NEW d \in {-1, 0, 1},
         Visits(i, t, d), d = DelayOf(i), LastOperandAt(i, t)
  PROVE  NegativeOnlyByMissingDelay'
<1> USE DEF Visits, setInstructionTimeAndDelay
<1>1. Visited' = Visited \cup {i} /\ i \notin Visited
  BY DEF Visited, IsNext
<1>2. /\ \A j \in Instrs : Sources(j)' = Sources(j)
      /\ \A j \in Instrs : OperandsFirst(j)' = OperandsFirst(j)
      /\ \A j \in Instrs : DelayOf(j)' = DelayOf(j)
      /\ \A j \in Instrs : Anchored(j)' = Anchored(j)
  BY DEF Sources, OperandsFirst, DelayOf, IsLoad, Anchored, program
<1>3. Visited \subseteq Instrs
  BY DEF Visited
<1> SUFFICES ASSUME NEW j \in Visited', ti'[j] < 0
             PROVE  /\ ~Anchored(j) /\ OperandsFirst(j)
                    /\ \A s \in Sources(j) : ti'[s] < 0 \/ DelayOf(s) < 0
  <2>1. \A j \in Visited' : j \in Instrs
    BY <1>1, <1>3
  <2>2. \A j \in Instrs : \A s \in Sources(j) : s \in Instrs
    BY DEF Sources, IInv, TypeOK, Instrs, Constant
  <2> QED BY <1>1, <1>2, <2>1, <2>2 DEF NegativeOnlyByMissingDelay
<1>4. CASE j = i
  <2>1. t < 0
    BY <1>4 DEF IInv, TypeOK
  <2>2. ~Anchored(i) /\ \A s \in Sources(i) : getAvailableTime(s) < 0
    <3>1. \A s \in Sources(i) : getAvailableTime(s) \in Int /\ getAvailableTime(s) <= t
      <4>1. \A s \in Sources(i) : getAvailableTime(s) <= t
        BY Zenon DEF LastOperandAt
      <4>2. \A s \in Sources(i) : s \in Instrs
        BY DEF Sources, IInv, TypeOK, Instrs, Constant
      <4>3. \A s \in Instrs : getAvailableTime(s) \in Int
        BY DEF getAvailableTime, IInv, TypeOK
      <4> QED BY <4>1, <4>2, <4>3, Zenon
    <3> QED BY <2>1, <3>1 DEF LastOperandAt
  <2>3. \A s \in Sources(i) :
          s \in Visited /\ address[s] < address[i] /\ ti[s] + DelayOf(s) < 0
    BY <2>2, OperandsAtVisit
  <2>4. \A s \in Sources(i) : ti'[s] < 0 \/ DelayOf(s) < 0
    <3> SUFFICES ASSUME NEW s \in Sources(i) PROVE ti'[s] < 0 \/ DelayOf(s) < 0
      OBVIOUS
    <3>1. s \in Visited /\ ti[s] + DelayOf(s) < 0
      BY <2>3
    <3>2. s # i /\ s \in Instrs
      BY <1>1, <1>3, <3>1
    <3>3. ti'[s] = ti[s] /\ ti[s] \in Int
      BY <3>2 DEF IInv, TypeOK
    <3>4. DelayOf(s) \in {-1, 0, 1}
      BY DelayRange DEF DelayOf
    <3> QED BY <3>1, <3>3, <3>4
  <2> QED BY <1>4, <2>2, <2>3, <2>4 DEF OperandsFirst
<1>5. CASE j # i
  <2>1. j \in Visited /\ ti'[j] = ti[j] /\ j \in Instrs
    BY <1>1, <1>3, <1>5 DEF IInv, TypeOK
  <2>2. /\ ~Anchored(j) /\ OperandsFirst(j)
        /\ \A s \in Sources(j) : ti[s] < 0 \/ DelayOf(s) < 0
    BY <2>1 DEF NegativeOnlyByMissingDelay
  <2>3. \A s \in Sources(j) : s # i
    <3>1. address[j] < address[i]
      BY <1>5, <2>1 DEF IInv, VisitedPrefix, IsNext
    <3>2. \A s \in Sources(j) : address[s] < address[j]
      BY <2>2 DEF OperandsFirst
    <3>3. address[j] \in Nat /\ address[i] \in Nat
      BY <2>1 DEF IInv, TypeOK
    <3> QED BY <3>1, <3>2, <3>3
  <2>4. \A s \in Sources(j) : ti'[s] = ti[s]
    <3>1. \A s \in Sources(j) : s \in Instrs
      BY <2>1 DEF Sources, IInv, TypeOK, Instrs, Constant
    <3> QED BY <2>3, <3>1 DEF IInv, TypeOK
  <2> QED BY <2>2, <2>4
<1> QED BY <1>4, <1>5

(* No start is before 0 but by operations without a delay, for every       *)
(* program and every address order.                                        *)
THEOREM NegativeStarts == Spec => []NegativeOnlyByMissingDelay
<1>1. Init => NegativeOnlyByMissingDelay
  BY DEF Init, NegativeOnlyByMissingDelay, Visited
<1>2. IInv /\ NegativeOnlyByMissingDelay /\ [Next]_vars => NegativeOnlyByMissingDelay'
  <2> SUFFICES ASSUME IInv, NegativeOnlyByMissingDelay, [Next]_vars
               PROVE  NegativeOnlyByMissingDelay'
    OBVIOUS
  <2>1. ASSUME NEW i \in Instrs, ScheduleLoad(i) PROVE NegativeOnlyByMissingDelay'
    BY <2>1, LoadVisits, VisitExplained
  <2>2. ASSUME NEW i \in Instrs, ScheduleOperation(i)
        PROVE  NegativeOnlyByMissingDelay'
    <3>1. PICK t \in Int, d \in {-1, 0, 1} :
            Visits(i, t, d) /\ d = DelayOf(i) /\ LastOperandAt(i, t)
      BY <2>2, OperationVisits DEF IInv
    <3> QED BY <3>1, VisitExplained
  <2>3. ASSUME reorderInstructionVector \/ UNCHANGED vars
        PROVE  NegativeOnlyByMissingDelay'
    <3>1. UNCHANGED <<program, ti, di, pending>>
      BY <2>3 DEF reorderInstructionVector, vars, program
    <3> QED
      BY <3>1 DEF NegativeOnlyByMissingDelay, program, Visited, Anchored, OperandsFirst,
         Sources, IsLoad, DelayOf
  <2> QED BY <2>1, <2>2, <2>3 DEF Next
<1> QED BY <1>1, <1>2, Invariance, PTL DEF Spec

-----------------------------------------------------------------------------
(* What an instruction of the abstract schedule waits for.                 *)
Awaited(i) == {s \in Sources(i) : address[s] < address[i]}

(* A visit places one instruction as soon as possible.                     *)
LEMMA VisitPlaces ==
  ASSUME IInv, NEW i \in Instrs, NEW t \in Int, NEW d \in {-1, 0, 1},
         Visits(i, t, d), d = DelayOf(i), LastOperandAt(i, t)
  PROVE  S!Place(i)
<1> USE DEF Visits, setInstructionTimeAndDelay
<1>1. i \notin Visited /\ Visited' = Visited \cup {i}
  BY DEF Visited, IsNext
<1>2. /\ Awaited(i) \subseteq Visited
      /\ \A s \in Awaited(i) : getAvailableTime(s) = ti[s] + DelayOf(s)
      /\ \A s \in Sources(i) \ Awaited(i) : getAvailableTime(s) = 0
  BY OperandsAtVisit DEF Awaited
<1>3. ti' = [ti EXCEPT ![i] = t] /\ ti'[i] = t
  BY DEF IInv, TypeOK
<1>4. ti' = [ti EXCEPT ![i] = ti'[i]]
  BY <1>3
<1>5. \A s \in Awaited(i) : ti[s] + DelayOf(s) <= t
  BY <1>2 DEF LastOperandAt, Awaited
<1>6. Anchored(i) \/ ~OperandsFirst(i) => 0 <= t
  <2>1. CASE Anchored(i)
    BY <2>1 DEF LastOperandAt
  <2>2. CASE ~OperandsFirst(i)
    <3>1. PICK s \in Sources(i) : s \notin Awaited(i)
      BY <2>2 DEF OperandsFirst, Awaited
    <3>2. getAvailableTime(s) = 0 /\ getAvailableTime(s) <= t
      BY <1>2, <3>1 DEF LastOperandAt
    <3> QED BY <3>2
  <2> QED BY <2>1, <2>2
<1>7. \/ \E s \in Awaited(i) : ti[s] + DelayOf(s) = t
      \/ (Anchored(i) \/ ~OperandsFirst(i)) /\ t = 0
  <2>1. CASE Anchored(i) /\ t = 0
    BY <2>1
  <2>2. ASSUME NEW s \in Sources(i), getAvailableTime(s) = t
        PROVE  \/ \E r \in Awaited(i) : ti[r] + DelayOf(r) = t
               \/ ~OperandsFirst(i) /\ t = 0
    <3>1. CASE s \in Awaited(i)
      BY <1>2, <2>2, <3>1
    <3>2. CASE s \notin Awaited(i)
      BY <1>2, <2>2, <3>2 DEF Awaited, OperandsFirst
    <3> QED BY <3>1, <3>2
  <2> QED BY <2>1, <2>2 DEF LastOperandAt
<1>8. S!AsSoonAsPossible(i, ti'[i])
  <2>1. \A s \in Awaited(i) : s \in Instrs /\ S!Finish(s) = ti[s] + DelayOf(s)
    BY <1>2 DEF S!Finish, Visited
  <2>2. [j \in Instrs |-> {s \in Sources(j) : address[s] < address[j]}][i] = Awaited(i)
    BY DEF Awaited
  <2>3. i \in {j \in Instrs : Anchored(j) \/ ~OperandsFirst(j)}
          <=> Anchored(i) \/ ~OperandsFirst(i)
    OBVIOUS
  <2> HIDE DEF Visits, setInstructionTimeAndDelay
  <2> QED BY <1>3, <1>5, <1>6, <1>7, <2>1, <2>2, <2>3 DEF S!AsSoonAsPossible
<1>9. /\ [j \in Instrs |-> Awaited(j)]' = [j \in Instrs |-> Awaited(j)]
      /\ {j \in Instrs : Anchored(j) \/ ~OperandsFirst(j)}'
           = {j \in Instrs : Anchored(j) \/ ~OperandsFirst(j)}
      /\ [j \in Instrs |-> DelayOf(j)]' = [j \in Instrs |-> DelayOf(j)]
  BY DEF Awaited, Sources, DelayOf, IsLoad, Anchored, OperandsFirst, program
<1> QED BY <1>1, <1>2, <1>4, <1>8, <1>9 DEF S!Place, Awaited

(* The initial table is an initial state of the schedule.                  *)
LEMMA InitRefines == Init => S!Init
<1> SUFFICES ASSUME Init PROVE S!Init
  OBVIOUS
<1>1. \A i \in Instrs : Sources(i) \subseteq Instrs
  BY InitIInv DEF Sources, IInv, TypeOK, Instrs, Constant
<1>2. \A i \in Instrs : DelayOf(i) \in Int
  BY DelayRange DEF DelayOf
<1>3. Visited = {} /\ ti = [i \in Instrs |-> 0]
  BY DEF Init, Visited
<1>4. [i \in Instrs |-> {s \in Sources(i) : address[s] < address[i]}]
        \in [Instrs -> SUBSET Instrs]
  BY <1>1
<1>5. [i \in Instrs |-> DelayOf(i)] \in [Instrs -> Int]
  BY <1>2
<1> QED BY <1>3, <1>4, <1>5 DEF S!Init

(* Every step is a step of the schedule or leaves it alone.                *)
LEMMA NextRefines == IInv /\ [Next]_vars => [S!Next]_(S!vars)
<1> SUFFICES ASSUME IInv, [Next]_vars PROVE [S!Next]_(S!vars)
  OBVIOUS
<1>1. ASSUME NEW i \in Instrs, ScheduleLoad(i) PROVE S!Next
  BY <1>1, LoadVisits, VisitPlaces DEF S!Next
<1>2. ASSUME NEW i \in Instrs, ScheduleOperation(i) PROVE S!Next
  <2>1. PICK t \in Int, d \in {-1, 0, 1} :
          Visits(i, t, d) /\ d = DelayOf(i) /\ LastOperandAt(i, t)
    BY <1>2, OperationVisits DEF IInv
  <2> QED BY <2>1, VisitPlaces DEF S!Next
<1>3. ASSUME reorderInstructionVector \/ UNCHANGED vars PROVE UNCHANGED S!vars
  <2>1. UNCHANGED <<program, ti, di, pending>>
    BY <1>3 DEF reorderInstructionVector, vars, program
  <2> QED
    BY <2>1 DEF S!vars, program, Visited, Sources, DelayOf, IsLoad, Anchored,
       OperandsFirst
<1> QED BY <1>1, <1>2, <1>3 DEF Next

(* The scheduler computes an as-soon-as-possible schedule of what the      *)
(* address order respects, for every program, operations and numbering.    *)
THEOREM Refinement == Spec => ImplementsSchedule
BY InitRefines, NextRefines, Invariance, PTL DEF Spec, S!Spec, ImplementsSchedule
=============================================================================
