----------------------------- MODULE LiMMachine -----------------------------
(***************************************************************************)
(* The machine PrintVhdlFile.cpp describes: the binder's array and states, *)
(* executed.  A token passes through GO, T1, T2, ..., DONE, one per clock  *)
(* cycle.  In an odd Ti the rows of a state are written, in the even one   *)
(* after it their memory cells are read into the logic beside them.        *)
(*                                                                         *)
(* A word is a symbolic value: where it came from, or an operation and its *)
(* operands.  The operations that have a printing function commute.        *)
(*                                                                         *)
(* Rows shared through a multiplexer are not executed: their lines assign  *)
(* to ROW_r instead of ROW_r_OUT, or declare with "s\tignal", or give a    *)
(* value to a ROW_r_SEL that a row with two lines does not have, so that   *)
(* there is no machine.  Mem has a word for every row here, however few    *)
(* the architecture declares: see AddressesFit.                            *)
(***************************************************************************)
EXTENDS LiMBinder

VARIABLES
  T,            \* which of the enable signals is '1', or Off
  Mem,          \* row -> word in its memory cells
  MEM_RD        \* row -> word last read from them

machine == <<T, Mem, MEM_RD>>
machineVars == <<vars, machine>>

Off == -1
GO == 0
DONE == 2 * getFSMSize - 1

Word(r) == <<"word", r>>
Zero == <<"zero">>
Apply(op, x, y) == <<op, {x, y}>>

bitwise == {"and", "nand", "or", "nor", "xnor", "xor"}
HasLogic(r) == limArray[r].rowType \in bitwise \cup {"add"}

(* The architecture can be elaborated but for the length of its memory.    *)
Elaborates ==
  /\ status = "done" /\ Rows # {}
  /\ selectionSignalsList = << >>
  /\ \A r \in Rows : limArray[r].rowType = "load" \/ HasLogic(r)

getNumberInputs ==
  Cardinality({r \in Rows : Driver(r) = NoMemoryInput})

entries == Cardinality(Rows)        \* getDimensions

-----------------------------------------------------------------------------
InitMachine ==
  /\ Init
  /\ T = Off /\ Mem = EmptyMap /\ MEM_RD = EmptyMap

Synthesise == Next /\ UNCHANGED machine

(* RST, then the testbench writes as many words as there are inputs, from  *)
(* address 0 on, and gives GO.                                             *)
WriteInputs ==
  /\ T = Off /\ Elaborates
  /\ T' = GO
  /\ Mem' = [r \in Rows |-> IF r < getNumberInputs THEN Word(r) ELSE Zero]
  /\ MEM_RD' = [r \in Rows |-> Zero]
  /\ UNCHANGED vars

Running == T # Off /\ T < DONE

RowsAt(t) == IF t \in DOMAIN FSM THEN FSM[t] ELSE {}

(* go_rd_proc: GO stands for the read of state 0, T(2t) for that of t.     *)
go_rd_proc ==
  /\ Running /\ T % 2 = 0
  /\ MEM_RD' = [r \in Rows |-> IF r \in RowsAt(T \div 2) THEN Mem[r] ELSE MEM_RD[r]]
  /\ T' = T + 1
  /\ UNCHANGED <<vars, Mem>>

(* The logic of a row takes its own word and that of its second line.      *)
ROW_OUT(r) ==
  Apply(limArray[r].rowType, MEM_RD[r], MEM_RD[limArray[r].inputConnections[2]])

(* Seeded fault: a result row is written like a copy row.                  *)
EntersFromMemory(r) == MEM_RD[Driver(r)]

(* What the write state of a row stores: the output of the logic that      *)
(* feeds it for a result ("OLiM"), the word of the row it copies for a     *)
(* copy row ("OC").                                                        *)
Enters(r) == IF r \in DOMAIN computes THEN ROW_OUT(Driver(r)) ELSE MEM_RD[Driver(r)]

(* wrt_proc, with EN = '0'.                                                *)
wrt_proc ==
  /\ Running /\ T % 2 = 1
  /\ LET written == RowsAt((T + 1) \div 2) IN
     Mem' = [r \in Rows |-> IF r \in written THEN Enters(r) ELSE Mem[r]]
  /\ T' = T + 1
  /\ UNCHANGED <<vars, MEM_RD>>

NextMachine == Synthesise \/ WriteInputs \/ go_rd_proc \/ wrt_proc

MachineSpec == InitMachine /\ [][NextMachine]_machineVars

-----------------------------------------------------------------------------
(* When DONE is given, the words of the inputs are still there, and every  *)
(* row a name stands for holds the operation asked for, on what the rows   *)
(* of its operands hold.  This rests on all the phase has done: names,     *)
(* lines, logic, states, the results shared by lastDestMap, the chain of   *)
(* states.  Left out are elements without a row, and an operation of a     *)
(* word on itself, for which a result of that word and another is reused   *)
(* (LiMBinder.cpp:924-950).                                                *)
MachineComputes ==
  T # Off /\ T = DONE =>
    /\ \A reg \in Vars \cap Named : \A k \in DOMAIN arrayNamesMap[reg] :
         LET r == arrayNamesMap[reg][k] IN Mem[r] = Word(r)
    /\ \A a \in answers :
         a.row \in Rows /\ a.src1 # a.src2 =>
           Mem[a.row] = Apply(a.operation, Mem[a.src1], Mem[a.src2])

(* PrintVhdlFile.cpp:67: "The memory parallelism and number of words are   *)
(* set based on par and entries member variables": the address of every    *)
(* row is in the array, which is 0 to entries - 1 (PrintVhdlFile.cpp:134). *)
AddressesFit == status = "done" => \A r \in Rows : r < entries
=============================================================================
