# Octantis in TLA+

Octantis is an LLVM function pass (`src/llvm/lib/Transforms/Octantis/`) that
turns a C function, compiled by clang without optimisation, into a
Logic-in-Memory (LiM) array, the finite state machine that drives it, and VHDL.
Everything else under `src/` is the LLVM tree the pass is built in.
This directory models the decisions of the pass: which operation is recognised,
when it is scheduled, which row of the array it gets, and in which state that
row is written.

The program is sequential: no thread, no message, no callback. What makes it
hard is **data made by one phase and consumed by another through tables keyed
by addresses**, filled with `std::map::insert` (which never overwrites), by code
that keeps its context in members between calls. The hazards are therefore
protocol sequences, stale state, order and numeric edges, not interleavings.

## Inventory

| Component | State it keeps | Operations | Talks to | What makes it correct |
|---|---|---|---|---|
| OctantisPass | the pass object's `instructionTable`, configuration | runOnFunction: the phases in sequence | all | each phase gets the result of the one before it, for this function |
| Configuration parser (`PrintConfig`) | maps of options | ParseConfigFile, fieldListMaker, getters | file, driver | an option is what the file says, the loops end |
| CollectInfo, LoopInfoTable, PointerInfoTable | aliases, array sizes, valid blocks, loop and pointer records | parse* over the blocks, isArray, getArraySize, getAllocatedReg, isValidInst | LLVM IR; read by all later phases | sizes, loops and pointers are those of the function |
| DependencyDetector | operand latches, load counter, last definition of each variable | load, operation, store handlers | CollectInfo; fills InstructionTable | an operation is recorded with the operands it reads |
| InstructionTable | map register -> instruction, order vector | insert, patch, swap, reorder, times | detector, scheduler, binder | entries are found, order puts definitions before uses |
| ASAP, OperationsDelay | none (a copy of the table) | scheduleFunction, getTime | InstructionTable | an operation starts when its operands are available |
| AddressList, AccessPattern | one list of element positions | shape, expand, getSubset, detectAccessPatternType | LiMBinder, CollectInfo | the positions are those the loops visit |
| LiMBinder | `arrayNamesMap`, `lastDestMap`, next name, current instruction | load, fully parallel and accumulation binding | tables above; fills LiMArray and FSM | a result row is fed by the operation asked for, after its operands |
| LiMArray | map row -> type, connections, extra logic | add*, changeLiMRowType, addNewInputConnection, find | LiMBinder, printers | no row lost or rewired |
| FiniteStateMachine | `FSM2`, `FSM`, selection signals | addNewInstruction, transform, insertSelectionSignal | LiMBinder, printers | every row is written in a state that exists |
| PrintVhdlFile | file | print | array, FSM | the VHDL has the states and selections of the FSM |
| PrintDexFile, PrintCadFile | file | print (calls commented out) | array | - |

## Modules

| Module | Models | Extends |
|---|---|---|
| `StdContainers` | `std::map::insert` and lists as values of a map | - |
| `PrintConfig` | the parser of `Octantis.cfg`, line by line | StdContainers |
| `OctantisPass` | the phases of one function after another, the file edited in between | PrintConfig |
| `OctantisPassProofs` | theorems about OctantisPass | OctantisPass |
| `Schedule` | abstract: what "as soon as possible" promises | - |
| `ASAP` | the scheduler, the delay table, reordering | StdContainers |
| `ASAPProofs` | theorems about ASAP | ASAP |
| `DependencyDetector` | the detector and InstructionTable | StdContainers |
| `DependencyDetectorProofs` | theorems about DependencyDetector | DependencyDetector, NaturalFacts |
| `LiMArray`, `FiniteStateMachine` | the two data structures, as operators without variables | StdContainers |
| `LiMBinder` | loads and fully parallel binding, composed with the two | LiMArray, FiniteStateMachine |
| `LiMBinderProofs` | theorems about LiMBinder | LiMBinder |
| `Accumulation` | accumulation binding, beside loads and operations | LiMBinder, AddressList |
| `AccumulationProofs` | theorems about Accumulation | Accumulation, LiMBinderProofs, NaturalFacts |
| `LiMMachine` | the printed VHDL machine, executed on what the binder made | LiMBinder |
| `LiMMachineProofs` | theorems about LiMMachine | LiMMachine, LiMBinderProofs |
| `NaturalFacts` | induction over the naturals, stated with sets | - |
| `AccessPattern` | the pattern of an access, as operators | - |
| `AddressList` | from a pattern and its geometry to the rows read, as operators | - |
| `CollectInfo` | the walk over loops and blocks, with LoopInfoTable and PointerInfoTable | AccessPattern |
| `CollectInfoProofs` | theorems about CollectInfo and ArrayAccess | ArrayAccess, NaturalFacts |
| `ArrayAccess` | what the binder makes of CollectInfo's tables, against the loops themselves | CollectInfo, AddressList |
| `MC_*` | instances for TLC | the module |

Registers and rows are identities, not addresses. A row name is a counter in
words (the code's counter in bytes divided by four). Where the code reads an
address *order* (the scheduler walks a `std::map<int *, ...>`), the order is
chosen in `Init` among all of them.

### PrintConfig, OctantisPass

`ParseLine` has one action per branch of `ParseConfigFile`'s loop; `MakeItem` is
one iteration of `fieldListMaker`. Of a list only the first item is ever read
(the getters take `begin()`), so a list is represented by it. A line without `=`
is a field whose value is its own text. `phase` is where `runOnFunction` stands;
a table is represented by the function it was made for, so that a stale one is
recognised. `Throw` is a missing option (`at()`) or a word length that
`std::stoi` rejects; `ReadNoValue` is `begin()` of an empty list. `bound` is
history: what the binder was called with.

### ASAP

`pending` holds the keys the `for` loop has not visited; `IsNext` is the map's
iterator. `ti` and `di` are those of the live table, which the loop writes while
it walks a copy. `ScheduleLoad` and `ScheduleOperation` are the two branches of
the body, `reorderInstructionVector` what follows. `Init` chooses any program in
single assignment form and any order of the keys. `Schedule` is the promise of
the phase: dependencies, and a start for each operation as soon as they end. The
mapping gives it the dependencies whose operand has the lower key, because the
scheduler sees the others as available at 0.

### DependencyDetector

The detector sees a stream of loads, operations and stores. `stack` is clang's
evaluation order; the detector does not have it. `src1`, `src2`, `dest` are its
latches, each a record of the register, type and pointer members. One action per
path: `Load`, `Operate`, `OperateNegated`, `OperateSuppressed`, `Complement`,
`OperateUnknown`, and six stores. `asked` records what each operation reads
according to the stack, `reaching` the last definition of each variable.
`shape` says which shape (`Shapes`) other than the left-nested statement
`v = ((a op b) op c) op ...`, the form the latches can follow, the program has
used; `plain` says that it is none. `holder` records the variable that a result
was first stored in. Uninitialised pointers have the value `Garbage`.
Dereferencing `end()` stops the run (`status`). Which of two array pointers a
result keeps depends on subset counts and is left open.

### LiMBinder

`FetchLoad`/`BindLoad` and `FetchOperation`/`performBinding` split a handler at
the head of its loop over elements, so that each iteration is a step; nothing
else runs in between. `performBinding` has one action per branch of the code:
`ReuseResult`, `DropOperation` (the reuse test succeeds, the type test fails and
nothing is bound), `ConvertSrc2`, `ConvertSrc1`, `ShareSrc2`, `ShareSrc1`,
`CopyRow`, `ShiftInPlace`, `ShiftCopy`, `MissingRow`. The uninitialised
`constant`, `tCopy` and `effAddrDestReg` of the shift path are nondeterministic:
`constant` is a member and chosen in `Init`, the others at each step.
A pointer is a list of positions (`Accesses`); what produces the list is
modelled in `ArrayAccess`. `computes` and `answers` are history: what a
result row was made for, and which row an element was told to use. The first of
a row's lines writes its word (`Driver`); the logic of the row reads its own word
and the lines from the second on (`ReadsLine`). The two ways in which a name is
not found, the unreachable end of `findRow` and the `end()` that `getTime`
dereferences for the same name, are one status: the run of the program is over
at the first of them. The FSM side
of the VHDL printer is the operators `getFSMSize`, `SelectionStates`, `Selects`.

### Accumulation

`FetchAccumulation`, `TakeList` (one iteration over the lists of a set) and
`EndAccumulation` are the handler; where `findInANM` does not find its operand
the handler fails as that of an operation does (`FetchConstantOperand`, with
constant operands part of the run). `performAccBinding` is split at the heads of
its loops: `ReplacePair` and `KeepRow` are one iteration of the search for
results that exist, `EndPass` its end; `BeginStep`, `EndStep`, `AnswerFront` are
the loop over the levels of the tree; `ConvertRow2`, `ConvertRow1`, `CopyInTree`
are one pair. `tree` holds the locals of the function. The geometry that cuts a
set (`Shapes`) is that of the destination, or whatever the instruction before
left in `srcReg2PointerInfo`: both are covered by choosing it freely.
`summands` and `sums` are history: the bag of rows a partial result adds up, and
the row answered for each list. `NextAcc` interleaves accumulations with the
loads and operations of `LiMBinder`, over the same tables.

### LiMMachine

When synthesis is done, the machine that `PrintVhdlFile` prints is run: a token
through GO, T1, ..., DONE, with `go_rd_proc` in its even cycles and `wrt_proc` in
the odd ones, over the memory `Mem` and the words last read, `MEM_RD`. A word is
a symbolic term, so that equal terms mean that the same operations were computed
on the same inputs. The testbench writes its inputs from address 0 on. A program
in which a row is shared has no machine: those lines do not compile (below).

### CollectInfo, AccessPattern, AddressList

`CollectInfo` is a state machine because that is what the code is: an array
access is put together from instructions far apart, through maps that keep only
the last register of an iterator, and through a struct that nothing resets.
`pc` says which part of the walk is on: `ParseAllocas`, then for each loop
`ParseLoopPreheader`, one `HeaderLoad` per load and `HeaderCompare`, then the
blocks (`EnterBlock`, one action per instruction, `LeaveBlock`). `Pointer` ends
in `SetPointerInfo`, which computes matrix, pattern and geometry of the access.
`pc = "undefined"` is reached where the code dereferences or erases `end()`.
Integers that the code never assigns come from `Garbage`, one value for all
those of a loop record. The elements that `AccessPattern` reads outside its
vectors are a parameter (`HeapContents`) over which `SetPointerInfo` ranges.

What the functions look like is external: `MC_ArrayAccess` lays loop nests out
as clang does without optimisation (preheader, header, body, exit, latch; a load
and an extension for each iterator of an index). `prog.access` says what each
access is in the source and is read by the properties alone.

`ArrayAccess` composes the tables with `AddressList` as the binder does at the
beginning of a fully parallel operation, and compares the result with
`ElementsRead`: the element of each execution of the access, computed from the
loops without any table.

## What is checked

Fairness. Two runs have a liveness property. In `Accumulation` it is weak
fairness of `Work`, the steps the binder takes by itself once it has an
instruction; in `OctantisPass` of `Step`, the steps of `runOnFunction` once it is
called. Both stand for one thread that nothing suspends; nobody is obliged to
have another instruction or function, or to edit the file. The other
specifications are safety only. `CHECK_DEADLOCK FALSE` is given where synthesis
ends.
Each module with variables has one type invariant; that of `LiMBinder` is a
conjunct of `TypeOKAcc`.

| Run | Instance | Shows |
|---|---|---|
| `asap_any_address` | 4 instructions, `add`, `load` and an operation without delay, all 24 key orders | implements `Schedule`; an operation visited after its operands starts exactly when the last ends |
| `machine_scalars` | 2 variables, 4 results, `and`/`add`, any operand pair | fresh names, causality, wiring, that rows, states and multiplexers agree, exactly which elements are lost, and that the printed machine computes the program where no row is shared |
| `vhdl_addresses` (violation) | 2 results | the row of the second result is past the end of the declared memory |
| `binder_arrays` | 2 arrays of 2 elements, 4 access lists, 2 results, `and`/`xor`/`shl`, constants | results stay driven and reuse stays sound across elements and shifts; uninitialised values stay in the rows they name |
| `binder_missing_row` (violation) | 2 variables, 3 results | `c = a & b; d = a ^ b; e = d & a` reaches the unreachable end of findRow |
| `binder_mux` (violation) | 3 variables, 3 results | a shared row is written while its multiplexer selects another operand |
| `accumulation` | an array of up to 4 elements, 2 results, sets with repeated elements and of length 2 to 9, prefixes and triangles, with and without the optimisation | sums are exact, no row lost but in the named cases, trees are logarithmic, lists are those of the set, every instruction ends |
| `pass_driver` | 2 functions, and the file edited between them: the distributed one with a line removed, moved or added, the default one, none | what each option is, the same options and the own table for every function, every function ends unless an option is a list |
| `detector_statements` | 2 variables, an array, 8 registers; 6 when a shape is used | operands and definitions kept for left-nested statements; exactly what the other shapes lose; the table is always bindable; where an accumulator ends up |
| `detector_copy` (violation) | copies allowed | `y = x; z = y + x` names an operand the table does not have |
| `array_access` | 1163 functions: single loops with all bounds in 0..3, 5 predicates and 5 steps; all pairs of index forms in nests of one to three loops; 3x3 and 2x3 matrices; shared iterators, variable bounds, a nest after a loop that reads one of its iterators, sets, a triangle | tables and the rows read are those of the program, under the conditions below, and what they are where a condition does not hold |
| `array_transpose` (violation) | Xor_Images.c with 2 rows | `B[j][i]` is bound by rows when the int behind a vector is not zero |

What `array_access` says, precisely. `IndexesRecorded`: an access in a form that
`parseLoopBody` has a case for (`HandledForms`) is recorded with its own
indexes, array and loop, whatever was accessed before. `LoopsRecorded`: a nest of
loops with constant bounds that run, each with an iterator of its own, has its
bounds, its iteration counts and its order in the tables, provided every loop of
the function is the first whose header reads its iterator (`OwnIterators`). `SurvivorsClosed`: no
instruction left to the detector reads one that was taken out, where the
registers of the indexes are read by the indexes alone (`IndexesApart`). Two things
the code does not follow are named there: an iterator that is read as data, whose
load is taken out all the same, and the first block, which is searched for
allocas and nothing else (CollectInfo.cpp:57-62), so that an access in it would
stay unknown. `AddressesExact`: the rows bound to an operand are the
elements the loops read, in that order, for a vector under any loop of the nest
but the third, for a square matrix by rows under two loops, and by columns when
it was recognised as such and both loops and constants are alike.
`ReturnsWithoutSets`: shapeAddressList returns for ascending loops with one
iterator in each index, that of a loop around the access. Each condition was
found by dropping it and is a limit of the code. Three properties, each the
conjunction of named parts, say what the code does beyond them:

* `UnsupportedIndexes`. `x[i-1]`, `x[1+i]` keep the index of the access before
  (CollectInfo.cpp:637): never an index that no access has in that place
  (`StaleIndexFromOther`). The detector loses data only where the program reads
  the variable of a header, or an element whose index was not found
  (`OnlyIndexesLost`).
* `UnsupportedLoops`. A loop that reuses an iterator, or starts or ends at a
  variable, gets the record of another one or none (LoopInfoTable.cpp:48,
  CollectInfo.cpp:405). The first loop to read the iterator keeps its own
  (`FirstUseKept`), but for its nest: the header of the later loop leaves the
  pointer `it` unassigned, and where the pointer still has the iterator of the
  loop before, the loops around the new one are appended to the nest of the old
  one (LoopInfoTable.cpp:40-46), whose iteration vector then names a loop twice.
  The proof of `LoopsRecorded` failed without `OwnIterators` and showed this. A
  variable bound is recorded exactly if a header has read it before; else it is
  taken for the iterator (`BoundsTold`). A loop that steps towards its bound and
  never runs is recorded with no iterations, unless it starts past the bound by
  less than a step (`IdleLoops`).
* `UnsupportedAddresses`. `x[i+j]` makes shapeAddressList run away (spacing -1,
  CollectInfo.cpp:1429), and so does a set with one such index, but no other
  pointer of ascending loops that is no triangle (`RunsAwayForSums`). Two loops
  that an index does not use are taken for a triangle (AddressList.cpp:107): a
  vector under the third loop of a nest is bound to no row (`ThirdLoopUnbound`).
  Rows and columns are exchanged (CollectInfo.cpp:175): a matrix that is not
  square is bound right only in its first row (`WideByRows`). Constants of
  `A[j+1][i]` end up on the other axis.

Two things are in no property. With `ult` and a distance that the step divides,
the number of iterations is never assigned (CollectInfo.cpp:498); and what the
true triangle of `sat.c` reads depends on bounds the tables do not have.

What `detector_statements` says of other shapes, precisely. `UnsupportedShapes`
has three parts. `OperandsRightOrLost`: with a nested right operand, an
operation has the operands it reads, or the last result alone, never one of
another operation. `DefinitionsConfined`: with nested operands, chained stores
and constants, a variable whose definition is stale was given a constant, or a
result that was stored in another variable first (DependencyDetector.cpp:283).
`LostToComplement`: operations that are not in the table are a complement and
those that follow while nothing completes it, and only their results are missing
as definitions.

What the binder's runs say of shared rows, precisely. `ResultsDriven`: the row that
writes the word of a result has the logic of its operation and reads the operand
it does not hold, by a line of its logic; the line that writes its own word does
not count. There is one exception, `OperandDropped`. In
`t1 = v1 & v2; t2 = v1 & t1; t3 = v2 & t1` the third operation shares the row of
`t1`, to which `v2` should be added; but `v2` writes that row, so it is in the
list already and `addNewInputConnection` leaves it out (LiMArray.cpp:156-160),
although the binder reports a new input connection (LiMBinder.cpp:1009). The
logic of the row goes on to read `v1`, and `t3` is given `t1 & v1`. The property
says that operands are lost in this way only. `RowsAndStatesAgree`: every row is
written (`EveryRowWritten`), every state with a row is in the chain
(`StatesReachable`), and a row of three lines has selection states
(`MuxSelected`; a row of two lines that got some is the exception above).
`GarbageConfined`: a shift that copies its operand enters a row and a time that
nothing initialised; the order of operands and results is kept by every result
but one in such a row.

What `accumulation` says, precisely. `SumsExact`: the row answered stands for
the bag of rows in the list. `LostOnlyWhole`: a list is answered with the front
of an empty list (LiMBinder.cpp:885, 898) only if it has one row or its whole sum
already is some result. `LogarithmicDelay`: the sum is ready at most two states
per level of the tree after one of the rows. `ListsTaken`: which rows are in a
list. With the optimisation, the first three leave out lists in which a row is
repeated: `searchForResult` finds such a row in both operands of a result that
has it in one (LiMBinder.cpp:1224). Limits of the code that the model keeps:

* An untriangular set is cut into its *prefixes*: the list emptied between two
  lists is `accumulationList`, not the one being filled (LiMBinder.cpp:265).
* A copy row is not entered in `addMap`, so its sum is never reused.
* When the destination is a variable, the geometry is that of an earlier
  instruction, and an array on the right is shaped without `setAddressList`.

What `pass_driver` says, precisely. `OptionsFromFile`: after the first function
has parsed the file, each option is what the first line that gives it says. A
section the parser does not know does not end the one before it, and
`MaxDimensions` of the distributed file is none of the accepted fields
(PrintConfig.h:66 has `MaxDimension`). `SameOptions`: editing the file between
functions has no effect on options that are there. `OwnTableOrNone`: when the
algorithm is not ASAP, the binder gets a table without instructions.
`FunctionEnds` excludes a list in brackets: `fieldListMaker` compares
`string::npos` with `NULL` and does not return (PrintConfig.cpp:181). A missing
option ends the process by an exception.

`MachineComputes`: at DONE the inputs are still in memory and the row of every
answer holds the operation asked for on the words of its operands. It leaves out
three things, limits of the code:

* A program with a row shared by a multiplexer: its output line assigns to
  `ROW_r` instead of `ROW_r_OUT` (PrintVhdlFile.cpp:607), one declaration reads
  `s\tignal` (PrintVhdlFile.cpp:623), and a connection that was there already is
  not added again (LiMArray.cpp:156, `OperandDropped`), so that a `ROW_r_SEL` is
  given values but not declared, as for `t = a & b; u = b ^ t; v = t ^ a`.
* `a op a` after `a op b` is answered with the result of the latter: the reuse
  test finds the operand in it twice (LiMBinder.cpp:924-950).
* The declared length of the memory: every operation takes one name more than
  it adds rows (LiMBinder.cpp:428), so that addresses exceed the number of rows.
  `vhdl_addresses` shows that; `LiMMachine` runs with memory enough.

`AccumulatorSecond`: in `v = v op ...` the detector puts the variable second, as
accumulation binding needs, unless the number of loads before is even and four
or more (`acc += a + b + c`): then the latches are the other way round and the
swap undoes what was right (DependencyDetector.cpp:300).

Bounds. Four instructions give every scheduler path: two operands of one
instruction, themselves computed, in any key order. Two variables and four
results take the binder through every branch: the third operand of a row needs
two results on it, a copy row needs both operands full, and each property has a
seeded fault that these sizes find; three results are the fewest that lose an
element and use it, or select wrongly. Sets of one to nine rows are lists of
every length up to five and trees of up to three levels, odd ones included; two
results are a tree that meets the rows, partial sums and whole sums of another.
Two functions are enough for the state of the pass object, since a third meets
nothing the second does not. Arrays of two elements let the elements of
one instruction meet each other. Eight registers are two statements of the
detector, one of them with three operands, so that a definition crosses
statements and both parities of the load counter occur; six, when a shape is used,
hold `a op (b op c)` and a load after it. A program uses one shape once. For arrays, the forms of two
accesses one after the other are what stale indexes need; bounds from 0 to 3
with steps up to 3 have every rest of the division, loops that do not run and
loops whose test is met at once; `MaxTrips` bounds only the reference count of
iterations; four loops are what the code's patterns go up to; two contents of
memory, zero and not zero, are all that the detection tells apart.

## What is proved

`ASAPProofs`, for every number of instructions, operation set and numbering:

* `TypeCorrect`: `Spec => []TypeOK`.
* `ExactStarts`: `Spec => []StartsWhenOperandsEnd`. The property alone is not
  inductive: a later step could change the time of an operand. The invariant
  adds that only pending entries are ever written and that the visited keys are
  a downward closed set of the map order, so an operand with a lower key is
  visited, and final, when its consumer is.
* `NegativeStarts`: `Spec => []NegativeOnlyByMissingDelay`, that a start is below 0
  only by an operation without a delay visited before, by the same invariant and the fact that a maximum of ends is below 0 only if an end is.
* `Refinement`: `Spec => S!Spec`, for every numbering and without assuming that
  operations have delays: an operation that is missing in `delayMap` has delay
  -1 in the abstract schedule as well.

`LiMBinderProofs`, for every set of registers, operations, access lists and
array sizes:

* `TypeCorrect`: `Spec => []TypeOK`, with nothing assumed. Its invariant adds
  that the element being bound is inside both operand lists and that the name
  kept for it is the last one given.
* The other theorems assume `NoShifts`: a shift that copies its operand enters
  an uninitialised row name in the FSM, after which no table can be related to
  another. Under it, `Spec => []X` for `FreshNames`, `Causality`,
  `ResultsDriven`, `ReuseSound`, `RowsAndStatesAgree` (and each of its three
  parts), `LostOnlyByOtherOperation` and `MissingRowsWereLost`.

They come from one inductive invariant, `BindInv`. None of the properties is
inductive alone: that a result stays driven needs names to be fresh (a new row
must not be lost to `insert`), which needs every name ever answered to be below
the counter (`Answered`), since `adjustName` takes a name back; that reuse is
sound needs `lastDestMap` to lead only to results made of the operand
(`Remembered`); that no state is empty needs every LiM row to have a later
result (`Steady`), which is what fills the state a multiplexer skips. The five
branches that add a result share one step, `Bound`: an array that extends the
old one in rows, types and lines. What feeds a result is kept by it (`Fed`)
because lines are only added behind those a row has, and a row that gets logic
had none (`Combines`); the operand asked for is then a line of that logic
(`WiredTo`), unless it was the first line of a row that is shared, and such a row
keeps its selection states (`SignalsKept`), which is how `OperandDropped` is
recognised ever after. `LossInv`, on top of it, follows names through
`arrayNamesMap` and the operand lists: each is a row, or was answered for an
element that got none.

`OctantisPassProofs`, for every set of files and functions: `OneSetOfOptions`
(`Spec => []SameOptions`), `TablesAreOwn` (`Spec => []OwnTableOrNone`),
`TypeCorrect` (`Spec => []TypeOK`) and `OptionsAreFirstLines` (`Spec =>
[]OptionsFromFile`). The first two are not inductive. Both rest on
`OptionsStay`, that no line of a file takes an option away or changes it, since
a section and a field are inserted and `insert` leaves what is there. So the
invariant can say that every past call of the binder agrees with the *present*
options, and that there is a table only if the present algorithm is ASAP.
`OptionsAreFirstLines` has an invariant for a file that is half read: in front
of `line`, every option is what the first line that gives it says, and the
current section is the last one opened (`ReadUpTo`, `MacroOf`). What is assumed
of a file is that it is a sequence of lines (`FilesAssumption`).

`DependencyDetectorProofs`, for every set of variables, arrays and opcodes, every
shape and every length of a program (the bounds are parameters):

* `TypeCorrect`: `Spec => []TypeOK`, whatever shapes the program uses.
* `OperandsAreKept`, `DefinitionsAreCurrent` and `AccumulatorIsSecond`:
  `Spec => []OperandsKept`, `Spec => []DefinitionsCurrent` and
  `Spec => AccumulatorSecond`. They come from one invariant, `PlainInv`, about
  programs of left-nested statements, that says how the latches mirror the stack
  they do not have. Before the first operation they hold the one or two values
  loaded, in order. After it, the destination is the result at the bottom of the
  stack, the parity of the loads tells which latch has the value loaded since,
  and with it the order of the operands in the table: straight after an even
  number of loads, crossed after an odd one. No variable has that result as its
  definition yet, so the next operand cannot be mistaken for it. The accumulator
  is then second by the parity, or by the swap, but not by both.
* `OrderIsBindable`: `Spec => []BindableOrder`, for every program, with shapes.
  While instructions are inserted, a key is in the vector once, loads read
  variables, and every operand that is a result was entered before (`Recorded`).
  The two loops at the end then keep the order of the loads and of the others
  and put all loads first, which is shown of `SelectSeq` by the positions the
  selected elements come from.

`LiMMachineProofs`, for every program without shifts, every set of registers,
operations and access lists: `MachineIsRight`,
`NoShifts => (MachineSpec => []MachineComputes)`. On top of `BindInv`, `Ready` says
what the machine needs of the tables: loads have the first rows and the first
state, every other row is a result or copies a row of an earlier state, and the
row that feeds a result reads the operand it does not hold. `Computed` is about the
words: a row whose state is over holds its value for good, because it is written
in that state only and all it reads was written before.

`AccumulationProofs`, for every set, geometry, store of earlier results and mix of
loads, operations and accumulations:

* `AccumulationTypeCorrect`: `SpecAcc => []TypeOKAcc`, and with it that the loop
  over pairs never reads behind the end of its list.
* `ListsAreTaken`: `SpecAcc => []ListsTaken`, with an invariant that relates
  `skipElements` and the list being filled to the lists already cut (`ListsCut`).
* `AccumulatedResultsDriven`: `NoShifts => (SpecAcc => []ResultsDriven)`. `BindInv` is
  kept by the steps of a tree: a pair that is converted or copied extends the
  tables the way an operation does (`PairBound`), with both rows of the pair among
  the lines of its logic (`HasPair`, `PairResults`).
* `SumsAreExact`, `OnlyWholeIsLost`, `DelayIsLogarithmic`:
  `NoShifts => (SpecAcc => []X)` for `SumsExact`, `LostOnlyWhole` and
  `LogarithmicDelay`.

The last three are about all rows of a list at once, through merges, sorts, cuts
and passes. The argument is by *weights*: a weight gives every row a number, and
`Total(w, list)` adds them up. A sort, a merge, a filter, the initial rotation and
the alternation of rows keep every total, one lemma each (`MergeTotal`,
`AlternateTotal`, `ReorganiseTotal`, `AmongParts`); that they neither lose nor repeat
a row is then no statement about positions. A weight is `Additive` if every
partial result weighs what its two operands do. The copies of one row in the bags
`summands` are such a weight, so that two lists with equal totals have equal sums
(`WholeIsSum`); so is being no row of the array, which shows that lists have rows
only. The invariant of the tree (`TreeFits`) says that

1. for every additive weight, the rows at hand and those that join at later
   steps weigh together what the list does (`MergeWeighs`, `ReuseWeighs`): from this,
   `SumsExact` and `LostOnlyWhole`;
2. with weight one, doubled from step to step, they are as many as the steps
   left can add up (`MergeCounts`, `Steps(Due) = steps - step`), so that exactly one
   row is left at the end: at hand, and it is answered, or in the entry for a step
   that does not come, and the answer is lost;
3. for every state `B` by which the rows of the list are written, what is at hand
   at step `i` is written by `B + 2 * i`, and what was found in pass `i` by `B + i`
   (`MergeBelow`, `ReuseBelow`), since a known result is written in the state after
   its operands (`PartialsOK`): from this, `LogarithmicDelay`.

`ListsAnswered` keeps the result of a list once it is answered. `Additive` and the
bound speak of tables that grow, and both are kept because nothing is taken out
of them again (`Grown`). `AccInv` quantifies over all weights, which TLC cannot
evaluate; the three properties it implies are those the run checks.

`CollectInfoProofs`, for every function: any number of loops, blocks, arrays and
instructions.

* `TypeCorrect`: `Spec => []TypeOK`. What is hard in it is that only accesses
  enter the table of pointers. The invariant (`TypeInv`) says that an array without
  dimensions is the result of a pointer instruction, so that a pointer is
  recorded when its array is a vector, or a row that another pointer stands for,
  and that `ptrValid`, by which `parseLoopBody` would take a matrix for finished, is
  false in every state.
* `LoopTablesCorrect`: `Spec => []LoopsRecorded`. Its invariant (`LoopInv`) follows a
  loop through the three phases that collect it. A variable is in
  `iteratorsAliasMap` only if a header already read it (`AliasesOK`); so the first
  load of a header finds its iterator, its initial value and its pointer
  (`HeaderOK`), the loop is entered under a key that no loop before it has, `insert`
  does enter it, and `nestedLoopMap` starts with an empty list (`RecordsOK`). The
  parents of a loop come before it and are entered under their own iterators
  (`ParentsBefore`), which makes the iteration vector the nest (`VectorOfNest`).
  `IterationsExact` is arithmetic: the division that truncates, with one added for a
  rest or for an inclusive predicate, is the number of values the loop goes
  through, up or down, for every bound and step (`MultiplesBelow`, `OneCount`).
* `IndexesCorrect`: `Spec => []IndexesRecorded`, for accesses one after the other in
  any number and order. Its invariant (`AccessInv`) says what each of the tables
  holds between two instructions of a block: every iterator is in the register the
  block loaded or extended it into last, and no register holds two
  (`IteratorsHeld`); a sum is in the register of its addition until it is extended
  and in that of the extension from then on, with its own iterators and constant
  (`SumsHeld`); rows belong to their matrix (`ArraysHeld`); between the two pointers
  of an element, `tmpPointerStruct` holds the first index, although nothing resets
  it (`RowHeld`); and what is recorded is the access (`PointersHeld`). Each part needs
  the ones before it: an addition enters the iterators that `iteratorsAliasMap` has
  under its operands, and a pointer finds a sum or an iterator under the register
  it reads.
* `SurvivorsCorrect`: `Spec => []SurvivorsClosed`. The two decisions come from
  different phases, and `BlocksHeld` carries the second to the end: of every valid
  block but the first, each sum that is extended is in `combinedIterators`, and each
  element that is pointed to is in the tables (`Settled`); only registers that are
  extended are ever in `combinedIterators`.
* `ReturnsCorrect`: `Spec => []ReturnsWithoutSets`. The axes of a record are those of
  the loop tables at the end (`GeometriesHeld`), because no pointer is recorded before
  all loops are; so their steps are the increments of loops (`AxesOfIterators`).
* `AddressesCorrect`: `Spec => []AddressesExact`, for any nest, bounds, sizes and
  constants. It joins the theorems before it: the iterations and the nest in the
  tables are those of the loops (`TablesOfNest`), the indexes are those of the access
  (`SimpleAccess`), and pattern, zeros and axes are what `SetPointerInfo` makes of them
  (`GeometryHeld`). Of these, a vector under the `m`-th of `D` loops has a matrix of one
  entry with `m - 1` zeros before it and `D - m` behind (`MatrixOfVector`, `TypeOfRow`,
  `ZerosOfRow`), a square matrix one with none (`MatrixOfSquare`); the pruning, which
  reads past the rows of its matrix, makes no difference to a vector. The list is then
  computed in closed form: the picked rows by their place in a grid (`ShapePlain`,
  `FlattenedRows`), the repeated ones by the trip counts around the loop
  (`ListExpanded`), whose product is the number of executions (`ProductAround`). That
  the closed form is the element read is arithmetic of quotients and rests
  (`RestOfQuotient`, `TurnsOfTwo`); and since the access stays in its array, no
  position passes through the end of the list (`ElementOfRows`).

Assumptions. `NoShifts` is a hypothesis of the theorems that name it. Constants
are assumed to be what the code takes them for: register names apart from each
other, no operation called `load`, access lists and sizes of positions from 1
(`AccAccessAssumption`), accumulated operations that are no shifts, a set of
Booleans for `optTarget` (`OptimisationsAssumption`), and for `begin()` of an empty
list, which reads the element count in the end node of `std::list`, some number
that may name a row (`EndAssumption`). Functions are what clang makes of
them (`ProgramsAssumption`): loops in preorder, whose headers load the iterator
first and a second variable only where the bound is one; blocks and preheaders
that have code; and, because `parseAllocaInstructions` takes a matrix of one
column for a vector, no such matrix. What clang writes for an access is a second
assumption (`AccessesAssumption`): a register is written once, is extended at most
once, and that of an index no further; a pointer to an element reads its index from
a constant, an extended iterator, or an extended sum of two iterators or of one and
a constant, loaded in the same block; the pointer to the row of a matrix is the last
one before the pointer to the element; and the access is in the body of its own
loop. Addresses are natural numbers, those of `end()` negative; `MaxTrips`, a bound
of the reference count of iterations, is a natural number. TLC evaluates all of
them on the functions of `array_access`. Induction over numbers and lists is by
`NaturalFacts`, where the property is a set of numbers instead of an operator:
this reaches functions defined recursively, like `Total` or `Steps`.

Left to TLC: the binder, the machine and the accumulation with shifts
(`GarbageConfined` is about nothing else), `UnsupportedShapes`, `UnsupportedLoops`,
`UnsupportedIndexes` and `UnsupportedAddresses`, which describe programs outside the
conditions of the theorems, and the liveness properties (`EveryInstructionBound`, `FunctionEnds`), which the prover
does not reach. `AddressesFit`, `MuxSelectsOperand`, `RowsFound`, `SourcesInTable` and
`TransposeExact` are refuted.

## Not modelled, and the plan

Not modelled:

* The LLVM objects that CollectInfo walks over, and clang's instruction stream:
  external, laid out by the MC modules.
* VHDL rows with a multiplexer, `sdiv` and switch rows, and the clocking of the
  testbench. The testbench takes as results the load rows that are in no
  connection list; that is text about rows `EveryRowWritten` speaks of.
* `PrintDexFile`, `PrintCadFile`: text, and their calls in `OctantisPass.cpp` are
  commented out. Debug output. `AdditionalLogicPorts`: a table nobody reads.
* `addLogicToRow`, `deleteLiMRow`, `deleteInstruction` and the unused entries of
  InstructionTable: no caller in the pipeline, so the program has no state in
  which they have run.
* `lshr` is recognised by the detector but missing in `LimOperations`, so the
  binder skips it.

The rest of `src/`, the LLVM tree, is the framework the pass is built in; none
of it takes part in a synthesis decision.

What could follow:

1. Detector, scheduler and binder over one program, so that the table the binder
   walks is the one the detector made.
2. An abstract dataflow specification (operations, each answered once and after
   its operands) with the binder as its implementation where nothing is lost.
3. Proofs: `IndexesCorrect` for a loop whose bounds are variable, and the binder for
   shifts that do not copy their operand.
