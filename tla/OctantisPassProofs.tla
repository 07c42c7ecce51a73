------------------------- MODULE OctantisPassProofs -------------------------
(***************************************************************************)
(* Proofs about OctantisPass, for every set of files and of functions.     *)
(*                                                                         *)
(* Both rest on one fact: no line of a file takes an option away or        *)
(* changes it (OptionsStay).  So what the binder was called with can be    *)
(* compared with the table of options of any later state.                  *)
(***************************************************************************)
EXTENDS OctantisPass, TLAPS

Options == {<<"SynthesisProcess", "SchedulingAlgorithm">>, <<"MemoryType", "WordLength">>,
            <<"SynthesisProcess", "AdoptedOptimizations">>}

(* What the binder was called with is what the table still says.           *)
BoundWithOptions ==
  \A b \in bound :
    /\ \A o \in Options : HasOption(o[1], o[2])
    /\ b.algorithm = Algorithm /\ b.par = WordLength /\ b.optTarget = OptimizationTarget

(* There is a table only if the algorithm is ASAP, for good.               *)
TableOnlyByASAP ==
  instructionTable # Nothing =>
    HasOption("SynthesisProcess", "SchedulingAlgorithm") /\ Algorithm = "ASAP"

(* Between the phases, the tables are those of the function.               *)
TablesOfFunction ==
  /\ phase = "schedule" => dependencyGraph = function
  /\ phase = "bind" =>
       /\ HasOption("SynthesisProcess", "SchedulingAlgorithm")
       /\ Algorithm = "ASAP" => instructionTable = function

IInv == BoundWithOptions /\ TableOnlyByASAP /\ TablesOfFunction /\ OwnTableOrNone

-----------------------------------------------------------------------------
(* std::map::insert changes nothing that is there.                         *)
LEMMA InsertKeeps ==
  ASSUME NEW m, NEW k, NEW v, NEW x \in DOMAIN m
  PROVE  x \in DOMAIN Insert(m, k, v) /\ Insert(m, k, v)[x] = m[x]
  BY DEF Insert

(* No line takes an option away or changes it.                             *)
LEMMA OptionsStay ==
  ASSUME ParseLine, NEW macro, NEW field, HasOption(macro, field)
  PROVE  /\ HasOption(macro, field)'
         /\ OptionList(macro, field)' = OptionList(macro, field)
<1>1. ASSUME UNCHANGED parsedData
      PROVE  /\ HasOption(macro, field)'
             /\ OptionList(macro, field)' = OptionList(macro, field)
  BY <1>1 DEF HasOption, OptionList
<1>2. ASSUME NEW name, NEW values, parsedData' = WithOption(name, values)
      PROVE  /\ HasOption(macro, field)'
             /\ OptionList(macro, field)' = OptionList(macro, field)
  <2>1. macro \in DOMAIN parsedData /\ field \in DOMAIN parsedData[macro]
    BY DEF HasOption
  <2>2. macro \in DOMAIN parsedData'
    BY <1>2, <2>1 DEF WithOption
  <2>3. parsedData'[macro] =
          IF macro = currentMacroType THEN Insert(parsedData[macro], name, values)
          ELSE parsedData[macro]
    BY <1>2, <2>1 DEF WithOption
  <2>4. field \in DOMAIN parsedData'[macro] /\ parsedData'[macro][field] = parsedData[macro][field]
    BY <2>1, <2>3, InsertKeeps
  <2> QED BY <2>2, <2>4 DEF HasOption, OptionList
<1>3. ASSUME NEW name, parsedData' = Insert(parsedData, name, EmptyMap)
      PROVE  /\ HasOption(macro, field)'
             /\ OptionList(macro, field)' = OptionList(macro, field)
  <2>1. macro \in DOMAIN parsedData /\ field \in DOMAIN parsedData[macro]
    BY DEF HasOption
  <2>2. macro \in DOMAIN parsedData' /\ parsedData'[macro] = parsedData[macro]
    BY <1>3, <2>1, InsertKeeps
  <2> QED BY <2>1, <2>2 DEF HasOption, OptionList
<1>4. \/ UNCHANGED parsedData
      \/ \E name, values : parsedData' = WithOption(name, values)
      \/ \E name : parsedData' = Insert(parsedData, name, EmptyMap)
  BY DEF ParseLine, SkipComment, EnterSection, IgnoreSection, IgnoreField, ReadValue,
         ReadEmptyList, MakeList, MakeItem
<1> QED BY <1>1, <1>2, <1>3, <1>4

(* Steps that leave options, tables and calls of the binder alone, and do  *)
(* not enter a phase the invariant speaks of.                              *)
LEMMA QuietStep ==
  ASSUME IInv, UNCHANGED <<bound, instructionTable, dependencyGraph, function>>,
         \A macro, field : HasOption(macro, field) =>
           HasOption(macro, field)' /\ OptionList(macro, field)' = OptionList(macro, field),
         phase' \in {"schedule", "bind"} => phase' = phase
  PROVE  IInv'
<1>1. BoundWithOptions'
  <2> SUFFICES ASSUME NEW b \in bound
               PROVE  /\ \A o \in Options : HasOption(o[1], o[2])'
                      /\ b.algorithm = Algorithm' /\ b.par = WordLength'
                      /\ b.optTarget = OptimizationTarget'
    BY DEF BoundWithOptions, Options
  <2>1. /\ \A o \in Options : HasOption(o[1], o[2])
        /\ b.algorithm = Algorithm /\ b.par = WordLength /\ b.optTarget = OptimizationTarget
    BY DEF IInv, BoundWithOptions
  <2>2. /\ HasOption("SynthesisProcess", "SchedulingAlgorithm")
        /\ HasOption("MemoryType", "WordLength")
        /\ HasOption("SynthesisProcess", "AdoptedOptimizations")
    BY <2>1 DEF Options
  <2> QED BY <2>1, <2>2 DEF Algorithm, WordLength, OptimizationTarget, Options
<1>2. TableOnlyByASAP'
  BY DEF IInv, TableOnlyByASAP, Algorithm
<1>3. TablesOfFunction'
  BY DEF IInv, TablesOfFunction, Algorithm
<1>4. OwnTableOrNone'
  BY DEF IInv, OwnTableOrNone
<1> QED BY <1>1, <1>2, <1>3, <1>4 DEF IInv

LEMMA InitInv == Init => IInv
  BY DEF Init, IInv, BoundWithOptions, TableOnlyByASAP, TablesOfFunction, OwnTableOrNone

LEMMA ScheduleInv ==
  ASSUME IInv, Schedule PROVE IInv'
<1>1. /\ phase = "schedule" /\ phase' = "bind"
      /\ HasOption("SynthesisProcess", "SchedulingAlgorithm")
      /\ instructionTable' = IF Algorithm = "ASAP" THEN dependencyGraph ELSE instructionTable
      /\ UNCHANGED <<parsedData, function, dependencyGraph, bound>>
  BY DEF Schedule, ReadsAlgorithm, Missing, parserVars
<1>2. dependencyGraph = function
  BY <1>1 DEF IInv, TablesOfFunction
<1>3. Algorithm' = Algorithm /\ HasOption("SynthesisProcess", "SchedulingAlgorithm")'
  BY <1>1 DEF Algorithm, OptionList, HasOption
<1>4. BoundWithOptions'
  BY <1>1 DEF IInv, BoundWithOptions, HasOption, Algorithm, WordLength, OptimizationTarget,
              OptionList
<1>5. TableOnlyByASAP'
  BY <1>1, <1>3 DEF IInv, TableOnlyByASAP
<1>6. TablesOfFunction'
  BY <1>1, <1>2, <1>3 DEF TablesOfFunction
<1>7. OwnTableOrNone'
  BY <1>1 DEF IInv, OwnTableOrNone
<1> QED BY <1>4, <1>5, <1>6, <1>7 DEF IInv

LEMMA BindInv ==
  ASSUME IInv, Bind PROVE IInv'
<1> DEFINE call == [function |-> function, table |-> instructionTable,
                    algorithm |-> Algorithm, par |-> WordLength,
                    optTarget |-> OptimizationTarget]
<1>1. /\ phase = "bind" /\ phase' = "print" /\ bound' = bound \cup {call}
      /\ HasOption("MemoryType", "WordLength")
      /\ HasOption("SynthesisProcess", "AdoptedOptimizations")
      /\ UNCHANGED <<parsedData, function, dependencyGraph, instructionTable>>
  BY DEF Bind, ReadsOthers, Missing, parserVars
<1>2. /\ HasOption("SynthesisProcess", "SchedulingAlgorithm")
      /\ Algorithm = "ASAP" => instructionTable = function
  BY <1>1 DEF IInv, TablesOfFunction
<1>3. /\ UNCHANGED <<Algorithm, WordLength, OptimizationTarget>>
      /\ \A macro, field : HasOption(macro, field)' <=> HasOption(macro, field)
  BY <1>1 DEF Algorithm, WordLength, OptimizationTarget, OptionList, HasOption
<1>4. BoundWithOptions'
  <2>1. \A o \in Options : HasOption(o[1], o[2])
    BY <1>1, <1>2 DEF Options
  <2>2. /\ call.algorithm = Algorithm /\ call.par = WordLength
        /\ call.optTarget = OptimizationTarget
    OBVIOUS
  <2>3. \A b \in bound' : /\ b.algorithm = Algorithm' /\ b.par = WordLength'
                          /\ b.optTarget = OptimizationTarget'
    BY <1>1, <1>3, <2>2 DEF IInv, BoundWithOptions
  <2> QED BY <1>3, <2>1, <2>3 DEF BoundWithOptions, Options
<1>5. TableOnlyByASAP'
  BY <1>1, <1>3 DEF IInv, TableOnlyByASAP
<1>6. TablesOfFunction'
  BY <1>1 DEF TablesOfFunction
<1>7. OwnTableOrNone'
  <2>1. call.table = IF call.algorithm = "ASAP" THEN call.function ELSE Nothing
    BY <1>2 DEF IInv, TableOnlyByASAP
  <2> QED BY <1>1, <2>1 DEF IInv, OwnTableOrNone
<1> QED BY <1>4, <1>5, <1>6, <1>7 DEF IInv

LEMMA NextInv ==
  ASSUME IInv, [Next]_vars PROVE IInv'
<1> DEFINE Stays == \A macro, field : HasOption(macro, field) =>
             HasOption(macro, field)' /\ OptionList(macro, field)' = OptionList(macro, field)
<1>0. ASSUME UNCHANGED parsedData PROVE Stays
  BY <1>0 DEF HasOption, OptionList
<1>1. CASE Parse
  <2>1. Stays
    BY <1>1, OptionsStay DEF Parse
  <2>2. UNCHANGED <<bound, instructionTable, dependencyGraph, function, phase>>
    BY <1>1 DEF Parse, passVars
  <2> HIDE DEF Stays
  <2> QED BY <2>1, <2>2, QuietStep DEF Stays
<1>2. CASE EndParse
  <2>1. /\ UNCHANGED <<parsedData, bound, instructionTable, dependencyGraph, function>>
        /\ phase' = "analyse"
    BY <1>2 DEF EndParse
  <2> QED BY <1>0, <2>1, QuietStep
<1>3. CASE Analyse
  <2>1. /\ phase' = "schedule" /\ dependencyGraph' = function
        /\ UNCHANGED <<parsedData, bound, instructionTable, function>>
    BY <1>3 DEF Analyse, parserVars
  <2>2. BoundWithOptions'
    BY <2>1 DEF IInv, BoundWithOptions, HasOption, Algorithm, WordLength,
                OptimizationTarget, OptionList
  <2>3. TableOnlyByASAP'
    BY <2>1 DEF IInv, TableOnlyByASAP, HasOption, Algorithm, OptionList
  <2>4. TablesOfFunction'
    BY <2>1 DEF TablesOfFunction
  <2>5. OwnTableOrNone'
    BY <2>1 DEF IInv, OwnTableOrNone
  <2> QED BY <2>2, <2>3, <2>4, <2>5 DEF IInv
<1>4. CASE Schedule
  BY <1>4, ScheduleInv
<1>5. CASE Bind
  BY <1>5, BindInv
<1>6. CASE Throw \/ ReadNoValue
  <2>1. /\ UNCHANGED <<parsedData, bound, instructionTable, dependencyGraph, function>>
        /\ phase' \in {"aborted", "undefined"}
    BY <1>6 DEF Throw, ReadNoValue, Stop, parserVars
  <2> QED BY <1>0, <2>1, QuietStep
<1>7. CASE PrintVhdl
  <2>1. /\ phase' = "idle"
        /\ UNCHANGED <<parsedData, bound, instructionTable, dependencyGraph>>
    BY <1>7 DEF PrintVhdl, parserVars
  <2>2. BoundWithOptions'
    BY <2>1 DEF IInv, BoundWithOptions, HasOption, Algorithm, WordLength,
                OptimizationTarget, OptionList
  <2>3. TableOnlyByASAP'
    BY <2>1 DEF IInv, TableOnlyByASAP, HasOption, Algorithm, OptionList
  <2>4. TablesOfFunction'
    BY <2>1 DEF TablesOfFunction
  <2>5. OwnTableOrNone'
    BY <2>1 DEF IInv, OwnTableOrNone
  <2> QED BY <2>2, <2>3, <2>4, <2>5 DEF IInv
<1>8. CASE EditFile \/ UNCHANGED vars
  <2>1. UNCHANGED <<parsedData, bound, instructionTable, dependencyGraph, function, phase>>
    BY <1>8 DEF EditFile, vars, parserVars, passVars
  <2> QED BY <1>0, <2>1, QuietStep
<1>9. ASSUME NEW f \in Functions, RunOnFunction(f) PROVE IInv'
  <2>1. /\ phase' \in {"parse", "analyse"}
        /\ UNCHANGED <<parsedData, bound, instructionTable, dependencyGraph>>
    BY <1>9 DEF RunOnFunction, OpenFile, parserVars
  <2>2. BoundWithOptions'
    BY <2>1 DEF IInv, BoundWithOptions, HasOption, Algorithm, WordLength,
                OptimizationTarget, OptionList
  <2>3. TableOnlyByASAP'
    BY <2>1 DEF IInv, TableOnlyByASAP, HasOption, Algorithm, OptionList
  <2>4. TablesOfFunction'
    BY <2>1 DEF TablesOfFunction
  <2>5. OwnTableOrNone'
    BY <2>1 DEF IInv, OwnTableOrNone
  <2> QED BY <2>2, <2>3, <2>4, <2>5 DEF IInv
<1> QED
  BY <1>1, <1>2, <1>3, <1>4, <1>5, <1>6, <1>7, <1>8, <1>9 DEF Next, Step

LEMMA Invariance == Spec => []IInv
<1>1. Init => IInv
  BY InitInv
<1>2. IInv /\ [Next]_vars => IInv'
  BY NextInv
<1> QED BY <1>1, <1>2, PTL DEF Spec

-----------------------------------------------------------------------------
(* However the file is edited between functions, all of them are           *)
(* synthesised with the same options: OctantisPass.cpp never clears        *)
(* parsedData, and std::map::insert never overwrites.                      *)
THEOREM OneSetOfOptions == Spec => []SameOptions
<1>1. IInv => SameOptions
  BY DEF IInv, BoundWithOptions, SameOptions
<1> QED BY <1>1, Invariance, PTL

(* No function is bound with the table of another, though instructionTable *)
(* outlives it and is assigned only when the algorithm is ASAP             *)
(* (OctantisPass.cpp:101-111).                                             *)
THEOREM TablesAreOwn == Spec => []OwnTableOrNone
<1>1. IInv => OwnTableOrNone
  BY DEF IInv
<1> QED BY <1>1, Invariance, PTL
-----------------------------------------------------------------------------
(* The lines before k that give an option.                                 *)
GivenBefore(k, macro, field) == {n \in Gives(configFile, macro, field) : n < k}

(* What a line gives: the item of a plain value, no item of a list.        *)
ValueOf(l) == IF l.value.list THEN << >> ELSE l.value.items

(* The table says what the first of the lines before k says.               *)
ReadUpTo(k) ==
  \A macro \in macroTypes : \A field \in Accepted[macro] :
    /\ HasOption(macro, field) => GivenBefore(k, macro, field) # {}
    /\ GivenBefore(k, macro, field) # {} =>
         /\ HasOption(macro, field)
         /\ \E first \in GivenBefore(k, macro, field) :
              /\ \A n \in GivenBefore(k, macro, field) : first <= n
              /\ OptionList(macro, field) = ValueOf(configFile[first])

(* A file is open while it is parsed, and the section has its map.         *)
Reading ==
  phase = "parse" =>
    /\ configFile # NoFile
    /\ line > 0
    /\ currentMacroType \in macroTypes => currentMacroType \in DOMAIN parsedData

HasFunction == phase # "idle" => function \in Functions

(* Before the first function, the table is empty; while its file is read,  *)
(* the table says what the lines read so far say.                          *)
FirstFile ==
  compiled = {} =>
    /\ phase = "idle" => parsedData = EmptyMap
    /\ phase = "parse" => ReadUpTo(line) /\ currentMacroType = MacroOf(configFile, line)
    /\ phase = "analyse" /\ configFile # NoFile => ReadUpTo(Len(configFile) + 1)

PInv == TypeOK /\ Reading /\ HasFunction /\ FirstFile

-----------------------------------------------------------------------------
LEMMA OpenedFile ==
  ASSUME TypeOK, configFile # NoFile
  PROVE  /\ Len(configFile) \in Nat
         /\ DOMAIN configFile = 1..Len(configFile)
         /\ \A n \in DOMAIN configFile : IsLine(configFile[n])
<1>1. /\ configFile \in Seq({configFile[n] : n \in DOMAIN configFile})
      /\ \A n \in DOMAIN configFile : IsLine(configFile[n])
  BY FilesAssumption DEF TypeOK
<1>2. \A s, S : s \in Seq(S) => Len(s) \in Nat /\ DOMAIN s = 1..Len(s)
  OBVIOUS
<1> QED BY <1>1, <1>2

(* No line precedes the first.                                             *)
LEMMA MacroOfFirst ==
  ASSUME NEW file PROVE MacroOf(file, 1) = NoMacro
  BY DEF MacroOf

(* A known section is that of the lines after it.                          *)
LEMMA MacroOfSection ==
  ASSUME NEW file, NEW n \in Nat \ {0},
         file[n].kind = "section", file[n].name \in macroTypes
  PROVE  MacroOf(file, n + 1) = file[n].name
<1> DEFINE Known == {k \in 1..((n + 1) - 1) :
                       file[k].kind = "section" /\ file[k].name \in macroTypes}
<1>1. n \in Known /\ \A j \in Known : j \in Int /\ j <= n
  OBVIOUS
<1>2. (CHOOSE k \in Known : \A j \in Known : j <= k) = n
  <2> HIDE DEF Known
  <2>1. \A k \in Known : (\A j \in Known : j <= k) => k = n
    BY <1>1
  <2> QED BY <1>1, <2>1
<1> QED BY <1>1, <1>2 DEF MacroOf

(* After any other line it is as before it.                                *)
LEMMA MacroOfOther ==
  ASSUME NEW file, NEW n \in Nat \ {0},
         ~(file[n].kind = "section" /\ file[n].name \in macroTypes)
  PROVE  MacroOf(file, n + 1) = MacroOf(file, n)
<1> DEFINE Known(m) == {k \in 1..(m - 1) :
                          file[k].kind = "section" /\ file[k].name \in macroTypes}
           Last(S) == IF S = {} THEN NoMacro
                      ELSE file[CHOOSE k \in S : \A j \in S : j <= k].name
<1>1. Known(n + 1) = Known(n)
  OBVIOUS
<1>2. MacroOf(file, n + 1) = Last(Known(n + 1)) /\ MacroOf(file, n) = Last(Known(n))
  BY DEF MacroOf
<1> HIDE DEF Known, Last
<1> QED BY <1>1, <1>2

(* One line more: it may be one that gives the option.                     *)
LEMMA GivenNext ==
  ASSUME NEW k \in DOMAIN configFile, DOMAIN configFile \subseteq Nat, NEW macro, NEW field
  PROVE  GivenBefore(k + 1, macro, field) =
           GivenBefore(k, macro, field) \cup
             (IF /\ configFile[k].kind = "field" /\ configFile[k].name = field
                 /\ MacroOf(configFile, k) = macro
              THEN {k} ELSE {})
  BY DEF GivenBefore, Gives

(* A line that gives no option leaves the table as it should be.           *)
LEMMA ReadOn ==
  ASSUME NEW k \in DOMAIN configFile, DOMAIN configFile \subseteq Nat, ReadUpTo(k),
         UNCHANGED configFile,
         \A macro \in macroTypes : \A field \in Accepted[macro] :
           /\ ~(/\ configFile[k].kind = "field" /\ configFile[k].name = field
                /\ MacroOf(configFile, k) = macro)
           /\ HasOption(macro, field)' <=> HasOption(macro, field)
           /\ HasOption(macro, field) => OptionList(macro, field)' = OptionList(macro, field)
  PROVE  ReadUpTo(k + 1)'
<1>1. \A macro \in macroTypes : \A field \in Accepted[macro] :
        GivenBefore(k + 1, macro, field) = GivenBefore(k, macro, field)
  <2> TAKE macro \in macroTypes
  <2> TAKE field \in Accepted[macro]
  <2> DEFINE gives == /\ configFile[k].kind = "field" /\ configFile[k].name = field
                      /\ MacroOf(configFile, k) = macro
  <2>1. GivenBefore(k + 1, macro, field) =
          GivenBefore(k, macro, field) \cup (IF gives THEN {k} ELSE {})
    BY GivenNext
  <2>2. ~gives
    OBVIOUS
  <2> HIDE DEF gives
  <2> QED BY <2>1, <2>2
<1>2. \A macro, field : GivenBefore(k + 1, macro, field)' = GivenBefore(k + 1, macro, field)
  BY DEF GivenBefore, Gives
<1> QED BY <1>1, <1>2 DEF ReadUpTo

(* Lines that give an option are numbers.                                  *)
LEMMA GivenNumbers ==
  ASSUME DOMAIN configFile \subseteq Nat, NEW k, NEW macro, NEW field
  PROVE  \A n \in GivenBefore(k, macro, field) : n \in Nat /\ n < k
  BY DEF GivenBefore, Gives

(* A line that gives an option: the first one's value stays.               *)
LEMMA ReadOption ==
  ASSUME NEW k \in DOMAIN configFile, DOMAIN configFile \subseteq Nat, ReadUpTo(k),
         UNCHANGED configFile,
         configFile[k].kind = "field", MacroOf(configFile, k) = currentMacroType,
         currentMacroType \in macroTypes, currentMacroType \in DOMAIN parsedData,
         configFile[k].name \in Accepted[currentMacroType],
         parsedData' = WithOption(configFile[k].name, ValueOf(configFile[k]))
  PROVE  ReadUpTo(k + 1)'
<1> DEFINE name == configFile[k].name
           value == ValueOf(configFile[k])
<1>1. /\ DOMAIN parsedData' = DOMAIN parsedData
      /\ \A m \in DOMAIN parsedData :
           parsedData'[m] = IF m = currentMacroType THEN Insert(parsedData[m], name, value)
                            ELSE parsedData[m]
  BY DEF WithOption
<1> DEFINE Old(macro, field) == GivenBefore(k, macro, field)
           New(macro, field) == GivenBefore(k + 1, macro, field)
           Says(macro, field) ==
             /\ HasOption(macro, field)' => New(macro, field) # {}
             /\ New(macro, field) # {} =>
                  /\ HasOption(macro, field)'
                  /\ \E first \in New(macro, field) :
                       /\ \A n \in New(macro, field) : first <= n
                       /\ OptionList(macro, field)' = ValueOf(configFile[first])
<1> SUFFICES ASSUME NEW macro \in macroTypes, NEW field \in Accepted[macro]
             PROVE  Says(macro, field)
  BY DEF ReadUpTo, GivenBefore, Gives
<1>2. /\ HasOption(macro, field) => Old(macro, field) # {}
      /\ Old(macro, field) # {} => /\ HasOption(macro, field)
                     /\ \E first \in Old(macro, field) : /\ \A n \in Old(macro, field) : first <= n
                                           /\ OptionList(macro, field) = ValueOf(configFile[first])
  BY DEF ReadUpTo
<1>3. /\ \A n \in Old(macro, field) : n \in Nat /\ n < k
      /\ k \in Nat
  BY GivenNumbers
<1>4. New(macro, field) = Old(macro, field) \cup (IF field = name /\ currentMacroType = macro THEN {k} ELSE {})
  BY GivenNext
<1>5. CASE ~(field = name /\ macro = currentMacroType)
  <2>1. New(macro, field) = Old(macro, field)
    BY <1>4, <1>5
  <2>2. HasOption(macro, field)' <=> HasOption(macro, field)
    <3>1. CASE macro = currentMacroType
      <4>1. DOMAIN Insert(parsedData[macro], name, value) = DOMAIN parsedData[macro] \cup {name}
        BY DEF Insert
      <4>2. field # name
        BY <1>5, <3>1
      <4> HIDE DEF name, value
      <4>3. macro \in DOMAIN parsedData =>
              parsedData'[macro] = Insert(parsedData[macro], name, value)
        BY <1>1, <3>1, Zenon
      <4> QED BY <1>1, <4>1, <4>2, <4>3 DEF HasOption
    <3>2. CASE macro # currentMacroType
      BY <1>1, <3>2, Zenon DEF HasOption
    <3> QED BY <3>1, <3>2, Zenon
  <2>3. HasOption(macro, field) => OptionList(macro, field)' = OptionList(macro, field)
    <3> HIDE DEF name, value
    <3> SUFFICES ASSUME HasOption(macro, field)
                 PROVE  parsedData'[macro][field] = parsedData[macro][field]
      BY Zenon DEF OptionList
    <3>1. macro \in DOMAIN parsedData /\ field \in DOMAIN parsedData[macro]
      BY Zenon DEF HasOption
    <3>2. Insert(parsedData[macro], name, value)[field] = parsedData[macro][field]
      BY <3>1, InsertKeeps, SMT
    <3>3. \/ parsedData'[macro] = Insert(parsedData[macro], name, value)
          \/ parsedData'[macro] = parsedData[macro]
      BY <1>1, <3>1, Zenon
    <3> QED BY <3>2, <3>3, Zenon
  <2> HIDE DEF Old, New
  <2> QED BY <1>2, <2>1, <2>2, <2>3
<1>6. CASE field = name /\ macro = currentMacroType
  <2>1. New(macro, field) = Old(macro, field) \cup {k}
    BY <1>4, <1>6
  <2>2. /\ HasOption(macro, field)'
        /\ HasOption(macro, field) => OptionList(macro, field)' = OptionList(macro, field)
        /\ ~HasOption(macro, field) => OptionList(macro, field)' = value
    <3> DEFINE m == parsedData[macro]
    <3>1. macro \in DOMAIN parsedData' /\ macro \in DOMAIN parsedData
      BY <1>1, <1>6, Zenon
    <3>2. parsedData'[macro] = Insert(m, field, value)
      <4>1. parsedData'[macro] = Insert(m, name, value)
        BY <1>1, <1>6, <3>1, Zenon
      <4> QED BY <1>6, <4>1, Zenon
    <3> HIDE DEF m, value
    <3>3. /\ field \in DOMAIN Insert(m, field, value)
          /\ field \in DOMAIN m => Insert(m, field, value)[field] = m[field]
          /\ field \notin DOMAIN m => Insert(m, field, value)[field] = value
      BY DEF Insert
    <3> QED BY <3>1, <3>2, <3>3, Zenon DEF HasOption, OptionList, m
  <2> HIDE DEF Old, New
  <2>3. CASE Old(macro, field) = {}
    <3>1. ~HasOption(macro, field) /\ New(macro, field) = {k}
      BY <1>2, <2>1, <2>3
    <3> QED BY <1>3, <2>2, <3>1
  <2>4. CASE Old(macro, field) # {}
    <3>1. PICK first \in Old(macro, field) : /\ \A n \in Old(macro, field) : first <= n
                               /\ OptionList(macro, field) = ValueOf(configFile[first])
      BY <1>2, <2>4
    <3>2. HasOption(macro, field)
      BY <1>2, <2>4
    <3>3. first \in New(macro, field) /\ \A n \in New(macro, field) : first <= n
      BY <1>3, <2>1, <3>1
    <3>4. OptionList(macro, field)' = ValueOf(configFile[first])
      BY <2>2, <3>1, <3>2
    <3> QED BY <2>2, <3>3, <3>4
  <2> QED BY <2>3, <2>4
<1> QED BY <1>5, <1>6

(* The table has only accepted fields, with one item at most.              *)
Parsed ==
  /\ DOMAIN parsedData \subseteq macroTypes
  /\ \A m \in DOMAIN parsedData :
       /\ DOMAIN parsedData[m] \subseteq Accepted[m]
       /\ \A f \in DOMAIN parsedData[m] : Len(parsedData[m][f]) <= 1

LEMMA OptionParsed ==
  ASSUME Parsed, NEW values, Len(values) <= 1, IsOption,
         parsedData' = WithOption(text.name, values)
  PROVE  Parsed' /\ DOMAIN parsedData' = DOMAIN parsedData
<1>1. /\ DOMAIN parsedData' = DOMAIN parsedData
      /\ \A m \in DOMAIN parsedData :
           parsedData'[m] = IF m = currentMacroType
                            THEN Insert(parsedData[m], text.name, values)
                            ELSE parsedData[m]
  BY DEF WithOption
<1>2. SUFFICES ASSUME NEW m \in DOMAIN parsedData
               PROVE  /\ DOMAIN parsedData'[m] \subseteq Accepted[m]
                      /\ \A f \in DOMAIN parsedData'[m] : Len(parsedData'[m][f]) <= 1
  BY <1>1 DEF Parsed
<1>3. /\ DOMAIN parsedData[m] \subseteq Accepted[m]
      /\ \A f \in DOMAIN parsedData[m] : Len(parsedData[m][f]) <= 1
  BY DEF Parsed
<1>4. CASE m # currentMacroType
  BY <1>1, <1>3, <1>4
<1>5. CASE m = currentMacroType
  <2>1. parsedData'[m] = Insert(parsedData[m], text.name, values)
    BY <1>1, <1>5
  <2>2. text.name \in Accepted[m]
    BY <1>5 DEF IsOption
  <2> QED BY <1>3, <2>1, <2>2 DEF Insert
<1> QED BY <1>4, <1>5

LEMMA SectionParsed ==
  ASSUME Parsed, NEW name \in macroTypes, parsedData' = Insert(parsedData, name, EmptyMap)
  PROVE  Parsed' /\ DOMAIN parsedData' = DOMAIN parsedData \cup {name}
<1>1. /\ DOMAIN parsedData' = DOMAIN parsedData \cup {name}
      /\ \A m \in DOMAIN parsedData' :
           parsedData'[m] = IF m \in DOMAIN parsedData THEN parsedData[m] ELSE EmptyMap
  BY DEF Insert
<1>2. DOMAIN EmptyMap = {}
  BY DEF EmptyMap
<1> QED BY <1>1, <1>2 DEF Parsed

(* The value of a line, as it is read.                                     *)
LEMMA LineValues ==
  ASSUME TypeOK, Reading, phase = "parse", AtLine
  PROVE  /\ line \in DOMAIN configFile
         /\ DOMAIN configFile \subseteq Nat
         /\ line \in Nat \ {0}
         /\ text.kind = "field" /\ ~text.value.list =>
              Len(text.value.items) = 1 /\ ValueOf(text) = text.value.items
         /\ text.kind = "field" /\ text.value.list => ValueOf(text) = << >>
         /\ text = configFile[line]
<1>1. /\ Len(configFile) \in Nat /\ DOMAIN configFile = 1..Len(configFile)
      /\ \A n \in DOMAIN configFile : IsLine(configFile[n])
  BY OpenedFile DEF Reading
<1>2. line \in Nat /\ line > 0 /\ line <= Len(configFile)
  BY DEF TypeOK, Reading, AtLine
<1>3. line \in DOMAIN configFile /\ DOMAIN configFile \subseteq Nat /\ line \in Nat \ {0}
  BY <1>1, <1>2
<1>4. IsLine(text)
  BY <1>1, <1>3 DEF text
<1> QED BY <1>3, <1>4 DEF IsLine, ValueOf, text

(* A line keeps the types, and its section has its map.                    *)
LEMMA LineTypes ==
  ASSUME TypeOK, Reading, phase = "parse", ParseLine
  PROVE  /\ Parsed'
         /\ line' \in Nat /\ line' > 0
         /\ currentMacroType' \in macroTypes \cup {NoMacro}
         /\ currentMacroType' \in macroTypes => currentMacroType' \in DOMAIN parsedData'
<1>1. /\ Parsed
      /\ line \in Nat /\ line > 0 /\ line + 1 \in Nat /\ line + 1 > 0
      /\ currentMacroType \in macroTypes \cup {NoMacro}
      /\ currentMacroType \in macroTypes => currentMacroType \in DOMAIN parsedData
  BY DEF TypeOK, Reading, Parsed
<1>2. CASE SkipComment \/ IgnoreSection \/ IgnoreField \/ MakeList \/ MakeItem
  BY <1>1, <1>2 DEF SkipComment, IgnoreSection, IgnoreField, MakeList, MakeItem, Parsed
<1>3. CASE EnterSection
  BY <1>1, <1>3, SectionParsed DEF EnterSection
<1>4. CASE ReadValue
  <2>1. Len(text.value.items) = 1
    BY <1>4, LineValues DEF ReadValue
  <2>2. Len(text.value.items) <= 1
    BY <2>1
  <2> QED BY <1>1, <1>4, <2>2, OptionParsed DEF ReadValue
<1>5. CASE ReadEmptyList
  <2>1. Len(<< >>) <= 1
    OBVIOUS
  <2> QED BY <1>1, <1>5, <2>1, OptionParsed DEF ReadEmptyList
<1> QED BY <1>2, <1>3, <1>4, <1>5 DEF ParseLine

(* A line that gives no option moves on: its own macro type is that of the *)
(* next, or it opens a section.                                            *)
LEMMA LineWithoutOption ==
  ASSUME TypeOK, Reading, phase = "parse", UNCHANGED configFile,
         ReadUpTo(line), currentMacroType = MacroOf(configFile, line),
         SkipComment \/ IgnoreSection \/ IgnoreField \/ EnterSection
  PROVE  ReadUpTo(line)' /\ currentMacroType' = MacroOf(configFile, line)'
<1>0. AtLine
  BY DEF SkipComment, IgnoreSection, IgnoreField, EnterSection
<1>1. /\ line \in DOMAIN configFile /\ DOMAIN configFile \subseteq Nat
      /\ line \in Nat \ {0} /\ text = configFile[line]
  BY <1>0, LineValues
<1>a. line' = line + 1
  BY DEF SkipComment, IgnoreSection, IgnoreField, EnterSection
<1>b. ASSUME \A macro \in macroTypes : \A field \in Accepted[macro] :
               /\ ~(text.kind = "field" /\ text.name = field /\ currentMacroType = macro)
               /\ HasOption(macro, field)' <=> HasOption(macro, field)
               /\ HasOption(macro, field) =>
                    OptionList(macro, field)' = OptionList(macro, field)
      PROVE  ReadUpTo(line)'
  <2> DEFINE k == line
  <2>1. /\ k \in DOMAIN configFile /\ ReadUpTo(k)
        /\ \A macro \in macroTypes : \A field \in Accepted[macro] :
           /\ ~(/\ configFile[k].kind = "field" /\ configFile[k].name = field
                /\ MacroOf(configFile, k) = macro)
           /\ HasOption(macro, field)' <=> HasOption(macro, field)
           /\ HasOption(macro, field) => OptionList(macro, field)' = OptionList(macro, field)
    BY <1>1, <1>b
  <2>2. k + 1 = line'
    BY <1>a
  <2> HIDE DEF k
  <2> QED BY <1>1, <2>1, <2>2, ReadOn
<1>2. CASE SkipComment \/ IgnoreSection \/ IgnoreField
  <2>1. UNCHANGED <<parsedData, currentMacroType>>
    BY <1>2 DEF SkipComment, IgnoreSection, IgnoreField
  <2>2. ~(text.kind = "section" /\ text.name \in macroTypes)
    BY <1>2 DEF SkipComment, IgnoreSection, IgnoreField
  <2>3. currentMacroType' = MacroOf(configFile, line)'
    BY <1>1, <1>a, <2>1, <2>2, MacroOfOther
  <2>4. \A macro \in macroTypes : \A field \in Accepted[macro] :
          ~(text.kind = "field" /\ text.name = field /\ currentMacroType = macro)
    BY <1>2 DEF SkipComment, IgnoreSection, IgnoreField, IsOption
  <2>5. \A macro, field : /\ HasOption(macro, field)' <=> HasOption(macro, field)
                          /\ OptionList(macro, field)' = OptionList(macro, field)
    BY <2>1 DEF HasOption, OptionList
  <2> QED BY <1>b, <2>3, <2>4, <2>5
<1>3. CASE EnterSection
  <2>1. /\ text.kind = "section" /\ text.name \in macroTypes
        /\ currentMacroType' = text.name
        /\ parsedData' = Insert(parsedData, text.name, EmptyMap)
    BY <1>3 DEF EnterSection
  <2>2. currentMacroType' = MacroOf(configFile, line)'
    BY <1>1, <1>a, <2>1, MacroOfSection
  <2>3. \A macro, field :
          /\ HasOption(macro, field)' <=> HasOption(macro, field)
          /\ HasOption(macro, field) => OptionList(macro, field)' = OptionList(macro, field)
    BY <2>1 DEF HasOption, OptionList, Insert, EmptyMap
  <2> QED BY <1>b, <2>1, <2>2, <2>3
<1> QED BY <1>2, <1>3

(* A line that gives an option: its own macro type is that of the next.    *)
LEMMA LineWithOption ==
  ASSUME TypeOK, Reading, phase = "parse", UNCHANGED configFile,
         ReadUpTo(line), currentMacroType = MacroOf(configFile, line),
         ReadValue \/ ReadEmptyList
  PROVE  ReadUpTo(line)' /\ currentMacroType' = MacroOf(configFile, line)'
<1>0. /\ AtLine /\ text.kind = "field" /\ IsOption /\ line' = line + 1
      /\ UNCHANGED currentMacroType
  BY DEF ReadValue, ReadEmptyList
<1>1. /\ line \in DOMAIN configFile /\ DOMAIN configFile \subseteq Nat
      /\ line \in Nat \ {0} /\ text = configFile[line]
  BY <1>0, LineValues
<1>2. parsedData' = WithOption(text.name, ValueOf(text))
  BY <1>0, LineValues DEF ReadValue, ReadEmptyList
<1>3. currentMacroType' = MacroOf(configFile, line)'
  BY <1>0, <1>1, MacroOfOther
<1>4. currentMacroType \in macroTypes /\ currentMacroType \in DOMAIN parsedData
  BY <1>0 DEF IsOption, Reading
<1>5. ReadUpTo(line)'
  <2> DEFINE k == line
  <2>1. /\ k \in DOMAIN configFile /\ ReadUpTo(k)
        /\ configFile[k].kind = "field" /\ MacroOf(configFile, k) = currentMacroType
        /\ configFile[k].name \in Accepted[currentMacroType]
        /\ parsedData' = WithOption(configFile[k].name, ValueOf(configFile[k]))
    BY <1>0, <1>1, <1>2 DEF IsOption
  <2>2. k + 1 = line'
    BY <1>0
  <2> HIDE DEF k
  <2> QED BY <1>1, <1>4, <2>1, <2>2, ReadOption
<1> QED BY <1>3, <1>5

(* A list that is being made stays at its line.                            *)
LEMMA LineRead ==
  ASSUME TypeOK, Reading, phase = "parse", UNCHANGED configFile, ParseLine,
         ReadUpTo(line), currentMacroType = MacroOf(configFile, line)
  PROVE  ReadUpTo(line)' /\ currentMacroType' = MacroOf(configFile, line)'
<1>1. CASE SkipComment \/ IgnoreSection \/ IgnoreField \/ EnterSection
  BY <1>1, LineWithoutOption
<1>2. CASE ReadValue \/ ReadEmptyList
  BY <1>2, LineWithOption
<1>3. CASE MakeList \/ MakeItem
  BY <1>3 DEF MakeList, MakeItem, ReadUpTo, GivenBefore, Gives, HasOption, OptionList
<1> QED BY <1>1, <1>2, <1>3 DEF ParseLine

LEMMA InitPInv == Init => PInv
  BY DEF Init, InitParser, PInv, TypeOK, Reading, HasFunction, FirstFile, Phases, EmptyMap

LEMMA ParsePInv ==
  ASSUME PInv, Parse PROVE PInv'
<1>1. /\ phase = "parse" /\ ParseLine
      /\ UNCHANGED <<configFile, phase, function, compiled, dependencyGraph, instructionTable>>
  BY DEF Parse, passVars
<1>2. /\ Parsed' /\ line' \in Nat /\ line' > 0
      /\ currentMacroType' \in macroTypes \cup {NoMacro}
      /\ currentMacroType' \in macroTypes => currentMacroType' \in DOMAIN parsedData'
  BY <1>1, LineTypes DEF PInv
<1>3. TypeOK'
  BY <1>1, <1>2 DEF PInv, TypeOK, Parsed
<1>4. Reading' /\ HasFunction'
  BY <1>1, <1>2 DEF PInv, Reading, HasFunction
<1>5. FirstFile'
  BY <1>1, LineRead DEF PInv, FirstFile
<1> QED BY <1>3, <1>4, <1>5 DEF PInv

LEMMA EndParsePInv ==
  ASSUME PInv, EndParse PROVE PInv'
<1>1. /\ phase = "parse" /\ phase' = "analyse" /\ EndOfFile /\ line' = 0
      /\ UNCHANGED <<configFile, parsedData, currentMacroType, function, compiled,
                     dependencyGraph, instructionTable>>
  BY DEF EndParse
<1>2. TypeOK' /\ Reading' /\ HasFunction'
  BY <1>1 DEF PInv, TypeOK, Reading, HasFunction, Phases
<1>3. FirstFile'
  <2> SUFFICES ASSUME compiled = {} PROVE ReadUpTo(Len(configFile) + 1)'
    BY <1>1 DEF FirstFile
  <2>1. ReadUpTo(line)
    BY <1>1 DEF PInv, FirstFile
  <2>2. /\ Len(configFile) \in Nat /\ DOMAIN configFile = 1..Len(configFile)
        /\ line \in Nat /\ line > Len(configFile)
    BY <1>1, OpenedFile DEF PInv, TypeOK, Reading, EndOfFile
  <2>3. \A macro, field : GivenBefore(line, macro, field)
                            = GivenBefore(Len(configFile) + 1, macro, field)
    BY <2>2 DEF GivenBefore, Gives
  <2>4. ReadUpTo(Len(configFile) + 1)
    BY <2>1, <2>3 DEF ReadUpTo
  <2> QED BY <1>1, <2>4 DEF ReadUpTo, GivenBefore, Gives, HasOption, OptionList
<1> QED BY <1>2, <1>3 DEF PInv

LEMMA RunPInv ==
  ASSUME PInv, NEW f \in Functions, RunOnFunction(f) PROVE PInv'
<1>1. /\ phase = "idle" /\ function' = f
      /\ UNCHANGED <<configFile, parsedData, compiled, dependencyGraph, instructionTable>>
  BY DEF RunOnFunction, OpenFile, parserVars
<1>2. CASE configFile = NoFile
  <2>1. phase' = "analyse" /\ UNCHANGED <<line, currentMacroType>>
    BY <1>2 DEF RunOnFunction, OpenFile, parserVars
  <2> QED BY <1>1, <1>2, <2>1 DEF PInv, TypeOK, Reading, HasFunction, FirstFile, Phases
<1>3. CASE configFile # NoFile
  <2>1. phase' = "parse" /\ line' = 1 /\ currentMacroType' = NoMacro
    BY <1>3 DEF RunOnFunction, OpenFile
  <2>2. NoMacro \notin macroTypes
    BY DEF NoMacro, macroTypes, Accepted
  <2>3. TypeOK' /\ Reading' /\ HasFunction'
    BY <1>1, <1>3, <2>1, <2>2 DEF PInv, TypeOK, Reading, HasFunction, Phases
  <2>4. FirstFile'
    <3> SUFFICES ASSUME compiled = {} PROVE ReadUpTo(1)'
      BY <1>1, <2>1, MacroOfFirst DEF FirstFile
    <3>1. parsedData' = EmptyMap
      BY <1>1 DEF PInv, FirstFile
    <3>2. \A macro, field : ~HasOption(macro, field)'
      BY <3>1 DEF HasOption, EmptyMap
    <3>3. DOMAIN configFile \subseteq Nat /\ \A n \in DOMAIN configFile : n >= 1
      BY <1>3, OpenedFile DEF PInv
    <3>4. \A macro, field : GivenBefore(1, macro, field)' = {}
      BY <1>1, <3>3 DEF GivenBefore, Gives
    <3> QED BY <3>2, <3>4 DEF ReadUpTo
  <2> QED BY <2>3, <2>4 DEF PInv
<1> QED BY <1>2, <1>3

LEMMA NextPInv ==
  ASSUME PInv, [Next]_vars PROVE PInv'
<1>1. CASE Parse
  BY <1>1, ParsePInv
<1>2. CASE EndParse
  BY <1>2, EndParsePInv
<1>3. CASE Analyse \/ Schedule \/ Bind \/ Throw \/ ReadNoValue
  <2>1. /\ phase \in {"analyse", "schedule", "bind"}
        /\ phase' \in {"schedule", "bind", "print", "aborted", "undefined"}
        /\ UNCHANGED <<configFile, parsedData, line, currentMacroType, function, compiled>>
    BY <1>3 DEF Analyse, Schedule, Bind, Throw, ReadNoValue, Stop, ReadsAlgorithm,
                ReadsOthers, parserVars
  <2>2. dependencyGraph' \in {dependencyGraph, function}
    BY <1>3 DEF Analyse, Schedule, Bind, Throw, ReadNoValue, Stop
  <2>3. instructionTable' \in {instructionTable, dependencyGraph}
    BY <1>3 DEF Analyse, Schedule, Bind, Throw, ReadNoValue, Stop
  <2>4. TypeOK' /\ Reading' /\ HasFunction'
    BY <2>1, <2>2, <2>3 DEF PInv, TypeOK, Reading, HasFunction, Phases
  <2>5. FirstFile'
    BY <2>1 DEF FirstFile
  <2> QED BY <2>4, <2>5 DEF PInv
<1>4. CASE PrintVhdl
  <2>1. /\ phase = "print" /\ phase' = "idle" /\ compiled' = compiled \cup {function}
        /\ function' = Nothing
        /\ UNCHANGED <<configFile, parsedData, line, currentMacroType, dependencyGraph,
                       instructionTable>>
    BY <1>4 DEF PrintVhdl, parserVars
  <2>2. TypeOK' /\ Reading' /\ HasFunction'
    BY <2>1 DEF PInv, TypeOK, Reading, HasFunction, Phases
  <2>3. FirstFile'
    BY <2>1 DEF FirstFile
  <2> QED BY <2>2, <2>3 DEF PInv
<1>5. CASE EditFile
  <2>1. /\ phase = "idle" /\ configFile' \in Files
        /\ UNCHANGED <<parsedData, line, currentMacroType, phase, function, compiled,
                       dependencyGraph, instructionTable>>
    BY <1>5 DEF EditFile, parserVars, passVars
  <2> QED BY <2>1 DEF PInv, TypeOK, Reading, HasFunction, FirstFile
<1>6. CASE UNCHANGED vars
  BY <1>6 DEF vars, parserVars, passVars, PInv, TypeOK, Reading, HasFunction, FirstFile,
              ReadUpTo, GivenBefore, Gives, HasOption, OptionList
<1>7. ASSUME NEW f \in Functions, RunOnFunction(f) PROVE PInv'
  BY <1>7, RunPInv
<1> QED
  BY <1>1, <1>2, <1>3, <1>4, <1>5, <1>6, <1>7 DEF Next, Step

LEMMA ParserInvariance == Spec => []PInv
<1>1. Init => PInv
  BY InitPInv
<1>2. PInv /\ [Next]_vars => PInv'
  BY NextPInv
<1> QED BY <1>1, <1>2, PTL DEF Spec

(* Whatever the file says, every variable keeps its type: in particular    *)
(* parsedData has only accepted fields, and no list of more than one item  *)
(* is ever returned (PrintConfig.cpp:123-150).                             *)
THEOREM TypeCorrect == Spec => []TypeOK
<1>1. PInv => TypeOK
  BY DEF PInv
<1> QED BY <1>1, ParserInvariance, PTL

(* The options of the first function are what the first lines of the file  *)
(* that give them say, for every file: wherever unknown sections, unknown  *)
(* fields, repeated sections and comments are (PrintConfig.cpp:74-150).    *)
THEOREM OptionsAreFirstLines == Spec => []OptionsFromFile
<1>1. PInv => OptionsFromFile
  <2> SUFFICES ASSUME PInv, phase = "analyse", compiled = {}, configFile # NoFile,
                      NEW macro \in macroTypes, NEW field \in Accepted[macro]
               PROVE  LET lines == Gives(configFile, macro, field)
                          first == CHOOSE n \in lines : \A m \in lines : n <= m
                      IN  /\ HasOption(macro, field) <=> lines # {}
                          /\ HasOption(macro, field) =>
                               OptionList(macro, field) =
                                 IF configFile[first].value.list THEN << >>
                                 ELSE configFile[first].value.items
    BY DEF OptionsFromFile
  <2> DEFINE lines == Gives(configFile, macro, field)
             first == CHOOSE n \in lines : \A m \in lines : n <= m
  <2>1. /\ Len(configFile) \in Nat /\ DOMAIN configFile = 1..Len(configFile)
    BY OpenedFile DEF PInv
  <2>2. lines = GivenBefore(Len(configFile) + 1, macro, field)
    BY <2>1 DEF GivenBefore, Gives
  <2>3. lines \subseteq Nat
    BY <2>1 DEF Gives
  <2>4. /\ HasOption(macro, field) => lines # {}
        /\ lines # {} =>
             /\ HasOption(macro, field)
             /\ \E n \in lines : /\ \A m \in lines : n <= m
                                 /\ OptionList(macro, field) = ValueOf(configFile[n])
    BY <2>2 DEF PInv, FirstFile, ReadUpTo
  <2> HIDE DEF lines
  <2>5. ASSUME NEW n \in lines, \A m \in lines : n <= m PROVE n = first
    <3>1. first \in lines /\ \A m \in lines : first <= m
      BY <2>5
    <3> HIDE DEF first
    <3>2. n <= first /\ first <= n /\ n \in Nat /\ first \in Nat
      BY <2>3, <2>5, <3>1
    <3> QED BY <3>2
  <2>6. HasOption(macro, field) => OptionList(macro, field) = ValueOf(configFile[first])
    BY <2>4, <2>5
  <2> HIDE DEF first
  <2>7. /\ HasOption(macro, field) <=> lines # {}
        /\ HasOption(macro, field) =>
             OptionList(macro, field) = IF configFile[first].value.list THEN << >>
                                        ELSE configFile[first].value.items
    BY <2>4, <2>6 DEF ValueOf
  <2> QED BY <2>7 DEF lines, first
<1> QED BY <1>1, ParserInvariance, PTL
=============================================================================
