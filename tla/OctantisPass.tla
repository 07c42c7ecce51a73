---------------------------- MODULE OctantisPass ----------------------------
(***************************************************************************)
(* The pass (OctantisPass.cpp): for every function of the module, the      *)
(* phases in sequence.  The configuration and the instruction table belong *)
(* to the pass object and outlive a function.                              *)
(*                                                                         *)
(* The phases are modelled in modules of their own; here a table is the    *)
(* function it was made for.  The file may be edited between two           *)
(* functions: it is read again for each.                                   *)
(***************************************************************************)
EXTENDS PrintConfig

CONSTANTS
  Functions,    \* the functions of the module
  Nothing,      \* no function
  Numbers       \* the values std::stoi makes a number of

ASSUME NothingAssumption == Nothing \notin Functions

VARIABLES
  phase,                \* where runOnFunction stands
  function,             \* its argument
  compiled,             \* functions it has returned for
  dependencyGraph,      \* the table dependencyDetector holds
  instructionTable,     \* the member: the table the binder is given
  bound                 \* history: what the binder was called with

passVars == <<phase, function, compiled, dependencyGraph, instructionTable, bound>>
vars == <<configFile, parserVars, passVars>>

Init ==
  /\ InitParser
  /\ phase = "idle"
  /\ function = Nothing
  /\ compiled = {}
  /\ dependencyGraph = Nothing
  /\ instructionTable = Nothing
  /\ bound = {}

(* Without a file there is a message, and the phases go on.                *)
RunOnFunction(f) ==
  /\ phase = "idle" /\ f \notin compiled
  /\ function' = f
  /\ \/ OpenFile /\ phase' = "parse"
     \/ configFile = NoFile /\ phase' = "analyse" /\ UNCHANGED parserVars
  /\ UNCHANGED <<configFile, compiled, dependencyGraph, instructionTable, bound>>

Parse ==
  /\ phase = "parse"
  /\ ParseLine
  /\ UNCHANGED <<configFile, passVars>>

EndParse ==
  /\ phase = "parse" /\ EndOfFile
  /\ phase' = "analyse"
  /\ line' = 0
  /\ UNCHANGED <<configFile, parsedData, currentMacroType, making, function, compiled,
                 dependencyGraph, instructionTable, bound>>

(* CollectInfo and DependencyDetector.                                     *)
Analyse ==
  /\ phase = "analyse"
  /\ dependencyGraph' = function
  /\ phase' = "schedule"
  /\ UNCHANGED <<configFile, parserVars, function, compiled, instructionTable, bound>>

Stop(outcome) ==
  /\ phase' = outcome
  /\ UNCHANGED <<configFile, parserVars, function, compiled, dependencyGraph,
                 instructionTable, bound>>

Algorithm == OptionList("SynthesisProcess", "SchedulingAlgorithm")[1]
WordLength == OptionList("MemoryType", "WordLength")[1]
OptimizationTarget == OptionList("SynthesisProcess", "AdoptedOptimizations")[1]

(* at() throws for an option that is not there.                            *)
Missing(macro, field) == ~HasOption(macro, field)

(* begin() of an empty list is dereferenced.                               *)
Unreadable(macro, field) == HasOption(macro, field) /\ OptionList(macro, field) = << >>

ReadsAlgorithm == phase = "schedule"
ReadsOthers == phase = "bind"

Schedule ==
  /\ ReadsAlgorithm
  /\ ~Missing("SynthesisProcess", "SchedulingAlgorithm")
  /\ ~Unreadable("SynthesisProcess", "SchedulingAlgorithm")
  /\ instructionTable' = IF Algorithm = "ASAP" THEN dependencyGraph ELSE instructionTable
  /\ phase' = "bind"
  /\ UNCHANGED <<configFile, parserVars, function, compiled, dependencyGraph, bound>>

Bind ==
  /\ ReadsOthers
  /\ ~Missing("MemoryType", "WordLength") /\ ~Unreadable("MemoryType", "WordLength")
  /\ ~Missing("SynthesisProcess", "AdoptedOptimizations")
  /\ ~Unreadable("SynthesisProcess", "AdoptedOptimizations")
  /\ WordLength \in Numbers
  /\ bound' = bound \cup {[function |-> function, table |-> instructionTable,
                           algorithm |-> Algorithm, par |-> WordLength,
                           optTarget |-> OptimizationTarget]}
  /\ phase' = "print"
  /\ UNCHANGED <<configFile, parserVars, function, compiled, dependencyGraph, instructionTable>>

(* An exception leaves the pass; LLVM has no handler for it.               *)
Throw ==
  /\ \/ ReadsAlgorithm /\ Missing("SynthesisProcess", "SchedulingAlgorithm")
     \/ ReadsOthers /\ \/ Missing("MemoryType", "WordLength")
                       \/ Missing("SynthesisProcess", "AdoptedOptimizations")
                       \/ /\ HasOption("MemoryType", "WordLength")
                          /\ ~Unreadable("MemoryType", "WordLength")
                          /\ WordLength \notin Numbers
  /\ Stop("aborted")

ReadNoValue ==
  /\ \/ ReadsAlgorithm /\ Unreadable("SynthesisProcess", "SchedulingAlgorithm")
     \/ ReadsOthers /\ \/ Unreadable("MemoryType", "WordLength")
                       \/ Unreadable("SynthesisProcess", "AdoptedOptimizations")
  /\ Stop("undefined")

(* The VHDL of this function takes the place of the previous one's.        *)
PrintVhdl ==
  /\ phase = "print"
  /\ phase' = "idle"
  /\ compiled' = compiled \cup {function}
  /\ function' = Nothing
  /\ UNCHANGED <<configFile, parserVars, dependencyGraph, instructionTable, bound>>

(* The user edits the file while the pass is not in it.                    *)
EditFile ==
  /\ phase = "idle"
  /\ configFile' \in Files
  /\ UNCHANGED <<parserVars, passVars>>

Step ==
  \/ Parse \/ EndParse \/ Analyse \/ Schedule \/ Bind
  \/ Throw \/ ReadNoValue \/ PrintVhdl

Next == Step \/ EditFile \/ \E f \in Functions : RunOnFunction(f)

(* The pass is one thread that nothing suspends.                           *)
Spec == Init /\ [][Next]_vars /\ WF_vars(Step)

-----------------------------------------------------------------------------
Phases == {"idle", "parse", "analyse", "schedule", "bind", "print", "aborted", "undefined"}

(* Every variable has the type of the member or local it stands for.       *)
TypeOK ==
  /\ configFile \in Files
  /\ DOMAIN parsedData \subseteq macroTypes
  /\ \A m \in DOMAIN parsedData :
       /\ DOMAIN parsedData[m] \subseteq Accepted[m]
       /\ \A f \in DOMAIN parsedData[m] : Len(parsedData[m][f]) <= 1
  /\ line \in Nat
  /\ currentMacroType \in macroTypes \cup {NoMacro}
  /\ phase \in Phases
  /\ function \in Functions \cup {Nothing}
  /\ compiled \subseteq Functions
  /\ dependencyGraph \in Functions \cup {Nothing}
  /\ instructionTable \in Functions \cup {Nothing}

(* The macro type a line of a file belongs to: the last known section      *)
(* before it.                                                              *)
MacroOf(file, n) ==
  LET Known == {k \in 1..(n - 1) :
                  file[k].kind = "section" /\ file[k].name \in macroTypes}
  IN  IF Known = {} THEN NoMacro
      ELSE file[CHOOSE k \in Known : \A j \in Known : j <= k].name

(* The lines of a file that give an option.                                *)
Gives(file, macro, field) ==
  {n \in DOMAIN file :
     file[n].kind = "field" /\ file[n].name = field /\ MacroOf(file, n) = macro}

Endless(value) == value.list /\ ~StartsWithComma(value)

(* A list that is not empty by its first comma is an option of the file.   *)
HasList(file) ==
  \E macro \in macroTypes : \E field \in Accepted[macro] :
    \E n \in Gives(file, macro, field) : Endless(file[n].value)

(* Once a file is parsed into an empty table, every option is what the     *)
(* first line that gives it says, wherever unknown sections, unknown       *)
(* fields, repeated sections and comments are (PrintConfig.cpp:74-150).    *)
OptionsFromFile ==
  phase = "analyse" /\ compiled = {} /\ configFile # NoFile =>
    \A macro \in macroTypes : \A field \in Accepted[macro] :
      LET lines == Gives(configFile, macro, field)
          first == CHOOSE n \in lines : \A m \in lines : n <= m
      IN  /\ HasOption(macro, field) <=> lines # {}
          /\ HasOption(macro, field) =>
               OptionList(macro, field) =
                 IF configFile[first].value.list THEN << >>
                 ELSE configFile[first].value.items

(* However the file is edited in between, all functions of a module are    *)
(* synthesised with the same options: parsedData is never cleared and      *)
(* never overwritten, and no function passes the binder without them.      *)
SameOptions ==
  \A b, c \in bound :
    b.algorithm = c.algorithm /\ b.par = c.par /\ b.optTarget = c.optTarget

(* The table outlives a function, but no function is bound with the table  *)
(* of another (OctantisPass.cpp:101-111): a function has its own, or none  *)
(* at all when the algorithm is not ASAP.                                  *)
OwnTableOrNone ==
  \A b \in bound : b.table = IF b.algorithm = "ASAP" THEN b.function ELSE Nothing

(* Every function ends, by its VHDL, an exception or a value that is not   *)
(* there, unless the file gives a list for an option: fieldListMaker does  *)
(* not return from it (PrintConfig.cpp:181).                               *)
FunctionEnds ==
  phase # "idle" /\ (configFile = NoFile \/ ~HasList(configFile))
    ~> phase \in {"idle", "aborted", "undefined"}
=============================================================================
