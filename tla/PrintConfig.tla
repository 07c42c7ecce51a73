----------------------------- MODULE PrintConfig -----------------------------
(***************************************************************************)
(* The parser of Octantis.cfg (Parsers/PrintConfig.cpp).                   *)
(*                                                                         *)
(* A file is a sequence of lines.  A line without "=" is a field whose     *)
(* value is its own text.  A value in brackets is a list of items;         *)
(* fieldListMaker looks for its end by comparing string::npos with NULL.   *)
(* Of a list only the first item is ever read (the getters take begin()),  *)
(* so a list is represented by it.                                         *)
(***************************************************************************)
EXTENDS Integers, Sequences, StdContainers

CONSTANTS
  Files,        \* the contents the configuration file may have
  NoFile        \* stands for a file that cannot be opened

Section(name) == [kind |-> "section", name |-> name]
Field(name, value) == [kind |-> "field", name |-> name, value |-> value]
Comment == [kind |-> "comment"]
Plain(item) == [list |-> FALSE, items |-> <<item>>]
Bracketed(items) == [list |-> TRUE, items |-> items]

(* A line is a comment, a section or a field; a value that is no list is   *)
(* its own text.                                                           *)
IsLine(l) ==
  \/ l.kind \in {"comment", "section"}
  \/ l.kind = "field" /\ (l.value.list \/ Len(l.value.items) = 1)

(* What is opened is a sequence of lines.                                  *)
ASSUME FilesAssumption ==
  \A file \in Files \ {NoFile} :
    /\ file \in Seq({file[n] : n \in DOMAIN file})
    /\ \A n \in DOMAIN file : IsLine(file[n])

(* PrintConfig.h: macroTypes, fieldsMem, fieldsSyn and fieldsAdv.          *)
Accepted ==
  [MemoryType |-> {"WordLength", "MaxDimension"},
   SynthesisProcess |-> {"AdoptedOptimizations", "SchedulingAlgorithm",
                         "OptimizedParameter"},
   AdvancedLiMSettings |-> {"ReferenceLiMArchitecture"}]

macroTypes == DOMAIN Accepted
NoMacro == ""

VARIABLES
  configFile,         \* what Octantis.cfg holds
  parsedData,         \* macro type -> field -> list of values
  line,               \* number of the next line, 0 outside ParseConfigFile
  currentMacroType,
  making              \* the list fieldListMaker is making, or NotMaking

NotMaking == [field |-> NoMacro]
parserVars == <<parsedData, line, currentMacroType, making>>

InitParser ==
  /\ configFile \in Files
  /\ parsedData = EmptyMap
  /\ line = 0
  /\ currentMacroType = NoMacro
  /\ making = NotMaking

-----------------------------------------------------------------------------
(* The line getline has read, outside fieldListMaker.                      *)
Parsing == line > 0 /\ making = NotMaking
AtLine == Parsing /\ line <= Len(configFile)
text == configFile[line]

OpenFile ==
  /\ configFile # NoFile
  /\ line' = 1
  /\ currentMacroType' = NoMacro
  /\ UNCHANGED <<parsedData, making>>

(* Seeded fault: a field that is there already is replaced.                *)
WithOptionReplaced(field, values) ==
  [parsedData EXCEPT ![currentMacroType] =
     [f \in DOMAIN @ \cup {field} |-> IF f = field THEN values ELSE @[f]]]

(* std::map::insert: the first value of a field stays.                     *)
WithOption(field, values) ==
  [parsedData EXCEPT ![currentMacroType] = Insert(@, field, values)]

SkipComment ==
  /\ AtLine /\ text.kind = "comment"
  /\ line' = line + 1
  /\ UNCHANGED <<parsedData, currentMacroType, making>>

(* Seeded fault: a section that is there already is emptied.               *)
EnterSectionAnew ==
  /\ AtLine /\ text.kind = "section" /\ text.name \in macroTypes
  /\ currentMacroType' = text.name
  /\ parsedData' = [m \in DOMAIN parsedData \cup {text.name} |->
                      IF m = text.name THEN EmptyMap ELSE parsedData[m]]
  /\ line' = line + 1
  /\ UNCHANGED making

EnterSection ==
  /\ AtLine /\ text.kind = "section" /\ text.name \in macroTypes
  /\ currentMacroType' = text.name
  /\ parsedData' = Insert(parsedData, text.name, EmptyMap)
  /\ line' = line + 1
  /\ UNCHANGED making

(* Seeded fault: the fields of an unknown section are not considered.      *)
LeaveSection ==
  /\ AtLine /\ text.kind = "section" /\ text.name \notin macroTypes
  /\ currentMacroType' = NoMacro
  /\ line' = line + 1
  /\ UNCHANGED <<parsedData, making>>

(* An unknown section is reported, and the one before it goes on.          *)
IgnoreSection ==
  /\ AtLine /\ text.kind = "section" /\ text.name \notin macroTypes
  /\ line' = line + 1
  /\ UNCHANGED <<parsedData, currentMacroType, making>>

(* Seeded fault: any field of a known section is kept.                     *)
IsAnyField == currentMacroType \in macroTypes

IsOption == currentMacroType \in macroTypes /\ text.name \in Accepted[currentMacroType]

IgnoreField ==
  /\ AtLine /\ text.kind = "field" /\ ~IsOption
  /\ line' = line + 1
  /\ UNCHANGED <<parsedData, currentMacroType, making>>

(* Seeded fault: every value is taken for a list.                          *)
ReadValueAsList ==
  /\ AtLine /\ text.kind = "field" /\ IsOption /\ ~text.value.list
  /\ making' = [field |-> text.name, item |-> 1]
  /\ UNCHANGED <<parsedData, line, currentMacroType>>

ReadValue ==
  /\ AtLine /\ text.kind = "field" /\ IsOption /\ ~text.value.list
  /\ parsedData' = WithOption(text.name, text.value.items)
  /\ line' = line + 1
  /\ UNCHANGED <<currentMacroType, making>>

(* The first comma is at position 0, which is NULL: there is no iteration. *)
StartsWithComma(value) == Len(value.items) > 1 /\ value.items[1] = ""

ReadEmptyList ==
  /\ AtLine /\ text.kind = "field" /\ IsOption
  /\ text.value.list /\ StartsWithComma(text.value)
  /\ parsedData' = WithOption(text.name, << >>)
  /\ line' = line + 1
  /\ UNCHANGED <<currentMacroType, making>>

MakeList ==
  /\ AtLine /\ text.kind = "field" /\ IsOption
  /\ text.value.list /\ ~StartsWithComma(text.value)
  /\ making' = [field |-> text.name, item |-> 1]
  /\ UNCHANGED <<parsedData, line, currentMacroType>>

(* One iteration of fieldListMaker.  No comma after the last item is found *)
(* at npos, npos + 1 is 0, and the search starts again; no later search    *)
(* finds a comma at position 0.                                            *)
MakeItem ==
  /\ making # NotMaking
  /\ making' = [making EXCEPT !.item =
                  IF @ = Len(text.value.items) THEN 1 ELSE @ + 1]
  /\ UNCHANGED <<parsedData, line, currentMacroType>>

EndOfFile == Parsing /\ line > Len(configFile)

ParseLine ==
  \/ SkipComment \/ EnterSection \/ IgnoreSection
  \/ IgnoreField \/ ReadValue \/ ReadEmptyList
  \/ MakeList \/ MakeItem

-----------------------------------------------------------------------------
(* parsedData.at(macro).at(field) is there.                                *)
HasOption(macro, field) ==
  macro \in DOMAIN parsedData /\ field \in DOMAIN parsedData[macro]

(* The list behind it.                                                     *)
OptionList(macro, field) == parsedData[macro][field]
=============================================================================
