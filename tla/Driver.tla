------------------------------- MODULE Driver --------------------------------
(***************************************************************************)
(* main of Sources/main.cc, with EschelleVM of Sources/esch_vm.h and .cc:  *)
(* it loads the core files, parses the file that is its second argument,   *)
(* prints three of its classes, builds the graph of Main's function main   *)
(* and lists the instructions.  Parser and FlowGraphBuilder run as steps   *)
(* of it.                                                                  *)
(***************************************************************************)
EXTENDS Parser, Array

CONSTANTS
  StackLimit,   \* of FlowGraphBuilder
  CoreSizes     \* how many classes a core file may define

ASSUME CoreAssumption == CoreSizes \subseteq Nat
ASSUME StackAssumption == StackLimit \in Nat \ {0}

VARIABLES
  stage,    \* what main does next, or how the process ended
  given,    \* the arguments after the program's name
  files,    \* the files that exist: the core files and "user"
  loaded_classes_,   \* of EschelleVM, without its elements (Array)
  building, ast, frames, instrs, temp_count_,   \* of FlowGraphBuilder
  instr,    \* the loop that lists the instructions
  listed    \* what it has printed

G == INSTANCE FlowGraphProperties WITH pc <- building, code <- instrs, Bodies <- {}

graphVars  == <<building, ast, frames, instrs, temp_count_>>
listVars   == <<instr, listed>>
mainVars == <<stage, given, files, loaded_classes_, vars, graphVars, listVars>>

Ended == {"Returned", "Aborted", "Crashed"}

(* FOR_EACH_VM_CLASS, in order. *)
CoreFiles == <<"Math", "Vector">>

MainInit ==
  /\ stage = "Start"
  /\ given \in 0 .. 2
  /\ files \in SUBSET ({"user"} \cup { CoreFiles[k] : k \in DOMAIN CoreFiles })
  /\ loaded_classes_ = NewArray(10)
  /\ Init
  /\ building = "NotYet"
  /\ ast = <<>>
  /\ frames = <<>>
  /\ instrs = <<>>
  /\ temp_count_ = 0
  /\ instr = Nil
  /\ listed = <<>>

-----------------------------------------------------------------------------
(* std::string base(argv[1]): a null pointer when there is no argument.    *)
ReadBase ==
  /\ stage = "Start"
  /\ stage' = IF given >= 1 THEN CoreFiles[1] ELSE "Crashed"
  /\ UNCHANGED <<given, files, loaded_classes_, vars, graphVars, listVars>>

(* Every CodeUnit starts with String, Int, Double and Bool. *)
UnitBuiltins == 4

(* n calls of loaded_classes_.Add, up to the first that writes outside the *)
(* block.                                                                  *)
AddClasses(n) ==
  LET added[k \in 0 .. n] ==
        IF k = 0 THEN loaded_classes_
        ELSE IF InBlock(added[k - 1]) THEN Add(added[k - 1]) ELSE added[k - 1]
  IN  loaded_classes_' = added[n]

(* A core file that does not exist is read through a null FILE*; one that  *)
(* the parser rejects aborts, or kills, the process.  Writing past the end *)
(* of loaded_classes_ corrupts the heap: the model ends there.             *)
LoadFile(k) ==
  /\ stage = CoreFiles[k]
  /\ IF CoreFiles[k] \notin files
     THEN stage' = "Crashed" /\ UNCHANGED loaded_classes_
     ELSE \/ stage' \in {"Aborted", "Crashed"} /\ UNCHANGED loaded_classes_
          \/ \E n \in CoreSizes :
               /\ AddClasses(UnitBuiltins + n)
               /\ stage' = IF ~InBlock(loaded_classes_') THEN "Crashed"
                           ELSE IF k < Len(CoreFiles) THEN CoreFiles[k + 1] ELSE "Open"
  /\ UNCHANGED <<given, files, vars, graphVars, listVars>>

(* The second argument, and Parse's fopen; neither is checked. *)
OpenUser ==
  /\ stage = "Open"
  /\ stage' = IF given = 2 /\ "user" \in files THEN "Parse" ELSE "Crashed"
  /\ UNCHANGED <<given, files, loaded_classes_, vars, graphVars, listVars>>

ParseStep ==
  /\ stage = "Parse"
  /\ Next
  /\ stage' = CASE pc' = "Done" -> "Print"
                [] pc' \in {"Aborted", "Crashed"} -> pc'
                [] OTHER -> "Parse"
  /\ UNCHANGED <<given, files, loaded_classes_, graphVars, listVars>>

-----------------------------------------------------------------------------
(* Printing a class *)

(* The class that AstPrinter names for a place: the type of a local or of  *)
(* a field.  A literal and a return name none.                             *)
TypeOf(place) ==
  CASE place.on = "Local" -> scopes[place.at[1]].vars[place.at[2]].type
    [] place.on \in {"StaticField", "InstanceField"} ->
         classes[place.at[1]].fields[place.at[2]].type
    [] OTHER -> ObjectClass

PlacesOf(stmt) == {stmt.dest} \cup Range(stmt.value.leaves)

(* operator<< on a Class: the functions of a proto are abstract and keep   *)
(* their trees to themselves; AstPrinter follows the type of every place.  *)
Printable(c) ==
  /\ c # Nil
  /\ classes[c].type # "proto" =>
       \A f \in DOMAIN classes[c].functions : \A i \in DOMAIN classes[c].functions[f].ast :
         \A place \in PlacesOf(classes[c].functions[f].ast[i]) : TypeOf(place) # Nil

Printed == {"Modifier", "Field", "Main"}

PrintClasses ==
  /\ stage = "Print"
  /\ stage' = IF \A name \in Printed : Printable(FindClass(name))
              THEN "Build" ELSE "Crashed"
  /\ UNCHANGED <<given, files, loaded_classes_, vars, graphVars, listVars>>

MainFunction(c) == GetFunction(classes[c], "main")

(* FlowGraphBuilder(main) follows its argument; BuildGraph then creates    *)
(* `normal' and visits the tree.                                           *)
NewBuilder ==
  LET c == FindClass("Main")
      f == MainFunction(c)
  IN  /\ stage = "Build"
      /\ IF f = Nil
         THEN stage' = "Crashed" /\ UNCHANGED graphVars
         ELSE /\ stage' = "Building"
              /\ building' = "Building"
              /\ ast' = classes[c].functions[f].ast
              /\ frames' = <<G!NewFrame("Effect", G!SequenceNode)>>
              /\ instrs' = <<G!NewInstr("TargetEntry", NoPlace, <<>>)>>
              /\ temp_count_' = 0
      /\ UNCHANGED <<given, files, loaded_classes_, vars, listVars>>

BuildStep ==
  /\ stage = "Building"
  /\ G!Next
  /\ stage' = CASE building' = "Done" -> "List"
                [] building' = "Crashed" -> "Crashed"
                [] OTHER -> "Building"
  /\ instr' = IF building' = "Done" THEN G!Normal ELSE instr
  /\ UNCHANGED <<given, files, loaded_classes_, vars, listed>>

(* Mutant: the instruction without a successor is not listed. *)
ListButLast ==
  /\ stage = "List"
  /\ IF instrs[instr].next = Nil
     THEN stage' = "Returned" /\ UNCHANGED listVars
     ELSE /\ listed' = Append(listed, instr)
          /\ instr' = instrs[instr].next
          /\ UNCHANGED stage
  /\ UNCHANGED <<given, files, loaded_classes_, vars, graphVars>>

(* Mutant: the null pointer at the end is listed too. *)
ListNull ==
  /\ stage = "List"
  /\ listed' = Append(listed, instr)
  /\ IF instr = Nil
     THEN stage' = "Returned" /\ UNCHANGED instr
     ELSE instr' = instrs[instr].next /\ UNCHANGED stage
  /\ UNCHANGED <<given, files, loaded_classes_, vars, graphVars>>

(* One turn of the loop that starts at SuccessorAt(0), and main's return.  *)
List ==
  /\ stage = "List"
  /\ IF instr = Nil
     THEN stage' = "Returned" /\ UNCHANGED listVars
     ELSE /\ listed' = Append(listed, instr)
          /\ instr' = instrs[instr].next
          /\ UNCHANGED stage
  /\ UNCHANGED <<given, files, loaded_classes_, vars, graphVars>>

MainEnded == stage \in Ended /\ UNCHANGED mainVars

MainNext ==
  \/ ReadBase \/ (\E k \in DOMAIN CoreFiles : LoadFile(k)) \/ OpenUser
  \/ ParseStep \/ PrintClasses \/ NewBuilder \/ BuildStep \/ List
  \/ MainEnded

MainSpec == MainInit /\ [][MainNext]_mainVars
FairMainSpec == MainSpec /\ WF_mainVars(MainNext)
=============================================================================
