-------------------------- MODULE DriverProperties --------------------------
(***************************************************************************)
(* What main must guarantee where its parts meet: the tree the parser      *)
(* leaves is one the printer and the builder can walk, the list main       *)
(* prints is the translation of that tree, and main returns when it can.   *)
(***************************************************************************)
EXTENDS Driver

(* The types of main's own state. *)
MainTypeOK ==
  /\ stage \in {"Start", "Math", "Vector", "Open", "Parse", "Print", "Build", "Building",
                "List"} \cup Ended
  /\ given \in 0 .. 2
  /\ files \subseteq {"Math", "Vector", "user"}
  /\ loaded_classes_ \in [length : Nat, capacity : Nat, block : Nat]
  /\ instr \in 0 .. Len(instrs)
  /\ \A i \in DOMAIN listed : listed[i] \in DOMAIN instrs

PlaceExists(place) ==
  CASE place.on = "Local" ->
         place.at[1] \in DOMAIN scopes /\ place.at[2] \in DOMAIN scopes[place.at[1]].vars
    [] place.on \in {"StaticField", "InstanceField"} ->
         place.at[1] \in DOMAIN classes /\ place.at[2] \in DOMAIN classes[place.at[1]].fields
    [] OTHER -> place.on \in {"Literal", "Return"}

(* Every tree the parser has made is one that AstPrinter and the visitors  *)
(* of FlowGraphBuilder can walk: each operator has two operands, and each  *)
(* place leads to a local or a field that exists.  The contract between    *)
(* Parser::ParseBinaryExpr and AddAst and their readers (ast_printer.h,    *)
(* flow_graph_builder.cc:23-72).                                           *)
TreesFitBuilder ==
  \A c \in DOMAIN classes : \A f \in DOMAIN classes[c].functions :
    \A i \in DOMAIN classes[c].functions[f].ast :
      LET stmt == classes[c].functions[f].ast[i]
      IN  /\ Len(stmt.value.leaves) = Len(stmt.value.ops) + 1
          /\ \A place \in PlacesOf(stmt) : PlaceExists(place)

MainTree == classes[FindClass("Main")].functions[MainFunction(FindClass("Main"))].ast

(* When main returns, what it has listed is `normal' and then every        *)
(* instruction of the graph, once and in order of creation; executing the  *)
(* list does what the source of the first function called main of the      *)
(* first class called Main says, if it loads no field.  main.cc:49-62      *)
(* through the parser and the builder.                                     *)
ListingIsTranslation ==
  stage = "Returned" =>
    /\ listed = [i \in DOMAIN instrs |-> i]
    /\ ~G!LoadsField(MainTree) =>
         G!StoresOf(Tail(listed)) = G!SourceStores(MainTree)

(* The core files may define nine classes between them: each brings the    *)
(* four built-in classes again, and the block of loaded_classes_ has 16    *)
(* slots, or 17 once it has grown.  EschelleVM::LoadFile (esch_vm.cc:14)   *)
(* against Array::Resize.                                                  *)
CoreFits ==
  /\ loaded_classes_.length <= 17 => InBlock(loaded_classes_)
  /\ loaded_classes_.length > 17 => stage = "Crashed"

(* The first definitions of Example.esch are accepted, whatever follows    *)
(* them; `private' covers the field `mod' alone, getName returns String,   *)
(* and what a later object Main calls `main' is static.                    *)
ExampleAccepted ==
  LET field == classes[FindClass("Field")]
  IN  /\ pos < Len(Prefix) => pc \notin {"Done", "Aborted", "Crashed"}
      /\ stage \in {"Print", "Build", "Returned"} =>
           /\ Nil \notin {FindClass("Modifier"), FindClass("Field")}
           /\ [i \in 1 .. 2 |-> field.fields[i].mods] = <<{"private"}, {}>>
           /\ field.functions[GetFunction(field, "getName")].ret = StringClass
           /\ stage = "Returned" =>
                LET main == classes[FindClass("Main")]
                IN  "static" \in main.functions[MainFunction(FindClass("Main"))].mods

(* Once a file is parsed, main returns if the three classes are there with *)
(* types that exist, Main has a function main without a return statement,  *)
(* and the stack has room for its longest expression: nothing that main    *)
(* calls loops or dies for another reason.  One thread, which runs while   *)
(* it can.                                                                 *)
Translatable ==
  /\ stage = "Print"
  /\ \A name \in Printed : Printable(FindClass(name))
  /\ MainFunction(FindClass("Main")) # Nil
  /\ ~G!Returns(MainTree)
  /\ \A i \in DOMAIN MainTree : Len(MainTree[i].value.leaves) + 2 <= StackLimit

MainReturns == Translatable ~> stage = "Returned"

(* The usage that README.md gives (lines 25 and 31) has one argument: with  *)
(* the core files loaded, main does not die of the missing second one.     *)
OneArgumentSuffices ==
  [][stage = "Open" /\ given = 1 => stage' # "Crashed"]_mainVars
=============================================================================
