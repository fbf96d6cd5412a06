------------------------------ MODULE CodeUnit -------------------------------
(***************************************************************************)
(* What Parser::Parse promises its callers, EschelleVM::LoadFile and main: *)
(* a CodeUnit (Sources/object.h) that starts with four built-in classes,   *)
(* grows by one finished class at a time, never changes a class it holds,  *)
(* and is handed over once.  A class that has been handed over refers to   *)
(* no class that comes later.                                              *)
(***************************************************************************)
EXTENDS Objects

VARIABLES
  unit,    \* classes_, each class with its identity
  status   \* "open" while parsing, "closed" when handed over, "failed"

Entry(classes, c) == [id |-> c, class |-> classes[c]]

(* CodeUnit::CodeUnit: Object and Void are not in the unit. *)
Init ==
  /\ unit = << Entry(BuiltinClasses, StringClass), Entry(BuiltinClasses, IntClass),
               Entry(BuiltinClasses, DoubleClass), Entry(BuiltinClasses, BoolClass) >>
  /\ status = "open"

Ids == { unit[i].id : i \in DOMAIN unit }

(* The classes a class may name: those of the unit, the two that only the  *)
(* parser names, and none at all (an unknown name is nullptr).  The fields *)
(* of an enum are of its own type.                                         *)
Nameable(e) ==
  Ids \cup {Nil, ObjectClass, VoidClass}
      \cup (IF e.class.type = "enum" THEN {e.id} ELSE {})

ClosedUnderReference(e) ==
  /\ e.class.super \in Ids \cup {Nil, ObjectClass}
  /\ \A i \in DOMAIN e.class.fields : e.class.fields[i].type \in Nameable(e)
  /\ \A i \in DOMAIN e.class.functions : e.class.functions[i].ret \in Nameable(e)

(* CodeUnit::AddClass of a new class, or of the last one a second time.    *)
AddClass(e) ==
  /\ status = "open"
  /\ \/ e.id \notin Ids /\ ClosedUnderReference(e)
     \/ e = unit[Len(unit)]
  /\ unit' = Append(unit, e)
  /\ UNCHANGED status

(* Parse returns the unit, or the process dies and nobody sees it. *)
Close ==
  /\ status = "open"
  /\ status' \in {"closed", "failed"}
  /\ UNCHANGED unit

Next == (\E e \in { unit'[Len(unit')] } : AddClass(e)) \/ Close

Spec == Init /\ [][Next]_<<unit, status>>
=============================================================================
