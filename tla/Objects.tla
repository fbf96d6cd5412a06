------------------------------- MODULE Objects -------------------------------
(***************************************************************************)
(* The metadata objects of Sources/object.h and object.cc (Class, Field,   *)
(* Function) and the scopes of Sources/scope.h and scope.cc, as values,    *)
(* with their operations as pure operators.                                *)
(*                                                                         *)
(* A pointer is the index of the object in the heap that holds its kind:   *)
(* a Class* is an index into a sequence of classes, a Field* or Function*  *)
(* an index into its class, a LocalScope* an index into a sequence of      *)
(* scopes.  Nothing is ever freed, so an index never dangles; Nil is       *)
(* nullptr.                                                                *)
(***************************************************************************)
EXTENDS Naturals, Sequences, SequencesExt

Nil == 0

(* The classes that exist before any source is read, in the order of their *)
(* static initialisers: Class::OBJECT, STRING, BOOLEAN, INTEGER, DOUBLE    *)
(* and VOID.                                                               *)
ObjectClass == 1
StringClass == 2
BoolClass   == 3
IntClass    == 4
DoubleClass == 5
VoidClass   == 6

(* First index of seq whose element has this name; Nil when there is none: *)
(* the search loop that GetField, GetFunction, FindClass, HasLocal and     *)
(* LocalLookup repeat.                                                     *)
FirstNamed(seq, name) == SelectInSeq(seq, LAMBDA e : e.name = name)

-----------------------------------------------------------------------------
(* Functions and fields *)

Privacy(priv) == IF priv THEN {"private"} ELSE {}

NewFunction(name, mods, ret) ==
  [name |-> name, mods |-> mods, ret |-> ret, scope |-> Nil, ast |-> <<>>]

(* Mutant: `private' is dropped. *)
DefinePublicFunction(cls, name, ret, priv) ==
  [cls EXCEPT !.functions = Append(@, NewFunction(name, {}, ret))]

DefineFunction(cls, name, ret, priv) ==
  [cls EXCEPT !.functions = Append(@, NewFunction(name, Privacy(priv), ret))]

DefineStaticFunction(cls, name, ret, priv) ==
  [cls EXCEPT !.functions =
      Append(@, NewFunction(name, Privacy(priv) \cup {"static"}, ret))]

(* Function::AttachScope, on the function defined last. *)
AttachScope(cls, s) == [cls EXCEPT !.functions[Len(cls.functions)].scope = s]

DefineField(cls, name, type, priv) ==
  [cls EXCEPT !.fields =
      Append(@, [name |-> name, type |-> type, mods |-> Privacy(priv)])]

DefineStaticField(cls, name, type, priv) ==
  [cls EXCEPT !.fields =
      Append(@, [name |-> name, type |-> type, mods |-> Privacy(priv) \cup {"static"}])]

IsFinal(cls) == "final" \in cls.mods
IsStatic(field) == "static" \in field.mods

(* Mutant: the class's kind is not consulted. *)
CreateInstanceField(cls, name, type, priv) == DefineField(cls, name, type, priv)

CreateField(cls, name, type, priv) ==
  IF IsFinal(cls) THEN DefineStaticField(cls, name, type, priv)
                  ELSE DefineField(cls, name, type, priv)

GetField(cls, name) == FirstNamed(cls.fields, name)
GetFunction(cls, name) == FirstNamed(cls.functions, name)

(* Every class but a proto is born with its constructor, an empty public   *)
(* function of the class's own name, as its first function.  A proto's     *)
(* ctor_ is left uninitialised.                                            *)
HasConstructor(cls) == cls.type # "proto"
Constructor == 1

NewClass(name, mods, super, type) ==
  LET bare == [name |-> name, mods |-> mods, super |-> super, type |-> type,
               fields |-> <<>>, functions |-> <<>>]
  IN  IF HasConstructor(bare) THEN DefineFunction(bare, name, VoidClass, FALSE)
                              ELSE bare

(* Class::VOID is still nullptr when the built-in classes are constructed, *)
(* so that their constructors have no return type.                         *)
Builtin(name, mods, super) ==
  [NewClass(name, mods, super, "class") EXCEPT !.functions[Constructor].ret = Nil]

BuiltinClasses ==
  << Builtin("Object", {}, Nil),
     Builtin("String", {"final"}, ObjectClass),
     Builtin("Bool",   {"final"}, ObjectClass),
     Builtin("Int",    {"final"}, ObjectClass),
     Builtin("Double", {"final"}, ObjectClass),
     Builtin("Void",   {"final"}, Nil) >>

-----------------------------------------------------------------------------
(* The syntax tree.  A place is what a leaf of an expression reads or a    *)
(* statement writes: a literal of a class, a local by scope and index, or  *)
(* a field by class and index.  An expression is the right comb that       *)
(* ParseBinaryExpr builds, l1 op1 (l2 op2 (l3 ...)): its leaves and its    *)
(* operators in source order.                                              *)

Place(on, owner, index) == [on |-> on, at |-> <<owner, index>>]
ReturnPlace == Place("Return", Nil, Nil)
NoPlace     == Place("None", Nil, Nil)

NoExpr == [leaves |-> <<>>, ops |-> <<>>]
Literal(class, ordinal) ==
  [leaves |-> <<Place("Literal", class, ordinal)>>, ops |-> <<>>]

(* Field::CreateLoad and CreateStore choose the node by the field's kind.  *)
FieldPlace(classes, c, i) ==
  Place(IF IsStatic(classes[c].fields[i]) THEN "StaticField" ELSE "InstanceField", c, i)

(* Function::AddAst, on the f-th function of a class. *)
AddAst(cls, f, place, value) ==
  [cls EXCEPT !.functions[f].ast = Append(@, [dest |-> place, value |-> value])]

-----------------------------------------------------------------------------
(* Scopes *)

(* LocalScope(parent): the new scope becomes the head of its parent's list *)
(* of children.                                                            *)
AddScope(scopes, parent) ==
  LET new == Len(scopes) + 1
  IN  IF parent = Nil
      THEN Append(scopes, [parent |-> Nil, child |-> Nil, sibling |-> Nil, vars |-> <<>>])
      ELSE Append([scopes EXCEPT ![parent].child = new],
                  [parent |-> parent, child |-> Nil,
                   sibling |-> scopes[parent].child, vars |-> <<>>])

HasLocal(scope, name) == FirstNamed(scope.vars, name) # Nil

AddLocal(scopes, s, name, type) ==
  [scopes EXCEPT ![s].vars = Append(@, [name |-> name, type |-> type])]

(* LocalScope::Lookup walks the ancestors but asks the receiver each time  *)
(* (scope.cc:7), so that it finds what LocalLookup finds and no more.      *)
Lookup(scope, name) == FirstNamed(scope.vars, name)
=============================================================================
